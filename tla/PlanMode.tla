------------------------------ MODULE PlanMode ------------------------------
(***************************************************************************)
(* Plan mode as the TUI runs it: the /plan, /auto and /stop commands, the  *)
(* mode manager (internal/mode), the workflow that creates a plan issue    *)
(* and the approval watcher (internal/approval) that polls its comments.   *)
(*                                                                         *)
(* The TUI handles one message at a time.  A command it returns runs in a  *)
(* goroutine of its own and sends a message when it is done; messages of   *)
(* different goroutines arrive in any order.  A goroutine that reads the   *)
(* model sees it as it was when the command was made, because Update works *)
(* on a copy; the mode manager and the watcher are shared.                 *)
(***************************************************************************)
EXTENDS Naturals, FiniteSets

CONSTANTS MaxPlans,  \* bound: /plan commands, each of which may make an issue
          Checks,    \* the goroutines of checkPlanApproval
          MaxTicks,  \* bound: timers of tickPlanApproval running at once
          MaxSaid    \* bound: announcements counted for an issue

ASSUME PlanModeBounds ==
    MaxPlans \in Nat \ {0} /\ MaxTicks \in Nat \ {0} /\ MaxSaid \in Nat \ {0}

\* A plan issue is named after the workflow that creates it; 0 is none.
Issues == 1 .. MaxPlans

VARIABLES mode,      \* Manager.currentMode
          context,   \* Manager.planContext: none, or whether it is approved
          plans,     \* the number of /plan commands that were obeyed
          workflow,  \* where each startPlanWorkflow goroutine is
          currentPlanIssue, \* tuiModel.currentPlanIssue
          watched,   \* Watcher.issues
          time,      \* before, in or after the second an issue's WatchedAt falls in
          ticks,     \* planApprovalTick timers running
          check,     \* where each checkPlanApproval goroutine is
          approved,  \* planApprovedMsg on their way, a count for each issue
          comment,   \* GitHub: the owner's approval of each issue
          said       \* history: approvals announced for each issue

modeVars == <<mode, context>>
vars == <<mode, context, plans, workflow, currentPlanIssue, watched, time, ticks, check,
          approved, comment, said>>

IdleCheck == [pc |-> "idle", plan |-> 0, left |-> {}, seen |-> {}]

Init ==
    /\ mode = "interactive" /\ context = "none"
    /\ plans = 0
    /\ workflow = [i \in Issues |-> "none"]
    /\ currentPlanIssue = 0
    /\ watched = {}
    /\ time = [i \in Issues |-> "before"]
    /\ ticks = 0
    /\ check = [c \in Checks |-> IdleCheck]
    /\ approved = [i \in Issues |-> 0]
    /\ comment = [i \in Issues |-> "none"]
    /\ said = [i \in Issues |-> 0]

----------------------------------------------------------------------------
(* The owner's commands *)

\* /plan is refused outside interactive mode (Manager.EnterPlanMode).
Plan ==
    /\ mode = "interactive" /\ plans < MaxPlans
    /\ mode' = "plan" /\ context' = "unapproved"
    /\ plans' = plans + 1
    /\ workflow' = [workflow EXCEPT ![plans + 1] = "started"]
    /\ UNCHANGED <<currentPlanIssue, watched, time, ticks, check, approved, comment,
                   said>>

\* Mutant: the plan context is kept.
EnterAutoKeepsContext ==
    /\ mode = "interactive"
    /\ mode' = "auto" /\ context' = "unapproved"
    /\ UNCHANGED <<plans, workflow, currentPlanIssue, watched, time, ticks, check,
                   approved, comment, said>>

\* /auto goes from interactive to auto mode without a plan.
EnterAuto ==
    /\ mode = "interactive"
    /\ mode' = "auto" /\ context' = "none"
    /\ UNCHANGED <<plans, workflow, currentPlanIssue, watched, time, ticks, check,
                   approved, comment, said>>

StopMode == mode' = "interactive" /\ context' = "none"

\* /stop
Stop ==
    /\ StopMode
    /\ watched' = watched \ {currentPlanIssue}
    /\ currentPlanIssue' = 0
    /\ UNCHANGED <<plans, workflow, time, ticks, check, approved, comment, said>>

----------------------------------------------------------------------------
(* startPlanWorkflow and planWorkflowMsg *)

\* CreatePlanIssue makes the issue.
WorkflowCreate(i) ==
    /\ workflow[i] = "started"
    /\ workflow' = [workflow EXCEPT ![i] = "created"]
    /\ UNCHANGED <<modeVars, plans, currentPlanIssue, watched, time, ticks, check,
                   approved, comment, said>>

\* The analysis or the creation fails, or GitHub's answer is lost.
WorkflowFail(i) ==
    /\ workflow[i] \in {"started", "created"}
    /\ workflow' = [workflow EXCEPT ![i] = "failed"]
    /\ UNCHANGED <<modeVars, plans, currentPlanIssue, watched, time, ticks, check,
                   approved, comment, said>>

\* planWorkflowMsg with an error: the mode is stopped, whichever it is by now.
PlanFailed(i) ==
    /\ workflow[i] = "failed"
    /\ workflow' = [workflow EXCEPT ![i] = "done"]
    /\ StopMode
    /\ UNCHANGED <<plans, currentPlanIssue, watched, time, ticks, check, approved,
                   comment, said>>

\* planWorkflowMsg with an issue: it is watched from now on and polling starts.
PlanCreated(i) ==
    /\ workflow[i] = "created"
    /\ workflow' = [workflow EXCEPT ![i] = "done"]
    /\ currentPlanIssue' = i
    /\ watched' = watched \cup {i}
    /\ time' = [time EXCEPT ![i] = "now"]
    /\ ticks < MaxTicks /\ ticks' = ticks + 1
    /\ UNCHANGED <<modeVars, plans, check, approved, comment, said>>

----------------------------------------------------------------------------
(* planApprovalTickMsg, checkPlanApproval and Watcher.CheckOnce *)

\* In plan mode a tick starts a check and the next timer; else polling ends.
TickStops ==
    /\ ticks > 0
    /\ mode # "plan" \/ currentPlanIssue = 0
    /\ ticks' = ticks - 1
    /\ UNCHANGED <<modeVars, plans, workflow, currentPlanIssue, watched, time, check,
                   approved, comment, said>>

\* Mutant: a check is started and polling ends.
TickChecksLast(c) ==
    /\ ticks > 0 /\ check[c].pc = "idle"
    /\ mode = "plan" /\ currentPlanIssue > 0
    /\ check' = [check EXCEPT ![c].pc = "snapshot", ![c].plan = currentPlanIssue]
    /\ ticks' = ticks - 1
    /\ UNCHANGED <<modeVars, plans, workflow, currentPlanIssue, watched, time, approved,
                   comment, said>>

TickChecks(c) ==
    /\ ticks > 0 /\ check[c].pc = "idle"
    /\ mode = "plan" /\ currentPlanIssue > 0
    /\ check' = [check EXCEPT ![c].pc = "snapshot", ![c].plan = currentPlanIssue]
    /\ UNCHANGED <<modeVars, plans, workflow, currentPlanIssue, watched, time, ticks,
                   approved, comment, said>>

\* The watched issues are copied under the lock.
CheckSnapshot(c) ==
    /\ check[c].pc = "snapshot"
    /\ check' = [check EXCEPT ![c].pc = "fetch", ![c].left = watched]
    /\ UNCHANGED <<modeVars, plans, workflow, currentPlanIssue, watched, time, ticks,
                   approved, comment, said>>

\* Mutant: comments from before the watch count too.
CheckFetchAny(c) ==
    /\ check[c].pc = "fetch"
    /\ \E i \in check[c].left :
          /\ check' = [check EXCEPT ![c].left = @ \ {i}, ![c].seen = @ \cup {i}]
          /\ watched' = watched \ {i}
    /\ UNCHANGED <<modeVars, plans, workflow, currentPlanIssue, time, ticks, approved,
                   comment, said>>

\* The comments of one issue are fetched: an approval ends the watch.
CheckFetch(c) ==
    /\ check[c].pc = "fetch"
    /\ \E i \in check[c].left :
          LET found == comment[i] = "approved"
          IN /\ check' = [check EXCEPT ![c].left = @ \ {i},
                                       ![c].seen = IF found THEN @ \cup {i} ELSE @]
             /\ watched' = IF found THEN watched \ {i} ELSE watched
    /\ UNCHANGED <<modeVars, plans, workflow, currentPlanIssue, time, ticks, approved,
                   comment, said>>

\* An issue whose comments cannot be fetched is skipped.
CheckError(c) ==
    /\ check[c].pc = "fetch"
    /\ \E i \in check[c].left : check' = [check EXCEPT ![c].left = @ \ {i}]
    /\ UNCHANGED <<modeVars, plans, workflow, currentPlanIssue, watched, time, ticks,
                   approved, comment, said>>

\* Only the approval of the plan issue the check was started for is reported.
CheckReport(c) ==
    /\ check[c].pc = "fetch" /\ check[c].left = {}
    /\ check' = [check EXCEPT ![c] = IdleCheck]
    /\ LET i == check[c].plan
       IN approved' = IF i \in check[c].seen
                      THEN [approved EXCEPT ![i] = @ + 1] ELSE approved
    /\ UNCHANGED <<modeVars, plans, workflow, currentPlanIssue, watched, time, ticks,
                   comment, said>>

\* planApprovedMsg: "Autoモードに移行します" is shown, and nothing else is done.
PlanApproved(i) ==
    /\ approved[i] > 0 /\ said[i] < MaxSaid
    /\ approved' = [approved EXCEPT ![i] = @ - 1]
    /\ said' = [said EXCEPT ![i] = @ + 1]
    /\ UNCHANGED <<modeVars, plans, workflow, currentPlanIssue, watched, time, ticks,
                   check, comment>>

----------------------------------------------------------------------------
(* GitHub and the clock *)

\* The owner approves an issue that was created.  GitHub's times have no
\* fraction of a second: a comment made in the second in which the watch began
\* is dated before it, and FindApprovalSince skips it like an earlier one.
Approve(i) ==
    /\ workflow[i] \in {"created", "failed", "done"} /\ comment[i] = "none"
    /\ comment' = [comment EXCEPT ![i] = IF time[i] = "after" THEN "approved" ELSE "early"]
    /\ UNCHANGED <<modeVars, plans, workflow, currentPlanIssue, watched, time, ticks,
                   check, approved, said>>

SecondPasses(i) ==
    /\ time[i] = "now"
    /\ time' = [time EXCEPT ![i] = "after"]
    /\ UNCHANGED <<modeVars, plans, workflow, currentPlanIssue, watched, ticks, check,
                   approved, comment, said>>

\* A step the program makes by itself, in the TUI or in a goroutine.
WorkflowEnds(i) == WorkflowCreate(i) \/ WorkflowFail(i)
CheckStep(c) == CheckSnapshot(c) \/ CheckFetch(c) \/ CheckError(c) \/ CheckReport(c)

Next ==
    \/ Plan \/ EnterAuto \/ Stop \/ TickStops
    \/ \E i \in Issues : WorkflowEnds(i) \/ PlanFailed(i) \/ PlanCreated(i)
                         \/ PlanApproved(i) \/ Approve(i) \/ SecondPasses(i)
    \/ \E c \in Checks : TickChecks(c) \/ CheckStep(c)

Spec == Init /\ [][Next]_vars

\* Messages are handled, timers fire and goroutines go on (a call of GitHub ends
\* within its timeout); fetching the comments of an issue does not fail for ever.
Fairness ==
    /\ WF_vars(TickStops)
    /\ \A i \in Issues : WF_vars(WorkflowEnds(i)) /\ WF_vars(PlanFailed(i))
                         /\ WF_vars(PlanCreated(i)) /\ WF_vars(PlanApproved(i))
    /\ \A c \in Checks : SF_vars(TickChecks(c)) /\ WF_vars(CheckStep(c))
    /\ \A c \in Checks, i \in Issues :
          SF_vars(i \in check[c].left /\ CheckFetch(c) /\ i \notin check[c].left')
FairSpec == Spec /\ Fairness

----------------------------------------------------------------------------
(* Properties *)

\* Every variable keeps its type.
TypeOK ==
    /\ mode \in {"interactive", "plan", "auto"}
    /\ context \in {"none", "unapproved", "approved"}
    /\ plans \in 0 .. MaxPlans
    /\ workflow \in [Issues -> {"none", "started", "created", "failed", "done"}]
    /\ currentPlanIssue \in 0 .. MaxPlans
    /\ watched \subseteq Issues
    /\ time \in [Issues -> {"before", "now", "after"}]
    /\ ticks \in 0 .. MaxTicks
    /\ check \in [Checks -> [pc : {"idle", "snapshot", "fetch"}, plan : 0 .. MaxPlans,
                             left : SUBSET Issues, seen : SUBSET Issues]]
    /\ approved \in [Issues -> 0 .. Cardinality(Checks) + MaxSaid]
    /\ comment \in [Issues -> {"none", "early", "approved"}]
    /\ said \in [Issues -> 0 .. MaxSaid]

\* There is a plan context exactly when plan mode was entered and not left:
\* "GetPlanContext returns the current plan context (nil if not in plan/auto
\* mode)" (mode.go); late workflow results keep it so.
ContextFollowsMode == mode = "plan" <=> context # "none"

\* An announced approval was given, on the issue and while it was watched.
AnnouncedWasGiven ==
    \A i \in Issues : approved[i] + said[i] > 0 => comment[i] = "approved"

\* An approval of the current plan issue, made while it is watched, is announced
\* unless the owner leaves plan mode or another issue takes its place
\* (tickPlanApproval, CheckOnce).  A check that was started for another issue
\* and is still in flight excuses it: it may consume the approval and drop it.
ApprovalIsAnnounced ==
    \A i \in Issues :
        (comment[i] = "approved" /\ i \in watched /\ currentPlanIssue = i /\ mode = "plan")
        ~> \/ said[i] > 0 \/ currentPlanIssue # i \/ mode # "plan"
           \/ \E c \in Checks : check[c].pc # "idle" /\ check[c].plan # i

(* Claims of the code and its documents that runs refute *)

\* ApprovalIsAnnounced without the excuse: the message of planWorkflowMsg
\* promises that a comment on the issue is enough.
NoApprovalIsLost ==
    \A i \in Issues :
        (comment[i] = "approved" /\ currentPlanIssue = i /\ mode = "plan")
        ~> (said[i] > 0 \/ currentPlanIssue # i \/ mode # "plan")

\* After the announcement "Autoモードに移行します" (tui.go, planApprovedMsg), auto
\* mode is entered, unless the owner stops plan mode.
ApprovedEntersAuto ==
    \A i \in Issues : (said[i] > 0 /\ mode = "plan") ~> mode # "plan"

\* Auto mode is entered from plan mode only, after the plan was approved (the
\* note on Auto mode in docs/configuration.md).
AutoNeedsApproval ==
    [][(mode # "auto" /\ mode' = "auto") => (mode = "plan" /\ context = "approved")]_mode

\* An approval is announced once: "Stop watching this issue once approved"
\* (watcher.go, CheckOnce).
AnnouncedOnce == \A i \in Issues : said[i] <= 1

\* A failed workflow rolls its own plan mode back, and does not end another mode:
\* "Rollback to interactive" (tui.go, planWorkflowMsg).
RollbackIsOwn == [][\A i \in Issues : (workflow[i] = "failed" /\ workflow'[i] = "done")
                        => mode # "auto"]_vars

\* An approval on a plan issue is announced while plan mode lasts, whenever it
\* was given: the issue says that a comment approves it (plan.go).
EveryApprovalCounts ==
    \A i \in Issues :
        (comment[i] # "none" /\ currentPlanIssue = i /\ mode = "plan")
        ~> (said[i] > 0 \/ currentPlanIssue # i \/ mode # "plan")
=============================================================================
