------------------------------- MODULE MCRuns -------------------------------
(***************************************************************************)
(* The runner of approved tasks: by itself, with every way to use it, and  *)
(* as AutoPlanHandler uses it.  A behaviour is one of the part that part   *)
(* names; the runner by itself has an issue checker and cancelled contexts *)
(* besides.                                                                *)
(***************************************************************************)
EXTENDS AutoPlan

VARIABLE part

\* Bounds: what AutoPlanHandler gives the runner, and the issues the owner approves, as
\* often as the starts tell apart.
MaxGiven == 2
MaxApproved == 1
Bounds ==
    /\ added' <= MaxGiven
    /\ Cardinality({i \in Issues : approvedAt'[i] > 0}) <= MaxApproved

Alone == INSTANCE Runner WITH Checker <- TRUE, Cancels <- TRUE

SuiteInit == part \in {"runner", "autoplan"} /\ Init

SuiteNext ==
    /\ UNCHANGED part
    /\ \/ part = "runner" /\ Alone!Next /\ UNCHANGED planVars
       \/ part = "autoplan" /\ PlanNext /\ Bounds

\* What AutoPlan assumes of its goroutines.
SuiteFairness ==
    /\ \A c \in Checkers :
          /\ WF_allVars(part = "autoplan" /\ CheckStep(c) /\ Bounds)
          /\ SF_allVars(/\ part = "autoplan"
                        /\ CheckFetch(c) /\ \E i \in IssuesOf(checker[c].left) : Watched(i))
    /\ \A l \in Loops : WF_allVars(part = "autoplan" /\ Run(l))

SuiteSpec == SuiteInit /\ [][SuiteNext]_<<allVars, part>> /\ SuiteFairness

\* The tasks that AutoPlanHandler gives the runner are approved plans, as long as
\* nothing was stopped (handleApproval; the runner by itself takes any task).
OnlyApprovedPlansRun == part = "autoplan" => OnlyApprovedRuns
=============================================================================
