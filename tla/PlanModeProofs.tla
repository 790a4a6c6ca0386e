--------------------------- MODULE PlanModeProofs ---------------------------
(***************************************************************************)
(* Theorems of PlanMode, for every number of plans, timers and counted     *)
(* announcements, and every set of checks that overlap.                    *)
(***************************************************************************)
EXTENDS PlanMode, TLAPS

USE DEF Issues

-----------------------------------------------------------------------------
(* An announcement goes back to a comment through three hands: the check   *)
(* that saw it, the message the check sent, the line the TUI showed.  No   *)
(* hand may hold an approval that was not given, and a comment that was    *)
(* counted as an approval stays one.                                       *)

SeenWasGiven == \A c \in Checks : \A i \in check[c].seen : comment[i] = "approved"

HandTypes ==
    /\ check \in [Checks -> [pc : {"idle", "snapshot", "fetch"}, plan : 0 .. MaxPlans,
                             left : SUBSET Issues, seen : SUBSET Issues]]
    /\ watched \subseteq Issues
    /\ currentPlanIssue \in 0 .. MaxPlans
    /\ comment \in [Issues -> {"none", "early", "approved"}]
    /\ approved \in [Issues -> Nat] /\ said \in [Issues -> Nat]

GivenInv == HandTypes /\ SeenWasGiven /\ AnnouncedWasGiven

LEMMA GivenInit == Init => GivenInv
BY PlanModeBounds DEF Init, GivenInv, HandTypes, SeenWasGiven, AnnouncedWasGiven, IdleCheck,
    PlanModeBounds

\* The owner, the workflow and the timers pass no approval on.
LEMMA OthersGiven ==
  ASSUME GivenInv, UNCHANGED <<check, approved, said, comment>>,
         watched' \subseteq Issues, currentPlanIssue' \in 0 .. MaxPlans
  PROVE  GivenInv'
BY DEF GivenInv, HandTypes, SeenWasGiven, AnnouncedWasGiven

LEMMA CheckGiven ==
  ASSUME NEW c \in Checks, GivenInv, TickChecks(c) \/ CheckStep(c)
  PROVE  GivenInv'
<1> USE DEF GivenInv, HandTypes, SeenWasGiven, AnnouncedWasGiven
<1>1. CASE TickChecks(c)
  BY <1>1, ZenonT(40) DEF TickChecks
<1>2. CASE CheckSnapshot(c)
  BY <1>2, ZenonT(40) DEF CheckSnapshot
<1>3. CASE CheckFetch(c)
  <2>1. PICK i \in check[c].left :
          /\ check' = [check EXCEPT ![c].left = @ \ {i},
                                    ![c].seen = IF comment[i] = "approved" THEN @ \cup {i}
                                                                           ELSE @]
          /\ watched' \in {watched, watched \ {i}}
    BY <1>3 DEF CheckFetch
  <2>2. i \in Issues
    BY <2>1
  <2> DEFINE r == [check[c] EXCEPT !.left = @ \ {i},
                                   !.seen = IF comment[i] = "approved" THEN @ \cup {i}
                                                                       ELSE @]
  <2>3. check' = [check EXCEPT ![c] = r]
    BY <2>1
  <2>4. check' \in [Checks -> [pc : {"idle", "snapshot", "fetch"}, plan : 0 .. MaxPlans,
                               left : SUBSET Issues, seen : SUBSET Issues]]
    <3>1. r \in [pc : {"idle", "snapshot", "fetch"}, plan : 0 .. MaxPlans,
                 left : SUBSET Issues, seen : SUBSET Issues]
      BY <2>2, ZenonT(40)
    <3> HIDE DEF r
    <3> QED
      BY <2>3, <3>1
  <2>5. SeenWasGiven'
    BY <1>3, <2>1, <2>3 DEF CheckFetch
  <2> QED
    BY <1>3, <2>1, <2>4, <2>5 DEF CheckFetch
<1>4. CASE CheckError(c)
  <2>1. PICK i \in check[c].left : check' = [check EXCEPT ![c].left = @ \ {i}]
    BY <1>4 DEF CheckError
  <2> QED
    BY <1>4, <2>1 DEF CheckError
<1>5. CASE CheckReport(c)
  <2> DEFINE i == check[c].plan
  <2>1. HandTypes' /\ SeenWasGiven'
    BY <1>5, PlanModeBounds DEF CheckReport, IdleCheck, PlanModeBounds
  <2>2. ASSUME NEW j \in Issues, approved'[j] # approved[j]
        PROVE  comment[j] = "approved"
    BY <1>5, <2>2 DEF CheckReport
  <2>3. AnnouncedWasGiven'
    BY <1>5, <2>2 DEF CheckReport
  <2> QED
    BY <2>1, <2>3
<1> QED
  BY <1>1, <1>2, <1>3, <1>4, <1>5 DEF CheckStep

LEMMA IssueGiven ==
  ASSUME NEW i \in Issues, GivenInv, PlanApproved(i) \/ Approve(i)
  PROVE  GivenInv'
<1> USE DEF GivenInv, HandTypes, SeenWasGiven, AnnouncedWasGiven
<1>1. CASE PlanApproved(i)
  BY <1>1 DEF PlanApproved
<1>2. CASE Approve(i)
  BY <1>2 DEF Approve
<1> QED
  BY <1>1, <1>2

LEMMA GivenStep == GivenInv /\ [Next]_vars => GivenInv'
<1> SUFFICES ASSUME GivenInv, [Next]_vars PROVE GivenInv'
  OBVIOUS
<1> DEFINE Apart == /\ UNCHANGED <<check, approved, said, comment>>
                    /\ watched' \subseteq Issues /\ currentPlanIssue' \in 0 .. MaxPlans
<1>0. watched \subseteq Issues /\ currentPlanIssue \in 0 .. MaxPlans /\ MaxPlans \in Nat
  BY PlanModeBounds DEF GivenInv, HandTypes, PlanModeBounds
<1>1. UNCHANGED vars => Apart
  BY <1>0 DEF vars
<1>2. Plan \/ EnterAuto \/ Stop \/ TickStops => Apart
  <2>1. Plan => Apart
    BY <1>0 DEF Plan
  <2>2. EnterAuto => Apart
    BY <1>0 DEF EnterAuto
  <2>3. Stop => Apart
    BY <1>0 DEF Stop
  <2>4. TickStops => Apart
    BY <1>0 DEF TickStops
  <2> QED
    BY <2>1, <2>2, <2>3, <2>4
<1>3. ASSUME NEW i \in Issues, WorkflowEnds(i) \/ PlanFailed(i) \/ PlanCreated(i)
                                 \/ SecondPasses(i)
      PROVE  Apart
  <2>1. WorkflowEnds(i) => Apart
    BY <1>0 DEF WorkflowEnds, WorkflowCreate, WorkflowFail
  <2>2. PlanFailed(i) => Apart
    BY <1>0 DEF PlanFailed
  <2>3. PlanCreated(i) => Apart
    BY <1>0 DEF PlanCreated
  <2>4. SecondPasses(i) => Apart
    BY <1>0 DEF SecondPasses
  <2> QED
    BY <1>3, <2>1, <2>2, <2>3, <2>4
<1>4. Apart => GivenInv'
  BY OthersGiven
<1> HIDE DEF Apart
<1> QED
  BY <1>1, <1>2, <1>3, <1>4, CheckGiven, IssueGiven DEF Next

\* An announced approval was given, on that issue and while it was watched, however
\* many checks overlap and whatever the owner does meanwhile (CheckOnce, which counts
\* comments made since WatchedAt only, and checkPlanApproval).
THEOREM AnnouncementsAreTrue == Spec => []AnnouncedWasGiven
<1>1. GivenInv => AnnouncedWasGiven
  BY DEF GivenInv
<1> QED
  BY <1>1, GivenInit, GivenStep, PTL DEF Spec

-----------------------------------------------------------------------------
(* The mode and its context.                                               *)

LEMMA ContextStep == ContextFollowsMode /\ [Next]_vars => ContextFollowsMode'
<1> SUFFICES ASSUME ContextFollowsMode, [Next]_vars PROVE ContextFollowsMode'
  OBVIOUS
<1> USE DEF ContextFollowsMode
<1>1. CASE UNCHANGED modeVars
  BY <1>1 DEF modeVars
<1>2. CASE Plan \/ EnterAuto \/ Stop
  BY <1>2 DEF Plan, EnterAuto, Stop, StopMode
<1>3. ASSUME NEW i \in Issues, PlanFailed(i) PROVE ContextFollowsMode'
  BY <1>3 DEF PlanFailed, StopMode
<1>4. ASSUME NEW i \in Issues, WorkflowEnds(i) \/ PlanCreated(i) \/ PlanApproved(i)
                                 \/ Approve(i) \/ SecondPasses(i)
      PROVE  UNCHANGED modeVars
  BY <1>4 DEF WorkflowEnds, WorkflowCreate, WorkflowFail, PlanCreated, PlanApproved,
              Approve, SecondPasses
<1>5. ASSUME NEW c \in Checks, TickChecks(c) \/ CheckStep(c) PROVE UNCHANGED modeVars
  BY <1>5 DEF TickChecks, CheckStep, CheckSnapshot, CheckFetch, CheckError, CheckReport
<1>6. CASE TickStops \/ UNCHANGED vars
  BY <1>1, <1>6 DEF TickStops, vars
<1> QED
  BY <1>1, <1>2, <1>3, <1>4, <1>5, <1>6 DEF Next

\* There is a plan context exactly in plan mode, also when the result of a workflow
\* comes after the owner has left it and entered another mode (Manager in mode.go,
\* planWorkflowMsg in tui.go).
THEOREM ContextIsKept == Spec => []ContextFollowsMode
<1>1. Init => ContextFollowsMode
  BY DEF Init, ContextFollowsMode
<1> QED
  BY <1>1, ContextStep, PTL DEF Spec

=============================================================================
