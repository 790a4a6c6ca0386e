------------------------------ MODULE Feedback ------------------------------
(***************************************************************************)
(* Comments on the issue of a plan (internal/approval/feedback.go and the  *)
(* polling of internal/mode/auto_plan.go): the watcher's goroutine fetches *)
(* and classifies them, the handler's goroutine gives those that are about *)
(* the current plan to its callback.  The issue is one; a plan on it may   *)
(* be stopped and started again.  As in EventWatch, a tick is half a       *)
(* second and GitHub's timestamps drop what is below one; here its clock   *)
(* is never ahead of the watcher's, which reads a time between two ticks.  *)
(***************************************************************************)
EXTENDS Naturals, Sequences, FiniteSets

CONSTANTS Comments,  \* the comments that are ever made
          Contents,  \* what a comment may hold, each a set of kinds
          MaxPlans,  \* bound: plans started
          EventCap,  \* the capacity of the watcher's channel
          FinalTick  \* bound: the time that is looked at

Unwatched == 0

VARIABLES now,       \* the time
          comment,   \* GitHub: when each comment was made, what it holds
          planned,   \* whether the handler has a plan on the issue
          plans,     \* how many were started
          watchedAt, \* FeedbackWatcher.issues: the time of the entry, or Unwatched
          scan,      \* the watcher's goroutine: where it is, since when it asks, its events
          eventCh,   \* the channel from the watcher to the handler
          taken,     \* the event the handler has taken
          given,     \* how often the callback was given each comment
          pardoned   \* history: the comments that may be missed

feedbackVars == <<now, comment, planned, plans, watchedAt, scan, eventCh, taken, given, pardoned>>

NoComment == [at |-> 0, holds |-> {}]
NoScan == [pc |-> "idle", since |-> Unwatched, events |-> <<>>]

FeedbackInit ==
    /\ now = 1
    /\ comment = [c \in Comments |-> NoComment]
    /\ planned = FALSE /\ plans = 0 /\ watchedAt = Unwatched
    /\ scan = NoScan /\ eventCh = <<>> /\ taken = {}
    /\ given = [c \in Comments |-> 0] /\ pardoned = {}

Second(t) == t - (t % 2)
Made == {c \in Comments : comment[c].at > 0}

\* ClassifyComment: an approval comes before a question, a question before a wish.
Class(holds) ==
    CASE "approval" \in holds -> "approval"
      [] "approval" \notin holds /\ "question" \in holds -> "question"
      [] holds = {"feedback"} -> "feedback"
      [] OTHER -> "unknown"

Kind(c) == Class(comment[c].holds)
Wanted(c) == Kind(c) \in {"question", "feedback"}

----------------------------------------------------------------------------
(* StartPlanWorkflow and Stop of the handler, as far as the watcher goes *)

StartPlan ==
    /\ ~planned /\ plans < MaxPlans
    /\ planned' = TRUE /\ plans' = plans + 1
    /\ watchedAt' = IF watchedAt = Unwatched THEN now ELSE watchedAt
    /\ UNCHANGED <<now, comment, scan, eventCh, taken, given, pardoned>>

StopPlan ==
    /\ planned /\ planned' = FALSE
    /\ watchedAt' = Unwatched
    /\ pardoned' = pardoned \cup Made
    /\ UNCHANGED <<now, comment, plans, scan, eventCh, taken, given>>

----------------------------------------------------------------------------
(* CheckOnce and the goroutine of Start *)

\* The entry is copied as a pointer: only this goroutine writes into it.
ScanBegin ==
    /\ scan.pc = "idle" /\ watchedAt # Unwatched
    /\ scan' = [NoScan EXCEPT !.pc = "fetch", !.since = watchedAt]
    /\ UNCHANGED <<now, comment, planned, plans, watchedAt, eventCh, taken, given, pardoned>>

Found ==
    {c \in Made : Second(comment[c].at) > scan.since /\ Kind(c) # "unknown"}

\* Comments in the order in which they were made, which is that of their numbers.
InOrder(S) ==
    {s \in [1 .. Cardinality(S) -> S] : \A i, j \in DOMAIN s : i < j => s[i] < s[j]}

ScanFetch ==
    /\ scan.pc = "fetch"
    /\ \E events \in InOrder(Found) : scan' = [scan EXCEPT !.pc = "mark", !.events = events]
    /\ UNCHANGED <<now, comment, planned, plans, watchedAt, eventCh, taken, given, pardoned>>

\* An issue whose request fails is skipped.
ScanFails ==
    /\ scan.pc = "fetch"
    /\ scan' = NoScan
    /\ UNCHANGED <<now, comment, planned, plans, watchedAt, eventCh, taken, given, pardoned>>

\* Mutant: the time of the snapshot is kept, so as to miss nothing.
ScanMarkBefore ==
    /\ scan.pc = "mark"
    /\ scan' = [scan EXCEPT !.pc = "emit"]
    /\ UNCHANGED <<now, comment, planned, plans, watchedAt, eventCh, taken, given, pardoned>>

\* The entry that is there by now is set to the time after the request.
ScanMark ==
    /\ scan.pc = "mark"
    /\ watchedAt' = IF watchedAt = Unwatched THEN Unwatched ELSE now
    /\ scan' = [scan EXCEPT !.pc = "emit"]
    /\ UNCHANGED <<now, comment, planned, plans, eventCh, taken, given, pardoned>>

ScanEmit ==
    /\ scan.pc = "emit"
    /\ IF scan.events = <<>>
         THEN scan' = NoScan /\ UNCHANGED eventCh
         ELSE /\ Len(eventCh) < EventCap
              /\ eventCh' = Append(eventCh, Head(scan.events))
              /\ scan' = [scan EXCEPT !.events = Tail(@)]
    /\ UNCHANGED <<now, comment, planned, plans, watchedAt, taken, given, pardoned>>
EndScan ==
    /\ scan.pc # "gone"
    /\ scan' = [NoScan EXCEPT !.pc = "gone"]
    /\ pardoned' = pardoned \cup Made
    /\ UNCHANGED <<now, comment, planned, plans, watchedAt, eventCh, taken, given>>

----------------------------------------------------------------------------
(* StartFeedbackPolling *)

\* Approvals are left to the other watcher, other plans' comments are dropped.
PollTake ==
    /\ taken = {} /\ eventCh # <<>>
    /\ eventCh' = Tail(eventCh)
    /\ taken' = {c \in {Head(eventCh)} : planned /\ Kind(c) # "approval"}
    /\ UNCHANGED <<now, comment, planned, plans, watchedAt, scan, given, pardoned>>

PollGive ==
    /\ taken # {}
    /\ given' = [c \in Comments |-> given[c] + (IF c \in taken THEN 1 ELSE 0)]
    /\ taken' = {}
    /\ UNCHANGED <<now, comment, planned, plans, watchedAt, scan, eventCh, pardoned>>

----------------------------------------------------------------------------
(* GitHub *)

FeedbackTick ==
    /\ now < FinalTick /\ now' = now + 1
    /\ UNCHANGED <<comment, planned, plans, watchedAt, scan, eventCh, taken, given, pardoned>>

\* One that nobody watches for may be missed, as may one that comes between a request
\* and the mark or in the second of the mark.
MakeComment(c) ==
    /\ comment[c] = NoComment /\ \A d \in Comments : d < c => d \in Made
    /\ \E holds \in Contents : comment' = [comment EXCEPT ![c] = [at |-> now, holds |-> holds]]
    /\ pardoned' = IF ~planned \/ scan.pc \in {"mark", "gone"} \/ Second(now) <= watchedAt
                     THEN pardoned \cup {c} ELSE pardoned
    /\ UNCHANGED <<now, planned, plans, watchedAt, scan, eventCh, taken, given>>

FeedbackNext ==
    \/ StartPlan \/ StopPlan \/ FeedbackTick
    \/ ScanBegin \/ ScanFetch \/ ScanFails \/ ScanMark \/ ScanEmit \/ EndScan
    \/ PollTake \/ PollGive
    \/ \E c \in Comments : MakeComment(c)

FeedbackSpec == FeedbackInit /\ [][FeedbackNext]_feedbackVars

----------------------------------------------------------------------------
(* Properties *)

\* A comment is given to the callback at most once, although plans on the same issue
\* come and go while its comments are fetched.
GivenOnce == \A c \in Comments : given[c] <= 1

\* A question or a wish that was made while the plan was watched is given to the
\* callback or will still be found, unless it is one that may be missed.
GivenOrToCome ==
    scan.pc = "idle" /\ eventCh = <<>> /\ taken = {} =>
        \A c \in Made \ pardoned :
            Wanted(c) => given[c] = 1 \/ Second(comment[c].at) > watchedAt
=============================================================================
