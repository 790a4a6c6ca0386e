----------------------------- MODULE MCRecords ------------------------------
(***************************************************************************)
(* The three watchers that ask GitHub for what happened since they asked   *)
(* before, each with a time of its own for "before": EventWatch, Feedback  *)
(* and Cleanup.  They share no state: a behaviour is one of the watcher    *)
(* that part names.                                                        *)
(***************************************************************************)
EXTENDS Naturals, Sequences, FiniteSets

CONSTANTS Items, Pulls, PageSize, LastTick,
          Comments, Contents, MaxPlans, EventCap, FinalTick,
          Works, Others, PRPage, MaxStarts, EndTick

\* GitHub numbers what it keeps from one; finitely many comments are looked at.
ASSUME NumbersAssumption ==
    /\ Works \subseteq Nat \ {0} /\ Works \cap Others = {}
    /\ Comments \subseteq Nat \ {0} /\ IsFiniteSet(Comments)

VARIABLES tick, when, changed, marks, cursor, seen, check, first, printed, excused,
          now, comment, planned, plans, watchedAt, scan, eventCh, taken, given, pardoned,
          clock, mergedAt, touched, begun, tree, foreign, since, poll, starts, handled,
          spared, risky, lost,
          part

E == INSTANCE EventWatch
F == INSTANCE Feedback
C == INSTANCE Cleanup

eventVars == <<tick, when, changed, marks, cursor, seen, check, first, printed, excused>>
feedbackVars == <<now, comment, planned, plans, watchedAt, scan, eventCh, taken, given,
                  pardoned>>
cleanupVars == <<clock, mergedAt, touched, begun, tree, foreign, since, poll, starts,
                 handled, spared, risky, lost>>
vars == <<eventVars, feedbackVars, cleanupVars, part>>

Init ==
    /\ part \in {"event", "feedback", "cleanup"}
    /\ E!EventInit /\ F!FeedbackInit /\ C!CleanupInit
    /\ part # "event" => marks

Next ==
    /\ UNCHANGED part
    /\ \/ part = "event" /\ E!EventNext /\ UNCHANGED <<feedbackVars, cleanupVars>>
       \/ part = "feedback" /\ F!FeedbackNext /\ UNCHANGED <<eventVars, cleanupVars>>
       \/ part = "cleanup" /\ C!CleanupNext /\ UNCHANGED <<eventVars, feedbackVars>>

Spec == Init /\ [][Next]_vars

\* What was reported once is never reported again, although every watcher asks from
\* a time of its own clock and GitHub answers with timestamps cut to the second: an
\* event is printed once, a comment given to the callback once, a merge handled once
\* by one TUI.
ReportedOnce == E!PrintedOnce /\ F!GivenOnce /\ C!HandledOnce

\* What happened before the last check was reported, or was missed for one of the
\* reasons that EventWatch, Feedback and Cleanup give: the second of the check, what
\* comes during a request, more than a page before it in the list, and for EventWatch
\* alone the first check, a request that failed, and a list that does not say of a pull
\* request that it was merged.
MissedForAReason == E!MissedForAReason /\ F!GivenOrToCome /\ C!HandledOrToCome

\* Work that is not merged loses its worktree only if it was begun while a merge from a
\* branch of that name was still to be handled, or if a fork's was merged or the TUI
\* started again since.
OnlyRiskyWorkIsLost == C!OnlyRiskyWorkIsLost
=============================================================================
