------------------------------ MODULE Cleanup -------------------------------
(***************************************************************************)
(* The worktrees of merged branches (internal/github/watcher.go, the PR    *)
(* check of cmd/maxam/tui.go, internal/worktree): every five minutes the   *)
(* TUI asks for the merges since the last check and removes the worktrees  *)
(* that are on their branches.  The members use the name of one branch for *)
(* one piece of work after the other, each with its pull request; a fork   *)
(* may have a branch of the same name.  A tick is half a second and        *)
(* GitHub's timestamps drop what is below one; its clock is not ahead of   *)
(* the TUI's, which reads a time between two ticks.                        *)
(***************************************************************************)
EXTENDS Naturals, FiniteSets

CONSTANTS Works,     \* the pieces of work and their pull requests, a set 1 .. n
          Others,    \* the pull requests of forks from a branch of that name
          PRPage,    \* how many pull requests a request returns (PerPage)
          MaxStarts, \* bound: how often the TUI is started
          EndTick    \* bound: the time that is looked at

VARIABLES clock,    \* the time
          mergedAt, \* GitHub: when each pull request was merged, 0 if it was not
          touched,  \* GitHub: when each closed pull request last changed, 0 if it is open
          begun,    \* the pieces of work that were begun
          tree,     \* the work in the project's worktree of the branch, 0 if there is none
          foreign,  \* whether a worktree of another project has a branch of that name
          since,    \* Watcher.lastCheck
          poll,     \* checkMergedPRs: where it is, the merges it has found
          starts,   \* how often the TUI was started
          handled,  \* history: how often this TUI handled each merge
          spared,   \* history: the merges that may be missed
          risky,    \* history: the work begun while the TUI had yet to handle a merge
          lost      \* history: the unmerged work that was removed

Pulled == Works \cup Others
githubVars == <<mergedAt, touched>>
cleanupVars == <<clock, githubVars, begun, tree, foreign, since, poll, starts, handled,
                 spared, risky, lost>>
historyVars == <<handled, spared, risky, lost>>

AtRest == [pc |-> "idle", merges |-> {}]

\* NewWatcher looks back a day, which is longer than the time looked at.
CleanupInit ==
    /\ clock = 2 /\ since = 0
    /\ mergedAt = [p \in Pulled |-> 0] /\ touched = [p \in Pulled |-> 0]
    /\ begun = {} /\ tree = 0 /\ foreign = TRUE
    /\ poll = AtRest /\ starts = 1
    /\ handled = [p \in Pulled |-> 0] /\ spared = {} /\ risky = {} /\ lost = {}

WholeSecond(t) == t - (t % 2)
Merged == {p \in Pulled : mergedAt[p] # 0}

----------------------------------------------------------------------------
(* checkMergedPRs and the handler of what it finds *)

Recent(p) == WholeSecond(mergedAt[p]) > since
\* The one page that is asked for holds the closed pull requests, merged or not, that
\* changed last.
OnPage(p) == Cardinality({q \in Pulled : touched[q] > touched[p]}) < PRPage

\* Mutant: the time of a merge is not compared with that of the last check.
PollFetchAll ==
    /\ poll.pc = "idle"
    /\ poll' = [pc |-> "fetched", merges |-> {p \in Merged : OnPage(p)}]
    /\ UNCHANGED <<clock, githubVars, begun, tree, foreign, since, starts, historyVars>>

PollFetch ==
    /\ poll.pc = "idle"
    /\ poll' = [pc |-> "fetched", merges |-> {p \in Merged : Recent(p) /\ OnPage(p)}]
    /\ spared' = spared \cup {p \in Merged : Recent(p) /\ ~OnPage(p)}
    /\ UNCHANGED <<clock, githubVars, begun, tree, foreign, since, starts, handled, risky, lost>>

\* Mutant: the time of the last check stays.
PollMarkNot ==
    /\ poll.pc = "fetched"
    /\ poll' = [poll EXCEPT !.pc = "handle"]
    /\ UNCHANGED <<clock, githubVars, begun, tree, foreign, since, starts, historyVars>>

\* Mutant: a request that failed counts as a check.
PollFailsMarking ==
    /\ poll.pc = "fetched"
    /\ poll' = AtRest /\ since' = clock
    /\ UNCHANGED <<clock, githubVars, begun, tree, foreign, starts, historyVars>>

\* The request fails: the time of the last check stays, and nothing is said.
PollFails ==
    /\ poll.pc = "fetched"
    /\ poll' = AtRest
    /\ UNCHANGED <<clock, githubVars, begun, tree, foreign, since, starts, historyVars>>

\* lastCheck is the time after the request.
PollMark ==
    /\ poll.pc = "fetched"
    /\ poll' = [poll EXCEPT !.pc = "handle"] /\ since' = clock
    /\ UNCHANGED <<clock, githubVars, begun, tree, foreign, starts, historyVars>>

\* CleanupForBranch removes what has the branch now, below the directory that all
\* projects share.
PollHandle ==
    /\ poll.pc = "handle"
    /\ poll' = AtRest
    /\ handled' = [p \in Pulled |-> handled[p] + (IF p \in poll.merges THEN 1 ELSE 0)]
    /\ IF poll.merges = {} THEN UNCHANGED <<tree, foreign, lost>>
       ELSE /\ tree' = 0 /\ foreign' = FALSE
            /\ lost' = lost \cup ({tree} \cap (Works \ Merged))
    /\ UNCHANGED <<clock, githubVars, begun, since, starts, spared, risky>>

\* The TUI is quit and started again; what it knew is gone.
Restart ==
    /\ starts < MaxStarts /\ starts' = starts + 1
    /\ since' = 0 /\ poll' = AtRest
    /\ handled' = [p \in Pulled |-> 0] /\ spared' = {}
    /\ risky' = risky \cup {p \in begun \ Merged : Merged # {}}
    /\ UNCHANGED <<clock, githubVars, begun, tree, foreign, lost>>

----------------------------------------------------------------------------
(* GitHub and the members *)

CleanupTick ==
    /\ clock < EndTick /\ clock' = clock + 1
    /\ UNCHANGED <<githubVars, begun, tree, foreign, since, poll, starts, historyVars>>

\* Work on the branch begins when the work before is merged, in a new worktree or the
\* one that is still there.
BeginWork(p) ==
    /\ begun \subseteq Merged /\ p \notin begun /\ \A q \in Works : q < p => q \in begun
    /\ begun' = begun \cup {p} /\ tree' = p
    /\ risky' = IF \E q \in Merged : Recent(q) \/ q \in poll.merges
                  THEN risky \cup {p} ELSE risky
    /\ UNCHANGED <<clock, githubVars, foreign, since, poll, starts, handled, spared, lost>>

\* No two changes have the same time.
Alone == \A q \in Pulled : touched[q] < clock

\* The pull request of the work, or one of a fork, is merged.
Merge(p) ==
    /\ p \in (begun \cup Others) \ Merged /\ Alone
    /\ mergedAt' = [mergedAt EXCEPT ![p] = clock]
    /\ touched' = [touched EXCEPT ![p] = clock]
    /\ spared' = IF poll.pc = "fetched" \/ WholeSecond(clock) <= since
                   THEN spared \cup {p} ELSE spared
    /\ risky' = IF p \in Others THEN risky \cup (begun \ Merged) ELSE risky
    /\ UNCHANGED <<clock, begun, tree, foreign, since, poll, starts, handled, lost>>

\* A pull request is closed, or a closed one is commented on, labelled or edited.
Touch(p) ==
    /\ p \in begun \cup Others /\ Alone
    /\ touched' = [touched EXCEPT ![p] = clock]
    /\ UNCHANGED <<clock, mergedAt, begun, tree, foreign, since, poll, starts, historyVars>>

CleanupNext ==
    \/ PollFetch \/ PollFails \/ PollMark \/ PollHandle \/ Restart \/ CleanupTick
    \/ \E p \in Works : BeginWork(p)
    \/ \E p \in Pulled : Merge(p) \/ Touch(p)

CleanupSpec == CleanupInit /\ [][CleanupNext]_cleanupVars

----------------------------------------------------------------------------
(* Properties *)

\* A merge is handled at most once by one TUI, although the worktree of its branch
\* may by then hold other work.
HandledOnce == \A p \in Pulled : handled[p] <= 1

\* A merge was handled or will still be found, unless it came between a request and
\* its mark or in the second of a mark, or more than a page of closed pull requests
\* changed between it and its request.  A request that fails is no reason.
HandledOrToCome ==
    poll.pc = "idle" => \A p \in Merged \ spared : handled[p] = 1 \/ Recent(p)

\* Work that is not merged is removed only if it was begun while a merge from a branch
\* of that name was still to be handled, a fork's was merged since, or the TUI was
\* started again since.
OnlyRiskyWorkIsLost == lost \subseteq risky

(* Claims the code does not keep *)

\* "removes all worktrees associated with the given branch" of a merged pull request,
\* and nothing else.
NoWorkIsLost == lost = {} /\ foreign
=============================================================================
