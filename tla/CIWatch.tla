------------------------------- MODULE CIWatch -------------------------------
(***************************************************************************)
(* The CI watcher (internal/github/ci_watcher.go) and the service that     *)
(* passes its results on (internal/cinotify/service.go): a goroutine per   *)
(* watched pull request, a channel of results, a loop per Start of the     *)
(* service.                                                                *)
(***************************************************************************)
EXTENDS Naturals, Sequences

CONSTANTS PRs,          \* pull requests
          MaxWatches,   \* bound: watches that are ever begun
          MaxServices,  \* bound: starts of the service
          NotifyCap     \* the capacity of CIWatcher.notifyCh

Watches == 1 .. MaxWatches
Services == 1 .. MaxServices
NoWatch == 0
Left == MaxWatches + 1  \* a loop of the service that is gone

\* What GitHub says of a commit status and of a check run.
StatusStates == {"none", "success", "failure", "pending"}
RunStates == {"none", "queued", "in_progress", "success", "neutral", "failure", "cancelled",
              "skipped"}

VARIABLES watching, \* CIWatcher.watching: the watch registered for each PR
          follower, \* watchLoop of each watch
          notifyCh, \* CIWatcher.notifyCh: the watches whose results it holds
          service,  \* Service.running, how many loops were started, those cancelled
          passer,   \* the result each loop of the service has taken
          announced,     \* history: the watches whose result was passed on
          excuse    \* history: the watches whose result may be missing

ciVars == <<watching, follower, notifyCh, service, passer, announced, excuse>>

NewFollower == [pc |-> "none", pr |-> NoWatch, cancelled |-> FALSE, cut |-> FALSE]

CIInit ==
    /\ watching = [p \in PRs |-> NoWatch]
    /\ follower = [w \in Watches |-> NewFollower]
    /\ notifyCh = <<>>
    /\ service = [running |-> FALSE, starts |-> 0, cancelled |-> {}]
    /\ passer = [s \in Services |-> NoWatch]
    /\ announced = {} /\ excuse = {}

----------------------------------------------------------------------------
(* checkCIStatus: two requests, counted together.  GitHub may go from any   *)
(* state of the checks to any other, so that each poll finds any of them    *)

\* mapStatusState and mapCheckRunStatus; what is in neither set counts as pending.
Passed(c) == {k \in {"status", "run"} : c[k] \in {"success", "neutral"}}
Failed(c) == {k \in {"status", "run"} : c[k] \in {"failure", "cancelled", "skipped"}}
Present(c) == {k \in {"status", "run"} : c[k] # "none"}

Overall(c) ==
    CASE Present(c) = {} -> "pending"
      [] Present(c) # Passed(c) \cup Failed(c) -> "running"
      [] Failed(c) # {} -> "failure"
      [] OTHER -> "success"

Answers == [status : StatusStates, run : RunStates]
Complete(c) == Overall(c) \in {"success", "failure"}

----------------------------------------------------------------------------
(* WatchPR, StopWatching, watchLoop *)

Rest == UNCHANGED <<service, passer, announced>>

\* A PR that is registered is left alone.
WatchPR(p) ==
    /\ watching[p] = NoWatch
    /\ \E w \in Watches :
          /\ follower[w].pc = "none" /\ \A v \in 1 .. w - 1 : follower[v].pc # "none"
          /\ watching' = [watching EXCEPT ![p] = w]
          /\ follower' = [follower EXCEPT ![w] = [NewFollower EXCEPT !.pc = "wait", !.pr = p]]
    /\ Rest /\ UNCHANGED <<notifyCh, excuse>>

\* What is registered under p is cancelled and forgotten, whosever it is.
Forget(p) ==
    /\ watching' = [watching EXCEPT ![p] = NoWatch]
    /\ follower' = IF watching[p] = NoWatch THEN follower
                   ELSE [follower EXCEPT ![watching[p]].cancelled = TRUE]

StopWatching(p) ==
    /\ watching[p] # NoWatch
    /\ Forget(p)
    /\ excuse' = excuse \cup {watching[p]}
    /\ Rest /\ UNCHANGED <<notifyCh>>

FollowTo(w, pc) == follower' = [follower EXCEPT ![w].pc = pc]

\* The context that WatchPR was given ends.
EndCaller(w) ==
    /\ follower[w].pc \notin {"none", "gone"} /\ ~follower[w].cut
    /\ follower' = [follower EXCEPT ![w].cancelled = TRUE, ![w].cut = TRUE]
    /\ excuse' = excuse \cup {w}
    /\ Rest /\ UNCHANGED <<watching, notifyCh>>

\* The context is looked at between two polls only.
FollowCancelled(w) ==
    /\ follower[w].pc = "wait" /\ follower[w].cancelled
    /\ FollowTo(w, "gone")
    /\ Rest /\ UNCHANGED <<watching, notifyCh, excuse>>

\* Mutant: an error ends the loop.
FollowPollOnce(w) ==
    /\ follower[w].pc = "wait"
    /\ \E c \in Answers : FollowTo(w, IF Complete(c) THEN "send" ELSE "gone")
    /\ Rest /\ UNCHANGED <<watching, notifyCh, excuse>>

\* A poll; an error, or checks that are not complete, are tried again.
FollowPoll(w) ==
    /\ follower[w].pc = "wait"
    /\ \E c \in Answers : Complete(c)
    /\ FollowTo(w, "send")
    /\ Rest /\ UNCHANGED <<watching, notifyCh, excuse>>

FollowTimeout(w) ==
    /\ follower[w].pc = "wait"
    /\ FollowTo(w, "send")
    /\ Rest /\ UNCHANGED <<watching, notifyCh, excuse>>

\* A full channel blocks.
FollowSend(w) ==
    /\ follower[w].pc = "send" /\ Len(notifyCh) < NotifyCap
    /\ notifyCh' = Append(notifyCh, w)
    /\ FollowTo(w, "stop")
    /\ Rest /\ UNCHANGED <<watching, excuse>>

\* StopWatching by the number of the PR: it may be another watch's by now.
FollowStop(w) ==
    /\ follower[w].pc = "stop"
    /\ LET p == follower[w].pr IN
         /\ watching' = [watching EXCEPT ![p] = NoWatch]
         /\ follower' = [v \in Watches |->
                IF v = w THEN [follower[w] EXCEPT !.pc = "gone"]
                ELSE IF v = watching[p] THEN [follower[v] EXCEPT !.cancelled = TRUE]
                ELSE follower[v]]
         /\ excuse' = excuse \cup ({watching[p]} \ {NoWatch, w})
    /\ Rest /\ UNCHANGED <<notifyCh>>

Follow(w) ==
    \/ FollowCancelled(w) \/ FollowPoll(w) \/ FollowTimeout(w) \/ FollowSend(w) \/ FollowStop(w)

----------------------------------------------------------------------------
(* The service *)

StartService ==
    /\ ~service.running /\ service.starts < MaxServices
    /\ service' = [service EXCEPT !.running = TRUE, !.starts = @ + 1]
    /\ UNCHANGED <<watching, follower, notifyCh, passer, announced, excuse>>

\* The cancel function is the one of the latest loop.
StopService ==
    /\ service.running
    /\ service' = [service EXCEPT !.running = FALSE, !.cancelled = @ \cup {service.starts}]
    /\ UNCHANGED <<watching, follower, notifyCh, passer, announced, excuse>>

\* Of a cancelled context and a result, select takes either.
PassTake(s) ==
    /\ s <= service.starts /\ passer[s] = NoWatch /\ notifyCh # <<>>
    /\ passer' = [passer EXCEPT ![s] = Head(notifyCh)]
    /\ notifyCh' = Tail(notifyCh)
    /\ UNCHANGED <<watching, follower, service, announced, excuse>>

\* Mutant: a notification is not sent for a PR that is no longer watched.
PassTellWatched(s) ==
    /\ passer[s] \in Watches
    /\ announced' = announced \cup {w \in {passer[s]} : watching[follower[w].pr] = w}
    /\ passer' = [passer EXCEPT ![s] = NoWatch]
    /\ UNCHANGED <<watching, follower, notifyCh, service, excuse>>

\* Best effort: the notifier may fail once its context is cancelled.
PassTell(s) ==
    /\ passer[s] \in Watches
    /\ passer' = [passer EXCEPT ![s] = NoWatch]
    /\ \/ announced' = announced \cup {passer[s]} /\ UNCHANGED excuse
       \/ /\ s \in service.cancelled
          /\ excuse' = excuse \cup {passer[s]} /\ UNCHANGED announced
    /\ UNCHANGED <<watching, follower, notifyCh, service>>

PassExit(s) ==
    /\ s \in service.cancelled /\ passer[s] = NoWatch
    /\ passer' = [passer EXCEPT ![s] = Left]
    /\ UNCHANGED <<watching, follower, notifyCh, service, announced, excuse>>

Pass(s) == PassTake(s) \/ PassTell(s)

CINext ==
    \/ \E p \in PRs : WatchPR(p) \/ StopWatching(p)
    \/ \E w \in Watches : Follow(w) \/ EndCaller(w)
    \/ StartService \/ StopService
    \/ \E s \in Services : Pass(s) \/ PassExit(s)

CISpec == CIInit /\ [][CINext]_ciVars

----------------------------------------------------------------------------
(* Properties *)

\* A pull request that is registered is followed by a goroutine of its own, which
\* goes on; otherwise nobody would ever register it again.  The code does not keep
\* this when the context given to WatchPR ends: the goroutine goes and the pull
\* request stays registered.
WatchIsFollowed ==
    \A p \in PRs : watching[p] # NoWatch =>
        LET f == follower[watching[p]] IN
            f.cut \/ (f.pr = p /\ f.pc # "gone" /\ ~f.cancelled)

\* The result of a watch is passed on, unless it was stopped, by its owner or by the
\* end of an earlier watch of the same pull request, or the service was.
Untold ==
    /\ service.running
    /\ \E w \in Watches : follower[w].pc # "none" /\ w \notin announced \cup excuse
ResultIsTold == Untold ~> ~Untold
=============================================================================
