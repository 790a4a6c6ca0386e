----------------------------- MODULE EventWatch -----------------------------
(***************************************************************************)
(* `maxam watch`: the watcher of new issues, new pull requests and merges  *)
(* (internal/github/event_watcher.go, cmd/maxam/watch.go).  One goroutine  *)
(* checks; GitHub changes between any two of its requests.  The watcher's  *)
(* clock is finer than GitHub's timestamps, which drop what is below a     *)
(* second: a tick is half a second.  GitHub's clock may be a little ahead, *)
(* so that an event can carry the time of a check made after it.           *)
(***************************************************************************)
EXTENDS Naturals, FiniteSets

CONSTANTS Items,    \* the numbers of the issues and pull requests, a set 1 .. n
          Pulls,    \* those that are pull requests
          PageSize, \* how many a request returns (PerPage)
          LastTick  \* bound: the time that is looked at

Kinds == {"issue", "pr", "merged"}
NoTime == 0

VARIABLES tick,    \* the time
          when,    \* GitHub: when each event happened, NoTime if it has not
          changed, \* GitHub: when each closed pull request last changed, NoTime if open
          marks,   \* GitHub: whether its list of pull requests says which were merged
          cursor,  \* EventWatcher.lastCheck
          seen,    \* EventWatcher.seenIDs
          check,   \* CheckEvents: what it fetches next, the events it has so far
          first,   \* whether the check is the first one, which prints nothing
          printed, \* how often each event was printed
          excused  \* history: the events that the watcher may miss

githubVars == <<when, changed, marks>>
eventVars == <<tick, githubVars, cursor, seen, check, first, printed, excused>>

Events == {e \in Kinds \X Items : e[1] = "issue" <=> e[2] \notin Pulls}
NoCheck == [pc |-> "idle", events |-> {}, late |-> {}]

EventInit ==
    /\ tick = 1 /\ cursor = 1
    /\ when = [e \in Events |-> NoTime] /\ changed = [p \in Pulls |-> NoTime]
    /\ marks \in BOOLEAN
    /\ seen = {} /\ check = NoCheck /\ first = TRUE
    /\ printed = [e \in Events |-> 0] /\ excused = {}

Stamp(t) == t - (t % 2)
Happened == {e \in Events : when[e] # NoTime}

----------------------------------------------------------------------------
(* CheckEvents *)

CheckBegin ==
    /\ check.pc = "idle" /\ (first \/ tick > cursor)
    /\ check' = [check EXCEPT !.pc = "issue"]
    /\ UNCHANGED <<tick, githubVars, cursor, seen, first, printed, excused>>

After(kind) == CASE kind = "issue" -> "pr" [] kind = "pr" -> "merged" [] OTHER -> "done"

\* What a request lists; issues are listed among the pull requests.
Listed(kind) ==
    IF kind = "issue" THEN {e \in Happened : e[1] # "merged"}
    ELSE {e \in Happened : e[1] = kind}

\* What the list has before e: what was created later or, among the closed pull
\* requests, merged or not, what changed later.
Before(kind, e) ==
    IF kind = "merged" THEN {p \in Pulls : changed[p] > changed[e[2]]}
    ELSE {o \in Listed(kind) : when[o] > when[e]}

\* One page is asked for.
Page(kind) == {e \in Listed(kind) : Cardinality(Before(kind, e)) < PageSize}

\* GetMerged: a pull request that does not say that it was merged is passed over.
Shown(kind) == {e \in Page(kind) : kind = "merged" => marks}
Hidden(kind) == {e \in Listed(kind) : e \notin Page(kind) \/ (kind = "merged" /\ ~marks)}

Fresh(kind, events) ==
    {e \in events : e[1] = kind /\ e \notin seen /\ Stamp(when[e]) >= cursor}

\* Mutant: what was found is not remembered.
FetchForgets(kind) ==
    /\ check.pc = kind
    /\ check' = [check EXCEPT !.pc = After(kind), !.events = @ \cup Fresh(kind, Shown(kind))]
    /\ excused' = excused \cup Fresh(kind, Hidden(kind))
    /\ UNCHANGED <<tick, githubVars, cursor, seen, first, printed>>

Fetch(kind) ==
    /\ check.pc = kind
    /\ LET new == Fresh(kind, Shown(kind)) IN
         /\ seen' = seen \cup new
         /\ check' = [check EXCEPT !.pc = After(kind), !.events = @ \cup new]
    /\ excused' = excused \cup Fresh(kind, Hidden(kind))
    /\ UNCHANGED <<tick, githubVars, cursor, first, printed>>

\* Mutant: the check counts as made although it failed.
FetchFailsMoving ==
    /\ check.pc \in Kinds
    /\ check' = NoCheck /\ first' = FALSE /\ cursor' = tick
    /\ excused' = excused \cup check.events
    /\ UNCHANGED <<tick, githubVars, seen, printed>>

\* A request fails: the events so far are dropped, and stay in seen.
FetchFails ==
    /\ check.pc \in Kinds
    /\ check' = NoCheck /\ first' = FALSE
    /\ excused' = excused \cup check.events
    /\ UNCHANGED <<tick, githubVars, cursor, seen, printed>>

CheckDone ==
    /\ check.pc = "done"
    /\ cursor' = tick
    /\ check' = NoCheck /\ first' = FALSE
    /\ printed' = [e \in Events |-> printed[e] + (IF e \in check.events /\ ~first THEN 1 ELSE 0)]
    /\ excused' = excused \cup check.late \cup (IF first THEN check.events ELSE {})
    /\ UNCHANGED <<tick, githubVars, seen>>

----------------------------------------------------------------------------
(* GitHub *)

Tick ==
    /\ tick < LastTick /\ tick' = tick + 1
    /\ UNCHANGED <<githubVars, cursor, seen, check, first, printed, excused>>

\* No two changes have the same time.
Quiet == /\ \A o \in Happened : when[o] < tick
         /\ \A p \in Pulls : changed[p] < tick

\* Numbers are given in order; a merge needs its pull request.  An event is late
\* when its request was already made, and too early when its timestamp, cut to the
\* second, is before the last check.
Happen(e) ==
    /\ when[e] = NoTime
    /\ Quiet
    /\ IF e[1] = "merged" THEN when[<<"pr", e[2]>>] # NoTime
       ELSE \A o \in Events : o[1] # "merged" /\ o[2] < e[2] => when[o] # NoTime
    /\ when' = [when EXCEPT ![e] = tick]
    /\ changed' = IF e[1] = "merged" THEN [changed EXCEPT ![e[2]] = tick] ELSE changed
    /\ check' = [check EXCEPT !.late =
                    IF check.pc \in {"idle", "issue", e[1]}
                       \/ (check.pc = "pr" /\ e[1] = "merged") THEN @ ELSE @ \cup {e}]
    /\ excused' = IF Stamp(tick) < cursor THEN excused \cup {e} ELSE excused
    /\ UNCHANGED <<tick, marks, cursor, seen, first, printed>>

\* A pull request is closed, or a closed one is commented on, labelled or edited.
Change(p) ==
    /\ when[<<"pr", p>>] # NoTime /\ Quiet
    /\ changed' = [changed EXCEPT ![p] = tick]
    /\ UNCHANGED <<tick, when, marks, cursor, seen, check, first, printed, excused>>

EventNext ==
    \/ CheckBegin \/ FetchFails \/ CheckDone \/ Tick
    \/ \E kind \in Kinds : Fetch(kind)
    \/ \E e \in Events : Happen(e)
    \/ \E p \in Pulls : Change(p)

EventSpec == EventInit /\ [][EventNext]_eventVars

----------------------------------------------------------------------------
(* Properties *)

\* An event is printed at most once, although the same second may be asked for
\* twice.
PrintedOnce == \A e \in Events : printed[e] <= 1

\* An event that is before the last check was printed, unless its check failed or
\* was the first, it happened after its request or within the second of the
\* check, more than a page was created, or of closed pull requests changed, between
\* it and its request, or it is a merge and GitHub's list does not say so: there is
\* no other way to miss one, and none of these is ever made good.
MissedForAReason ==
    check.pc = "idle" =>
        \A e \in Happened \ excused : printed[e] = 1 \/ Stamp(when[e]) >= cursor

(* A claim the code does not keep *)

\* Every new issue, pull request and merge is printed in the end.
NothingMissed == check.pc = "idle" => excused = {}
=============================================================================
