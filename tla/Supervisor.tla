---------------------------- MODULE Supervisor ------------------------------
(***************************************************************************)
(* The supervisor of internal/monitor with the issue watcher of            *)
(* internal/issuemgr, whose callback is UpdateOpenIssues.  Each has a loop *)
(* per Start, which reads the current stop channel again each time.  Start *)
(* lets go of the lock before it starts the watcher and its own loop; Stop *)
(* and the callbacks may come in between.                                  *)
(***************************************************************************)
EXTENDS Naturals

CONSTANTS MaxStarts, \* bound: the calls of Start of the supervisor
          MaxOpen,   \* bound: the open issues
          MaxChanges \* bound: the changes of their number and the requests that fail

Starts == 1 .. MaxStarts
Parts == {"supervisor", "watcher"}

VARIABLES active,  \* per part: running, the number of its stop channel
          cut,     \* per part: the channels that are closed
          over,    \* the Start calls whose context has ended
          worker,  \* per part and Start call: where its loop is, what it has read
          starter, \* the Start call: what it starts next
          open,    \* GitHub: the number of open issues
          changes, \* how often it has changed or not been told
          status,  \* Supervisor.status.OpenIssues
          shown,   \* what onChange was last called with
          crossed  \* history: running no longer says whether there are loops

supVars == <<active, cut, over, worker, starter, open, changes, status, shown, crossed>>

NoWorker == [at |-> "none", read |-> 0]

SupInit ==
    /\ active = [p \in Parts |-> [running |-> FALSE, channel |-> 0]]
    /\ cut = [p \in Parts |-> {}] /\ over = {}
    /\ worker = [p \in Parts |-> [n \in Starts |-> NoWorker]]
    /\ starter = [at |-> "idle", n |-> 0]
    /\ open = 0 /\ changes = 0 /\ status = 0 /\ shown = 0 /\ crossed = FALSE

Lives(p, n) == worker[p][n].at \notin {"none", "end"}
Goes(p, n, where) == worker' = [worker EXCEPT ![p][n].at = where]
IsCut(p) == active[p].channel \in cut[p]

----------------------------------------------------------------------------
(* Start and Stop *)

Start ==
    /\ starter.at = "idle" /\ starter.n < MaxStarts
    /\ ~active["supervisor"].running
    /\ starter' = [at |-> "watcher", n |-> starter.n + 1]
    /\ active' = [active EXCEPT !["supervisor"] = [running |-> TRUE, channel |-> starter.n + 1]]
    /\ UNCHANGED <<cut, over, worker, open, changes, status, shown, crossed>>

\* Watcher.Start does nothing when the watcher runs.
StartWatcher ==
    /\ starter.at = "watcher"
    /\ starter' = [starter EXCEPT !.at = "run"]
    /\ IF active["watcher"].running
       THEN UNCHANGED <<active, worker>>
       ELSE /\ active' = [active EXCEPT !["watcher"] = [running |-> TRUE, channel |-> starter.n]]
            /\ Goes("watcher", starter.n, "count")
    /\ UNCHANGED <<cut, over, open, changes, status, shown, crossed>>

StartRun ==
    /\ starter.at = "run"
    /\ starter' = [starter EXCEPT !.at = "idle"]
    /\ Goes("supervisor", starter.n, "copy")
    /\ UNCHANGED <<active, cut, over, open, changes, status, shown, crossed>>

StopParts(parts) ==
    /\ active' = [p \in Parts |-> IF p \in parts THEN [active[p] EXCEPT !.running = FALSE]
                                  ELSE active[p]]
    /\ cut' = [p \in Parts |-> IF p \in parts /\ active[p].running
                               THEN cut[p] \cup {active[p].channel} ELSE cut[p]]

\* Mutant: the watcher is left running.
StopAlone ==
    /\ active["supervisor"].running
    /\ StopParts({"supervisor"})
    /\ crossed' = (crossed \/ starter.at # "idle")
    /\ UNCHANGED <<over, worker, starter, open, changes, status, shown>>

\* A Stop in the middle of a Start comes too early for what is not yet started.
Stop ==
    /\ active["supervisor"].running
    /\ StopParts(Parts)
    /\ crossed' = (crossed \/ starter.at # "idle")
    /\ UNCHANGED <<over, worker, starter, open, changes, status, shown>>

\* One context at most ends: a bound.
ContextEnds(n) ==
    /\ n <= starter.n /\ over = {}
    /\ over' = over \cup {n}
    /\ UNCHANGED <<active, cut, worker, starter, open, changes, status, shown, crossed>>

----------------------------------------------------------------------------
(* The loops *)

\* Of the cases that are ready the one that ends the loop is taken: the other one only
\* puts it off.
Tick(p, n) ==
    /\ worker[p][n].at = "select" /\ n \notin over /\ ~IsCut(p)
    /\ Goes(p, n, IF p = "watcher" THEN "count" ELSE "copy")
    /\ UNCHANGED <<active, cut, over, starter, open, changes, status, shown, crossed>>

\* A loop that its context ends says that the part does not run, even when it is
\* the loop of an earlier Start.
EndsByContext(p, n) ==
    /\ worker[p][n].at = "select" /\ n \in over
    /\ Goes(p, n, "end")
    /\ active' = [active EXCEPT ![p].running = FALSE]
    /\ crossed' = TRUE
    /\ UNCHANGED <<cut, over, starter, open, changes, status, shown>>

EndsByStop(p, n) ==
    /\ worker[p][n].at = "select" /\ IsCut(p)
    /\ Goes(p, n, "end")
    /\ UNCHANGED <<active, cut, over, starter, open, changes, status, shown, crossed>>

\* aggregate copies the status under the lock and shows the copy without it.
Aggregate(n) ==
    /\ worker["supervisor"][n].at = "copy"
    /\ worker' = [worker EXCEPT !["supervisor"][n] = [at |-> "show", read |-> status]]
    /\ UNCHANGED <<active, cut, over, starter, open, changes, status, shown, crossed>>

Show(p, n) ==
    /\ worker[p][n].at = "show"
    /\ shown' = worker[p][n].read
    /\ worker' = [worker EXCEPT ![p][n] = [at |-> "select", read |-> 0]]
    /\ UNCHANGED <<active, cut, over, starter, open, changes, status, crossed>>

CountFails(n) ==
    /\ worker["watcher"][n].at = "count" /\ Goes("watcher", n, "select")
    /\ changes < MaxChanges /\ changes' = changes + 1
    /\ UNCHANGED <<active, cut, over, starter, open, status, shown, crossed>>

\* Zero is not told: the status keeps the last number.
Count(n) ==
    /\ worker["watcher"][n].at = "count"
    /\ worker' = [worker EXCEPT !["watcher"][n] =
                     [at |-> IF open > 0 THEN "update" ELSE "select", read |-> open]]
    /\ UNCHANGED <<active, cut, over, starter, open, changes, status, shown, crossed>>

UpdateOpenIssues(n) ==
    /\ worker["watcher"][n].at = "update"
    /\ status' = worker["watcher"][n].read
    /\ Goes("watcher", n, "get")
    /\ UNCHANGED <<active, cut, over, starter, open, changes, shown, crossed>>

GetStatus(n) ==
    /\ worker["watcher"][n].at = "get"
    /\ worker' = [worker EXCEPT !["watcher"][n] = [at |-> "show", read |-> status]]
    /\ UNCHANGED <<active, cut, over, starter, open, changes, status, shown, crossed>>

IssuesChange ==
    /\ changes < MaxChanges /\ changes' = changes + 1
    /\ open' \in (0 .. MaxOpen) \ {open}
    /\ UNCHANGED <<active, cut, over, worker, starter, status, shown, crossed>>

LoopGoes(p, n) ==
    \/ Tick(p, n) \/ EndsByContext(p, n) \/ EndsByStop(p, n) \/ Show(p, n)
    \/ p = "supervisor" /\ Aggregate(n)
    \/ p = "watcher" /\ (Count(n) \/ CountFails(n) \/ UpdateOpenIssues(n) \/ GetStatus(n))

SupNext ==
    \/ Start \/ StartWatcher \/ StartRun \/ Stop \/ IssuesChange
    \/ \E n \in Starts : ContextEnds(n) \/ \E p \in Parts : LoopGoes(p, n)

----------------------------------------------------------------------------
(* Properties *)

\* After Stop, unless it crossed a Start or a context ended, all loops end: those of
\* earlier Starts too, and those of the watcher.
Leftover ==
    /\ ~active["supervisor"].running /\ starter.at = "idle" /\ ~crossed
    /\ \E p \in Parts : \E n \in Starts : Lives(p, n)
SupervisionEnds == Leftover ~> ~Leftover

\* The number of open issues, when there are any, is shown in the end, although the
\* two loops may show an older number after a newer one.
NotShown ==
    /\ ~crossed /\ over = {} /\ active["supervisor"].running
    /\ open > 0 /\ shown # open
IssuesAreShown == NotShown ~> ~NotShown
=============================================================================
