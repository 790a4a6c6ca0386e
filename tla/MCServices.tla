----------------------------- MODULE MCServices ------------------------------
(***************************************************************************)
(* The services beside the workers, which share no state: a behaviour is   *)
(* one of the service that part names.                                     *)
(***************************************************************************)
EXTENDS Naturals, Sequences

CONSTANTS MaxLoops, Cancels, Callers, MaxProcs, Stubborn, NoCaller, Threshold,
          MaxRecoveries, Operator,
          MaxStarts, MaxOpen, MaxChanges,
          MaxWriters, MaxMonitors, DegradedAge, UnresponsiveAge, MaxMisses,
          Clients, Strays, Workers, QueueSize,
          PRs, MaxWatches, MaxServices, NotifyCap,
          Handlers, Cooldown, ResetTimeout, MaxFailures, FailLimit,
          MaxRestarts

\* Loops of the monitor and the operator are callers of the process manager; a task of
\* the pool is not the mark of an idle worker; the cooldown outlasts a reset and a
\* notification, as its defaults do (30 s against 10 s and 10 s, auto_reset.go).
ASSUME ServicesAssumption ==
    /\ MaxLoops \in Nat /\ MaxProcs \in Nat /\ Stubborn \subseteq 1 .. MaxProcs
    /\ MaxWatches \in Nat
    /\ 1 .. MaxLoops \subseteq Callers /\ Operator \in Callers \ (1 .. MaxLoops)
    /\ NoCaller \notin Callers
    /\ Clients \cap {"ready", "done"} = {} /\ Strays \subseteq Clients /\ Workers # {}
    /\ Cooldown \in Nat /\ ResetTimeout \in Nat /\ 2 * ResetTimeout < Cooldown

VARIABLES up, proc, holder, os, waiting, call, late, spared,
          fails, recoverer, running, channel, shut, ended, loop,
          active, cut, over, worker, starter, open, changes, status, shown, crossed,
          age, beating, dropped, beat, stopper, seen, alerts, told, quiet, misses, raced,
          closed, queue, chan, dispatch, job, result, runs, stats, closer, broken,
          entry, reset, cleared, crashed,
          watching, follower, notifyCh, service, passer, announced, excuse,
          restarts, run, fn, spent, halted,
          part

H == INSTANCE Health
S == INSTANCE Supervisor
B == INSTANCE FileBeat
P == INSTANCE Pool
R == INSTANCE AutoReset
C == INSTANCE CIWatch
N == INSTANCE Session

monitorVars == <<fails, recoverer, running, channel, shut, ended, loop>>
healthVars == <<up, proc, holder, os, waiting, call, late, spared, monitorVars>>
supVars == <<active, cut, over, worker, starter, open, changes, status, shown, crossed>>
beatVars == <<age, beating, dropped, beat, stopper, seen, alerts, told, quiet, misses, raced>>
poolVars == <<closed, queue, chan, dispatch, job, result, runs, stats, closer, broken>>
resetVars == <<entry, reset, cleared, crashed>>
ciVars == <<watching, follower, notifyCh, service, passer, announced, excuse>>
sessionVars == <<restarts, run, fn, spent, halted>>
vars == <<healthVars, supVars, beatVars, poolVars, resetVars, ciVars, sessionVars, part>>

Init ==
    /\ part \in {"health", "supervisor", "beat", "pool", "reset", "ci", "session"}
    /\ H!HealthInit /\ S!SupInit /\ B!BeatInit /\ P!PoolInit
    /\ R!ResetInit /\ C!CIInit /\ N!SessionInit

Next ==
    /\ UNCHANGED part
    /\ \/ /\ part = "health" /\ H!HealthNext
          /\ UNCHANGED <<supVars, beatVars, poolVars, resetVars, ciVars, sessionVars>>
       \/ /\ part = "supervisor" /\ S!SupNext
          /\ UNCHANGED <<healthVars, beatVars, poolVars, resetVars, ciVars, sessionVars>>
       \/ /\ part = "beat" /\ B!BeatNext
          /\ UNCHANGED <<healthVars, supVars, poolVars, resetVars, ciVars, sessionVars>>
       \/ /\ part = "pool" /\ P!PoolNext
          /\ UNCHANGED <<healthVars, supVars, beatVars, resetVars, ciVars, sessionVars>>
       \/ /\ part = "reset" /\ R!ResetNext
          /\ UNCHANGED <<healthVars, supVars, beatVars, poolVars, ciVars, sessionVars>>
       \/ /\ part = "ci" /\ C!CINext
          /\ UNCHANGED <<healthVars, supVars, beatVars, poolVars, resetVars, sessionVars>>
       \/ /\ part = "session" /\ N!SessionNext
          /\ UNCHANGED <<healthVars, supVars, beatVars, poolVars, resetVars, ciVars>>

\* Goroutines that can run do, and a sync.Mutex starves nobody.
Fairness ==
    /\ \A l \in H!Loops : /\ WF_healthVars(part = "health" /\ H!LoopStep(l))
                           /\ SF_healthVars(part = "health" /\ H!LockRecovery(l))
    /\ WF_healthVars(part = "health" /\ H!CallStep(Operator) /\ UNCHANGED monitorVars)
    /\ WF_supVars(part = "supervisor" /\ (S!StartWatcher \/ S!StartRun))
    /\ \A p \in S!Parts : \A n \in S!Starts :
        WF_supVars(part = "supervisor" /\ S!LoopGoes(p, n))
    /\ WF_beatVars(part = "beat" /\ \E s \in {"degraded", "unresponsive"} : B!Alert(s))
    /\ \A s \in B!Sides :
        /\ WF_beatVars(part = "beat" /\ B!BeatStopped(s))
        /\ \A n \in B!Runs(s) : WF_beatVars(part = "beat" /\ B!BeatGoes(s, n))
    /\ WF_poolVars(part = "pool" /\ ~broken /\ P!PoolStep)
    /\ \A w \in C!Watches : WF_ciVars(part = "ci" /\ C!Follow(w))
    /\ \A s \in C!Services : WF_ciVars(part = "ci" /\ C!Pass(s))
    /\ WF_sessionVars(part = "session" /\ N!SessionStep)

Spec == Init /\ [][Next]_vars /\ Fairness

\* A process that lives is the one its manager knows; a task of the pool is run once,
\* and all of them before Close returns; an agent is reset by one goroutine at a time.
KeptInTurn ==
    /\ H!ProcessesOwned
    /\ P!PoolDrains
    /\ R!ResetsInTurn

\* A registered pull request is followed by a goroutine of its own.
WatchIsFollowed == C!WatchIsFollowed

Owed ==
    CASE part = "health" -> H!Ending # {}
      [] part = "supervisor" -> S!Leftover
      [] part = "beat" -> B!InStop
      [] part = "pool" -> P!Calling
      [] OTHER -> N!Overdue

\* What is stopped comes to an end: the loops of the monitors, the loops and the Stop
\* of the heartbeat files, the calls of the pool, the Run of a session.
StopsEnd == Owed ~> ~Owed

Unseen ==
    CASE part = "health" -> H!Gone /\ \A l \in H!Loops : ~H!At(l, "launch")
      [] part = "supervisor" -> S!NotShown
      [] part = "beat" -> B!Unnoticed
      [] part = "ci" -> C!Untold
      [] OTHER -> FALSE

\* A process that is gone is started again, open issues are shown, silence is told,
\* and so is the result of a watched pull request.
FailuresAreSeen == Unseen ~> ~Unseen
=============================================================================
