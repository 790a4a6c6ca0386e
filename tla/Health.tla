------------------------------ MODULE Health --------------------------------
(***************************************************************************)
(* The health manager and its monitor (internal/healthmgr) over the        *)
(* process manager, for one agent.  Every Start of the monitor makes a     *)
(* stop channel and a loop; the loop reads the current channel again each  *)
(* time, so that after Stop and Start the old loop may follow the new one. *)
(***************************************************************************)
EXTENDS Processes

CONSTANTS MaxLoops,      \* bound: the calls of Monitor.Start
          Cancels,       \* the loops whose context may end
          Threshold,     \* Monitor.failThreshold
          MaxRecoveries, \* Manager.maxRetries
          Operator       \* the caller that stops the process manager

Loops == 1 .. MaxLoops

VARIABLES fails,     \* Health.FailCount, up to the threshold (nothing looks at the status)
          recoverer, \* who holds the recovery lock
          running,   \* Monitor.running
          channel,   \* Monitor.stopCh: the number of the channel
          shut,      \* the channels that are closed
          ended,     \* the loops whose context has ended
          loop       \* per loop: where it is, the outcome of its check, its attempt

monitorVars == <<fails, recoverer, running, channel, shut, ended, loop>>
healthVars == <<procVars, monitorVars>>

NoLoop == [at |-> "none", err |-> FALSE, attempt |-> 0]

HealthInit ==
    /\ ProcInit
    /\ fails = 0 /\ recoverer = NoCaller
    /\ running = FALSE /\ channel = 0 /\ shut = {} /\ ended = {}
    /\ loop = [l \in Loops |-> NoLoop]

LoopTo(l, where) == loop' = [loop EXCEPT ![l].at = where]
Running(l) == loop[l].at \notin {"none", "end"}

\* UpdateHealth with an error; the failures beyond the threshold are not counted.
OneMore(n) == IF n < Threshold THEN n + 1 ELSE n

----------------------------------------------------------------------------
(* The monitor *)

StartMonitor ==
    /\ channel < MaxLoops /\ ~running
    /\ running' = TRUE /\ channel' = channel + 1
    /\ loop' = [loop EXCEPT ![channel + 1].at = "check"]
    /\ UNCHANGED <<fails, recoverer, shut, ended, procVars>>

StopMonitor ==
    /\ running /\ running' = FALSE
    /\ shut' = shut \cup {channel}
    /\ UNCHANGED <<fails, recoverer, channel, ended, loop, procVars>>

EndContext(l) ==
    /\ Running(l) /\ l \in Cancels \ ended
    /\ ended' = ended \cup {l}
    /\ UNCHANGED <<fails, recoverer, running, channel, shut, loop, procVars>>

Responds == \E p \in Live : p = proc.cmd /\ os[p] = "alive"

CheckAll(l) ==
    /\ loop[l].at = "check"
    /\ IF l \in ended \/ channel \in shut
       THEN LoopTo(l, "select")
       ELSE loop' = [loop EXCEPT ![l] = [@ EXCEPT !.at = "report", !.err = ~Responds]]
    /\ UNCHANGED <<fails, recoverer, running, channel, shut, ended, procVars>>

UpdateHealth(l) ==
    /\ loop[l].at = "report"
    /\ fails' = IF loop[l].err THEN OneMore(fails) ELSE 0
    /\ loop' = [loop EXCEPT ![l] = [@ EXCEPT !.err = FALSE,
                                        !.at = IF loop[l].err THEN "look" ELSE "select"]]
    /\ UNCHANGED <<recoverer, running, channel, shut, ended, procVars>>

\* GetHealth: the count may be another loop's by now.
LookAtHealth(l) ==
    /\ loop[l].at = "look"
    /\ LoopTo(l, IF fails >= Threshold THEN "recover" ELSE "select")
    /\ UNCHANGED <<fails, recoverer, running, channel, shut, ended, procVars>>

\* Mutant: the loop does not look at its context.
SelectEndsByChannel(l) ==
    /\ loop[l].at = "select" /\ channel \in shut
    /\ LoopTo(l, "end")
    /\ UNCHANGED <<fails, recoverer, running, channel, shut, ended, procVars>>

\* Of the cases that are ready the one that ends the loop is taken: the other one only
\* puts it off.
SelectEnds(l) ==
    /\ loop[l].at = "select"
    /\ \/ l \in ended /\ running' = FALSE
       \/ channel \in shut /\ UNCHANGED running
    /\ LoopTo(l, "end")
    /\ UNCHANGED <<fails, recoverer, channel, shut, ended, procVars>>

SelectTick(l) ==
    /\ loop[l].at = "select" /\ l \notin ended /\ channel \notin shut
    /\ LoopTo(l, "check")
    /\ UNCHANGED <<fails, recoverer, running, channel, shut, ended, procVars>>

----------------------------------------------------------------------------
(* RecoverAgent *)

\* Mutant: recoveries are not kept apart.
LockRecoveryShared(l) ==
    /\ loop[l].at = "recover"
    /\ recoverer' = l /\ BeginStart(l)
    /\ loop' = [loop EXCEPT ![l] = [@ EXCEPT !.at = "start", !.attempt = 1]]
    /\ UNCHANGED <<fails, running, channel, shut, ended>>

LockRecovery(l) ==
    /\ loop[l].at = "recover" /\ recoverer = NoCaller
    /\ recoverer' = l /\ BeginStart(l)
    /\ loop' = [loop EXCEPT ![l] = [@ EXCEPT !.at = "start", !.attempt = 1]]
    /\ UNCHANGED <<fails, running, channel, shut, ended>>

Consume(l) == call' = [call EXCEPT ![l] = Idle]

Recovered(l) ==
    /\ loop[l].at = "start" /\ At(l, "ok") /\ Consume(l)
    /\ fails' = 0 /\ recoverer' = NoCaller
    /\ loop' = [loop EXCEPT ![l] = [@ EXCEPT !.at = "select", !.attempt = 0]]
    /\ UNCHANGED <<running, channel, shut, ended, up, proc, holder, os, waiting, late,
                   spared>>

\* Mutant: the lock is kept when the attempts are used up.
AttemptFailsHeld(l) ==
    /\ loop[l].at = "start" /\ At(l, "error") /\ Consume(l)
    /\ IF loop[l].attempt < MaxRecoveries
       THEN LoopTo(l, "delay") /\ UNCHANGED fails
       ELSE /\ fails' = OneMore(fails)
            /\ loop' = [loop EXCEPT ![l] = [@ EXCEPT !.at = "select", !.attempt = 0]]
    /\ UNCHANGED <<running, channel, shut, ended, up, proc, holder, os, waiting, late, spared,
                   recoverer>>

\* After the last attempt the agent counts as dead; it is checked all the same.
AttemptFails(l) ==
    /\ loop[l].at = "start" /\ At(l, "error") /\ Consume(l)
    /\ IF loop[l].attempt < MaxRecoveries
       THEN LoopTo(l, "delay") /\ UNCHANGED <<fails, recoverer>>
       ELSE /\ fails' = OneMore(fails) /\ recoverer' = NoCaller
            /\ loop' = [loop EXCEPT ![l] = [@ EXCEPT !.at = "select", !.attempt = 0]]
    /\ UNCHANGED <<running, channel, shut, ended, up, proc, holder, os, waiting, late,
                   spared>>

AttemptAgain(l) ==
    /\ loop[l].at = "delay" /\ BeginStart(l)
    /\ loop' = [loop EXCEPT ![l] = [@ EXCEPT !.at = "start",
                                        !.attempt = loop[l].attempt + 1]]
    /\ UNCHANGED <<fails, recoverer, running, channel, shut, ended>>

GiveUp(l) ==
    /\ loop[l].at = "delay" /\ l \in ended
    /\ recoverer' = NoCaller
    /\ loop' = [loop EXCEPT ![l] = [@ EXCEPT !.at = "select", !.attempt = 0]]
    /\ UNCHANGED <<fails, running, channel, shut, ended, procVars>>

LoopStep(l) ==
    \/ CheckAll(l) \/ UpdateHealth(l) \/ LookAtHealth(l) \/ SelectEnds(l) \/ SelectTick(l)
    \/ LockRecovery(l) \/ Recovered(l) \/ AttemptFails(l) \/ AttemptAgain(l) \/ GiveUp(l)
    \/ (CallStep(l) \/ (l \in ended /\ StopCancelled(l))) /\ UNCHANGED monitorVars

HealthNext ==
    \/ StartMonitor \/ StopMonitor
    \/ \E l \in Loops : EndContext(l) \/ LoopStep(l)
    \/ StopManager(Operator) /\ UNCHANGED monitorVars
    \/ CallStep(Operator) /\ UNCHANGED monitorVars
    \/ \E p \in Procs : (MonitorProcess(p) \/ OwnWay(p)) /\ UNCHANGED monitorVars

----------------------------------------------------------------------------
(* Properties *)

\* A loop ends after the Stop that closes the channel it reads, unless Start makes
\* another one, and after its context.
Ending == {l \in Loops : Running(l) /\ (channel \in shut \/ l \in ended)}
LoopsEnd == (Ending # {}) ~> (Ending = {})

Serving == up /\ channel \notin shut /\ \E l \in Loops \ ended : Running(l)

\* While the monitor runs, a process that is gone or hangs is replaced, or the start
\* of another one is tried again and again.
Gone == Serving /\ ~Responds /\ Launched # Procs
AgentComesBack == Gone ~> (~Gone \/ \E l \in Loops : At(l, "launch"))
=============================================================================
