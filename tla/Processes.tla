----------------------------- MODULE Processes ------------------------------
(***************************************************************************)
(* The process of one agent and its manager (internal/procmgr).  The       *)
(* manager launches a process, stops it with SIGTERM and, after a timeout, *)
(* SIGKILL, and one goroutine per process waits for its end.  StartAgent   *)
(* and StopAgent are called by Callers; Process.mu, which StartAgent lets  *)
(* go while it stops the running process, is holder.                       *)
(***************************************************************************)
EXTENDS Naturals, FiniteSets

CONSTANTS Callers,  \* the goroutines that call StartAgent and StopAgent
          MaxProcs, \* bound: the processes that are launched
          Stubborn, \* bound: the processes that may hang, and that a kill may fail on
          NoCaller

Procs == 1 .. MaxProcs

VARIABLES up,      \* Manager.running
          proc,    \* the entry of the agent: its command (0: none) and its state; down is
                  \* stopped or failed, which nothing tells apart
          holder,  \* who holds Process.mu
          os,      \* per process: none, alive, hung, killed or gone
          waiting, \* the processes that monitorProcess has not accounted for
          call,    \* per caller: where its StartAgent or StopAgent is
          late,    \* history: a start was under way when the manager stopped
          spared   \* history: the processes that could not be killed

procVars == <<up, proc, holder, os, waiting, call, late, spared>>

Idle == [op |-> "none", at |-> "idle"]
Answers == {"ok", "error"}

ProcInit ==
    /\ up = TRUE /\ holder = NoCaller /\ late = FALSE /\ spared = {}
    /\ proc = [state |-> "idle", cmd |-> 0]
    /\ os = [p \in Procs |-> "none"] /\ waiting = {}
    /\ call = [c \in Callers |-> Idle]

Live == {p \in Procs : os[p] \in {"alive", "hung"}}
Ours == Live \ spared
Launched == {p \in Procs : os[p] # "none"}
At(c, where) == call[c].at = where
GoTo(c, where) == call' = [call EXCEPT ![c].at = where]

----------------------------------------------------------------------------
(* StartAgent *)

BeginStart(c) ==
    /\ At(c, "idle")
    /\ call' = [call EXCEPT ![c] = [op |-> "start", at |-> IF up THEN "lock" ELSE "error"]]
    /\ UNCHANGED <<up, proc, holder, os, waiting, late, spared>>

\* A running process is stopped first, without the lock.
LockToStart(c) ==
    /\ At(c, "lock") /\ holder = NoCaller
    /\ IF proc.state = "running"
       THEN GoTo(c, "stop") /\ UNCHANGED holder
       ELSE GoTo(c, "launch") /\ holder' = c
    /\ UNCHANGED <<up, proc, os, waiting, late, spared>>

Relock(c) ==
    /\ At(c, "relock") /\ holder = NoCaller
    /\ holder' = c /\ GoTo(c, "launch")
    /\ UNCHANGED <<up, proc, os, waiting, late, spared>>

Launch(c) ==
    /\ At(c, "launch")
    /\ LET p == Cardinality(Launched) + 1 IN
         /\ p \in Procs
         /\ os' = [os EXCEPT ![p] = "alive"]
         /\ proc' = [state |-> "running", cmd |-> p]
         /\ waiting' = waiting \cup {p}
    /\ holder' = NoCaller /\ GoTo(c, "ok")
    /\ UNCHANGED <<up, late, spared>>

\* The factory has no command, or the command does not start.
LaunchFails(c) ==
    /\ At(c, "launch")
    /\ proc' = [proc EXCEPT !.state = "down"]
    /\ holder' = NoCaller /\ GoTo(c, "error")
    /\ UNCHANGED <<up, os, waiting, late, spared>>

----------------------------------------------------------------------------
(* StopAgent, called by itself or from StartAgent *)

BeginStop(c) ==
    /\ At(c, "idle")
    /\ call' = [call EXCEPT ![c] = [op |-> "stop", at |-> "stop"]]
    /\ UNCHANGED <<up, proc, holder, os, waiting, late, spared>>

Stopped(c) == GoTo(c, IF call[c].op = "start" THEN "relock" ELSE "ok")

\* A process that was waited for cannot be signalled: it counts as stopped.
SendTerm(c) ==
    /\ At(c, "stop") /\ holder = NoCaller
    /\ IF proc.state # "running" \/ proc.cmd \notin waiting
       THEN /\ Stopped(c) /\ UNCHANGED holder
            /\ proc' = [proc EXCEPT !.state = IF @ = "running" THEN "down" ELSE @]
       ELSE /\ proc' = [proc EXCEPT !.state = "stopping"]
            /\ holder' = c /\ GoTo(c, "wait")
    /\ UNCHANGED <<up, os, waiting, late, spared>>

SeesEnd(c) ==
    /\ At(c, "wait") /\ os[proc.cmd] = "gone"
    /\ proc' = [proc EXCEPT !.state = "down"]
    /\ holder' = NoCaller /\ Stopped(c)
    /\ UNCHANGED <<up, os, waiting, late, spared>>

Kill == os' = [os EXCEPT ![proc.cmd] = IF @ = "gone" THEN @ ELSE "killed"]

ForceKill(c) ==
    /\ At(c, "wait")
    /\ Kill
    /\ proc' = [proc EXCEPT !.state = "down"]
    /\ holder' = NoCaller /\ Stopped(c)
    /\ UNCHANGED <<up, waiting, late, spared>>

\* The signal is refused, the process lives on and the agent counts as failed.
KillFails(c) ==
    /\ At(c, "wait") /\ proc.cmd \in Live /\ proc.cmd \in Stubborn
    /\ spared' = spared \cup {proc.cmd}
    /\ proc' = [proc EXCEPT !.state = "down"]
    /\ holder' = NoCaller /\ GoTo(c, "error")
    /\ UNCHANGED <<up, os, waiting, late>>

\* The context of the caller ends: the process is killed, the call fails.
StopCancelled(c) ==
    /\ At(c, "wait")
    /\ Kill
    /\ proc' = [proc EXCEPT !.state = "down"]
    /\ holder' = NoCaller /\ GoTo(c, "error")
    /\ UNCHANGED <<up, waiting, late, spared>>

Returned(c) == call[c].at \in Answers

----------------------------------------------------------------------------
(* Stop, monitorProcess and the processes themselves *)

StopManager(c) ==
    /\ up /\ At(c, "idle")
    /\ up' = FALSE
    /\ late' = \E o \in Callers : call[o].op = "start" /\ ~Returned(o)
    /\ call' = [call EXCEPT ![c] = IF proc.state = "idle" THEN [op |-> "stop", at |-> "ok"]
                                   ELSE [op |-> "stop", at |-> "stop"]]
    /\ UNCHANGED <<proc, holder, os, waiting, spared>>

MonitorProcess(p) ==
    /\ p \in waiting /\ os[p] = "gone" /\ holder = NoCaller
    /\ waiting' = waiting \ {p}
    /\ IF proc.cmd = p
       THEN proc' = [proc EXCEPT !.state = "down"]
       ELSE UNCHANGED proc
    /\ UNCHANGED <<up, holder, os, call, late, spared>>

Hang(p) == p \in Stubborn /\ os[p] = "alive" /\ os' = [os EXCEPT ![p] = "hung"]
Exit(p) == os[p] \in {"alive", "killed"} /\ os' = [os EXCEPT ![p] = "gone"]
OwnWay(p) == (Hang(p) \/ Exit(p)) /\ UNCHANGED <<up, proc, holder, waiting, call, late, spared>>

CallStep(c) ==
    LockToStart(c) \/ Relock(c) \/ Launch(c) \/ LaunchFails(c)
        \/ SendTerm(c) \/ SeesEnd(c) \/ ForceKill(c) \/ KillFails(c)

----------------------------------------------------------------------------
(* Properties *)

\* As long as one caller starts at a time, which the recovery lock of the health
\* manager sees to although its monitor may have two loops: a process that was
\* launched and that no kill failed on is the one in the entry, which says so; when
\* the manager has stopped and no start was under way, there is none.
ProcessesOwned ==
    /\ \A p \in Ours : p = proc.cmd /\ proc.state \in {"running", "stopping"}
    /\ (~up /\ ~late /\ \A c \in Callers : call[c].op = "none" \/ Returned(c)) => Ours = {}
=============================================================================
