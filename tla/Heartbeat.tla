------------------------------ MODULE Heartbeat ------------------------------
(***************************************************************************)
(* How a hung agent is noticed: the heartbeat monitor of                   *)
(* internal/heartbeat, the recovery handler of internal/recovery, and the  *)
(* way cmd/maxam/tui.go joins them (ping, restart and notify functions,    *)
(* the callback goroutine, the event queue the TUI polls).                 *)
(*                                                                         *)
(* The agents are seen as the ping sees them: AgentState and the run that  *)
(* stands behind it, which may overstay every timeout.  The session        *)
(* monitor of the worker pool is there as far as it changes AgentState.    *)
(* Elapsed time is left out: a check may come at any time, and so may the  *)
(* moment when a run counts as too long.                                   *)
(***************************************************************************)

EXTENDS Naturals, Sequences, FiniteSets

CONSTANTS
  Workers,          \* agents in the pool
  MaxRetries,       \* MaxRetries of both packages (3 in the TUI)
  FailBound,        \* bound: failure counts from here on are not told apart
  QueueCap,         \* capacity of heartbeatMsgQueue (10 in the TUI)
  RestartResults,   \* what restartFn may answer ({TRUE}: always nil, in the TUI)
  NotifyResults,    \* what notifyFn may answer ({TRUE} in the TUI)
  Sessions,         \* the pool's session monitor is running
  Drained,          \* the TUI has shown every event when the next tick comes (it
                    \* polls every 100 ms, ticks are 30 s apart)
  MaxEntries,       \* bound on the registrations of one worker (1 in the TUI)
  MaxCallbacks      \* bound on the callbacks of one worker under way (a
                    \* callback takes 5 s, checks come every 30 s)

VARIABLES
  status,      \* AgentState.state
  stopReq,     \* AgentState.stopRequested
  run,         \* the run of the agent: none, in time, too long
  killed,      \* workers the session monitor has killed and waits for
  born,        \* how many times a worker was registered
  entry,       \* m.workers: the current registration of a worker, 0 if none
  health,      \* the WorkerHealth objects, one per registration
  monitor,     \* the goroutine that starts and stops the monitor
  cancelled,   \* the monitor's context is cancelled
  loopPc,      \* where monitorLoop is
  names,       \* the names checkAll still has to check
  checked,     \* the worker and the WorkerHealth object being checked
  callbacks,   \* callback goroutines
  queue,       \* heartbeatMsgQueue
  notified     \* history: workers whose present run was reported in the TUI

agentVars   == <<status, stopReq, run, killed>>
monitorVars == <<monitor, cancelled, loopPc, names, checked>>
vars == <<agentVars, born, entry, health, monitorVars, callbacks, queue,
          notified>>

-----------------------------------------------------------------------------

Entries == 1..MaxEntries
Counts  == 0..FailBound
Count(n) == IF n >= FailBound THEN FailBound ELSE n + 1

Health   == [status : {"unknown", "healthy", "unresponsive", "dead"},
             fails : Counts]
NewEntry == [status |-> "unknown", fails |-> 0]

\* What HandleUnresponsive has still to do for a callback.
CallbackPcs == {"enter", "delay", "notify", "owner", "event"}
Callback    == [worker : Workers, fails : Counts, pc : CallbackPcs,
                recovered : BOOLEAN]

\* What the TUI shows: that a recovery was given up, and how each callback went.
Event == [kind : {"notification", "outcome"}, worker : Workers]

NoCheck == <<>>

TypeOK ==
  /\ status \in [Workers -> {"available", "working", "stopped"}]
  /\ stopReq \in [Workers -> BOOLEAN]
  /\ run \in [Workers -> {"none", "inTime", "tooLong"}]
  /\ killed \subseteq Workers
  /\ born \in [Workers -> Entries]
  /\ entry \in [Workers -> 0..MaxEntries]
  /\ health \in [Workers \X Entries -> Health]
  /\ monitor \in {"new", "started", "stopping", "stopped"}
  /\ cancelled \in BOOLEAN
  /\ loopPc \in {"none", "select", "checkAll", "ping"}
  /\ names \subseteq Workers
  /\ checked = NoCheck \/ checked \in Workers \X Entries
  /\ callbacks \subseteq Callback
  /\ queue \in Seq(Event) /\ Len(queue) <= QueueCap
  /\ notified \subseteq Workers

\* newTUIModel: all workers are registered, nothing has started.
Init ==
  /\ status = [w \in Workers |-> "available"]
  /\ stopReq = [w \in Workers |-> FALSE]
  /\ run = [w \in Workers |-> "none"]
  /\ killed = {}
  /\ born = [w \in Workers |-> 1]
  /\ entry = [w \in Workers |-> 1]
  /\ health = [e \in Workers \X Entries |-> NewEntry]
  /\ monitor = "new"
  /\ cancelled = FALSE
  /\ loopPc = "none"
  /\ names = {}
  /\ checked = NoCheck
  /\ callbacks = {}
  /\ queue = <<>>
  /\ notified = {}

-----------------------------------------------------------------------------
(* The agents, as far as the ping and the restart function see them.       *)

BeginRun(w) ==
  /\ run[w] = "none" /\ status[w] = "available" /\ w \notin killed
  /\ run' = [run EXCEPT ![w] = "inTime"]
  /\ status' = [status EXCEPT ![w] = "working"]
  /\ UNCHANGED <<stopReq, killed>>

Overstay(w) ==
  /\ run[w] = "inTime"
  /\ run' = [run EXCEPT ![w] = "tooLong"]
  /\ UNCHANGED <<status, stopReq, killed>>

EndRun(w) ==
  /\ run[w] # "none"
  /\ run' = [run EXCEPT ![w] = "none"]
  /\ status' = [status EXCEPT ![w] = IF stopReq[w] THEN "stopped" ELSE "available"]
  /\ stopReq' = [stopReq EXCEPT ![w] = FALSE]
  /\ UNCHANGED <<killed>>

OwnerStop(w) ==
  /\ IF status[w] = "working"
     THEN stopReq' = [stopReq EXCEPT ![w] = TRUE] /\ UNCHANGED status
     ELSE status' = [status EXCEPT ![w] = "stopped"] /\ UNCHANGED stopReq
  /\ UNCHANGED <<run, killed>>

\* AgentState.Resume.
Revive(w) ==
  IF status[w] = "stopped"
  THEN /\ status' = [status EXCEPT ![w] = "available"]
       /\ stopReq' = [stopReq EXCEPT ![w] = FALSE]
  ELSE UNCHANGED <<status, stopReq>>

OwnerResume(w) ==
  /\ Revive(w)
  /\ UNCHANGED <<run, killed>>

\* The session monitor kills an expired session; it handles one worker at a
\* time, and goes on when the killed worker's loops have ended.
SessionKill(w) ==
  /\ Sessions
  /\ killed = {}
  /\ killed' = {w}
  /\ status' = [status EXCEPT ![w] = "stopped"]
  /\ stopReq' = [stopReq EXCEPT ![w] = FALSE]
  /\ UNCHANGED <<run>>

SessionRestart(w) ==
  /\ w \in killed /\ run[w] = "none"
  /\ killed' = killed \ {w}
  /\ Revive(w)
  /\ UNCHANGED <<run>>

Agent(w) ==
  /\ \/ /\ \/ BeginRun(w) \/ Overstay(w) \/ OwnerStop(w) \/ OwnerResume(w)
           \/ SessionKill(w) \/ SessionRestart(w)
        /\ UNCHANGED notified
     \/ EndRun(w) /\ notified' = notified \ {w}
  /\ UNCHANGED <<born, entry, health, monitorVars, callbacks, queue>>

-----------------------------------------------------------------------------
(* heartbeat.Monitor: registration.                                        *)

Register(w) ==
  /\ born[w] < MaxEntries            \* bound on the exploration
  /\ born' = [born EXCEPT ![w] = @ + 1]
  /\ entry' = [entry EXCEPT ![w] = born[w] + 1]
  /\ health' = [health EXCEPT ![<<w, born[w] + 1>>] = NewEntry]
  /\ UNCHANGED <<agentVars, monitorVars, callbacks, queue, notified>>

Unregister(w) ==
  /\ MaxEntries > 1                  \* the TUI never calls it
  /\ entry' = [entry EXCEPT ![w] = 0]
  /\ UNCHANGED <<agentVars, born, health, monitorVars, callbacks, queue,
                 notified>>

\* ResetFailCount, for the registered WorkerHealth.
ResetFailCount(w) ==
  /\ MaxEntries > 1                  \* the TUI never calls it
  /\ entry[w] # 0
  /\ health' = [health EXCEPT ![<<w, entry[w]>>] = NewEntry]
  /\ UNCHANGED <<agentVars, born, entry, monitorVars, callbacks, queue,
                 notified>>

-----------------------------------------------------------------------------
(* heartbeat.Monitor: the loop.  One goroutine starts and stops it.        *)

Others == <<agentVars, born, entry, callbacks, queue, notified>>

MonitorStart ==
  /\ monitor \in {"new", "stopped"}
  /\ monitor' = "started"
  /\ cancelled' = FALSE
  /\ loopPc' = "select"
  /\ UNCHANGED <<names, checked, health, Others>>

\* Mutated form: Stop forgets to cancel the context.
MonitorStopNoCancel ==
  /\ monitor = "started"
  /\ monitor' = "stopping"
  /\ UNCHANGED <<cancelled, loopPc, names, checked, health, Others>>

MonitorStop ==
  /\ monitor = "started"
  /\ monitor' = "stopping"
  /\ cancelled' = TRUE
  /\ UNCHANGED <<loopPc, names, checked, health, Others>>

\* Mutated form: Stop returns without waiting for the loop.
MonitorJoinNoWait ==
  /\ monitor = "stopping"
  /\ monitor' = "stopped"
  /\ UNCHANGED <<cancelled, loopPc, names, checked, health, Others>>

\* m.wg.Wait() returns.
MonitorJoin ==
  /\ monitor = "stopping" /\ loopPc = "none"
  /\ monitor' = "stopped"
  /\ UNCHANGED <<cancelled, loopPc, names, checked, health, Others>>

LoopExit ==
  /\ loopPc = "select" /\ cancelled
  /\ loopPc' = "none"
  /\ UNCHANGED <<monitor, cancelled, names, checked, health, Others>>

\* A tick: the names are read under the lock, and checked after it.
LoopTick ==
  /\ loopPc = "select" /\ (Drained => queue = <<>>)
  /\ loopPc' = "checkAll"
  /\ names' = {w \in Workers : entry[w] # 0}
  /\ UNCHANGED <<monitor, cancelled, checked, health, Others>>

LoopTickDone ==
  /\ loopPc = "checkAll" /\ names = {}
  /\ loopPc' = "select"
  /\ UNCHANGED <<monitor, cancelled, names, checked, health, Others>>

\* checkWorker up to the ping: it keeps a pointer to the WorkerHealth.
CheckBegin(w) ==
  /\ loopPc = "checkAll" /\ w \in names
  /\ names' = names \ {w}
  /\ IF entry[w] = 0
     THEN UNCHANGED <<loopPc, checked>>
     ELSE loopPc' = "ping" /\ checked' = <<w, entry[w]>>
  /\ UNCHANGED <<monitor, cancelled, health, Others>>

\* pingFn of the TUI.
PingFails(w) == status[w] = "working" /\ run[w] = "tooLong"

Failed(h) ==
  LET n == Count(h.fails) IN
  [status |-> IF n >= MaxRetries THEN "dead" ELSE "unresponsive", fails |-> n]

\* Mutated form: the result goes to the worker's present registration.
CheckEndByName ==
  LET w == checked[1]  now == <<w, entry[w]>> IN
  /\ loopPc = "ping"
  /\ loopPc' = "checkAll"
  /\ checked' = NoCheck
  /\ health' = [health EXCEPT ![now] =
                  IF PingFails(w) THEN Failed(@)
                                  ELSE [status |-> "healthy", fails |-> 0]]
  /\ UNCHANGED <<agentVars, born, entry, monitor, cancelled, names, callbacks, queue,
                 notified>>

\* The ping and the rest of checkWorker.  Each failure starts a callback.
CheckEnd ==
  LET w  == checked[1]
      h  == Failed(health[checked])
      cb == [worker |-> w, fails |-> h.fails, pc |-> "enter", recovered |-> FALSE]
  IN
  /\ loopPc = "ping"
  /\ loopPc' = "checkAll"
  /\ checked' = NoCheck
  /\ \/ /\ PingFails(w)
        /\ cb \notin callbacks
        /\ Cardinality({c \in callbacks : c.worker = w}) < MaxCallbacks
        /\ health' = [health EXCEPT ![checked] = h]
        /\ callbacks' = callbacks \union {cb}
     \/ /\ ~PingFails(w)
        /\ health' = [health EXCEPT ![checked] =
                        [status |-> "healthy", fails |-> 0]]
        /\ UNCHANGED callbacks
  /\ UNCHANGED <<agentVars, born, entry, monitor, cancelled, names, queue,
                 notified>>

MonitorLoop == \/ LoopExit \/ LoopTick \/ LoopTickDone
               \/ \E w \in Workers : CheckBegin(w)
               \/ CheckEnd

-----------------------------------------------------------------------------
(* The callback: recovery.Handler.HandleUnresponsive, then the event.      *)

Step(c, d) == callbacks' = (callbacks \ {c}) \union {d}

\* A full queue drops what is sent to it.
Post(e) == queue' = IF Len(queue) < QueueCap THEN Append(queue, e) ELSE queue

HandleEnter(c) ==
  /\ c.pc = "enter"
  /\ Step(c, [c EXCEPT !.pc = IF c.fails <= MaxRetries THEN "delay" ELSE "notify"])
  /\ UNCHANGED <<agentVars, born, entry, health, monitorVars, queue, notified>>

\* attemptRestart, after its delay: w.Resume(), which does nothing to a
\* worker that is working.
HandleRestart(c) ==
  /\ c.pc = "delay"
  /\ \E ok \in RestartResults :
       /\ IF ok THEN Revive(c.worker) ELSE UNCHANGED <<status, stopReq>>
       /\ Step(c, [c EXCEPT !.recovered = ok,
                            !.pc = IF ~ok /\ c.fails >= MaxRetries
                                   THEN "notify" ELSE "event"])
  /\ UNCHANGED <<run, killed, born, entry, health, monitorVars, queue, notified>>

\* Mutated form: only the count that reaches MaxRetries is reported, which
\* the restart before it has already answered.
HandleNotifyOnce(c) ==
  /\ c.pc = "notify"
  /\ Step(c, [c EXCEPT !.pc = "event"])
  /\ IF c.fails = MaxRetries THEN Post([kind |-> "notification", worker |-> c.worker])
                             ELSE UNCHANGED queue
  /\ UNCHANGED <<agentVars, born, entry, health, monitorVars, notified>>

\* notifyPM, and notifyOwner when the PM cannot be told.
HandleNotify(c) ==
  /\ c.pc \in {"notify", "owner"}
  /\ \E ok \in NotifyResults :
       /\ IF ok THEN Post([kind |-> "notification", worker |-> c.worker])
                ELSE UNCHANGED queue
       /\ Step(c, [c EXCEPT !.pc = IF ok \/ c.pc = "owner" THEN "event" ELSE "owner"])
  /\ UNCHANGED <<agentVars, born, entry, health, monitorVars, notified>>

HandleEvent(c) ==
  /\ c.pc = "event"
  /\ callbacks' = callbacks \ {c}
  /\ Post([kind |-> "outcome", worker |-> c.worker])
  /\ UNCHANGED <<agentVars, born, entry, health, monitorVars, notified>>

Handle(c) == HandleEnter(c) \/ HandleRestart(c) \/ HandleNotify(c) \/ HandleEvent(c)

\* The TUI shows the next event.
ShowEvent ==
  /\ queue # <<>>
  /\ queue' = Tail(queue)
  /\ notified' = IF Head(queue).kind = "notification"
                 THEN notified \union {Head(queue).worker} ELSE notified
  /\ UNCHANGED <<agentVars, born, entry, health, monitorVars, callbacks>>

-----------------------------------------------------------------------------

Next ==
  \/ \E w \in Workers :
       Agent(w) \/ Register(w) \/ Unregister(w) \/ ResetFailCount(w)
  \/ MonitorStart \/ MonitorStop \/ MonitorJoin \/ MonitorLoop
  \/ \E c \in callbacks : Handle(c)
  \/ ShowEvent

Spec == Init /\ [][Next]_vars

\* The goroutines that can run do run, each callback for itself; a select whose
\* Done channel stays ready takes it some time; nobody is obliged to stop the
\* monitor, and a run need not end.
Fairness ==
  /\ WF_vars(MonitorLoop) /\ SF_vars(LoopExit) /\ WF_vars(MonitorJoin)
  /\ WF_vars(MonitorStart)
  /\ \A c \in Callback : WF_vars(c \in callbacks /\ Handle(c))
  /\ WF_vars(ShowEvent)

FairSpec == Spec /\ Fairness

-----------------------------------------------------------------------------
(* Properties                                                              *)

\* Once Stop has returned no check is going on and none will come: the loop
\* has left its ping and has no name in hand (Monitor.Start, Stop, checkAll).
StopQuiesces ==
  monitor \in {"new", "stopped"} => loopPc = "none" /\ names = {} /\ checked = NoCheck

\* A check that began before its worker was unregistered or registered again
\* changes nothing that GetHealth can return: its result goes to the
\* registration it began with (checkWorker keeps the pointer it looked up).
StaleCheckIsHarmless ==
  [][ /\ checked # NoCheck /\ checked' = NoCheck
      /\ checked[2] # entry[checked[1]]
      => \A w \in Workers : entry[w] # 0 =>
           health'[<<w, entry[w]>>] = health[<<w, entry[w]>>] ]_vars

\* Stop returns (Monitor.Stop, monitorLoop).
StopReturns == monitor = "stopping" ~> monitor = "stopped"

\* A run that never ends is reported to the PM in the TUI, or its session is killed
\* first, as long as the monitor is not stopped (checkWorker, HandleUnresponsive,
\* notifyFn, sessionMonitorLoop).  The session monitor waits in turn for a run that
\* it has killed, so that the reports are all there is for the other agents; full
\* queues, restarts that change nothing and callbacks that overlap and overtake one
\* another must not swallow them.
HungIsNoticed ==
  \A w \in Workers :
    <>[](run[w] = "tooLong" /\ monitor = "started") => []<>(w \in notified \/ w \in killed)

\* recovery/handler.go:89: true is returned if the recovery was successful, so a
\* worker of which that is said is no longer found unresponsive.
RecoveredIsResponsive ==
  [][\A c \in callbacks' \ callbacks : c.recovered => ~PingFails(c.worker)']_vars

\* tui.go:364: stopped workers are intentionally stopped, so no step of a
\* recovery starts them again.
StopIsRespected ==
  [][\A w \in Workers :
       status[w] = "stopped" /\ status'[w] # "stopped" => callbacks' = callbacks]_vars

=============================================================================
