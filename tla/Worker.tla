------------------------------- MODULE Worker -------------------------------
(***************************************************************************)
(* One agent worker of internal/agent/worker and every goroutine that      *)
(* touches it: the goroutines that call SendChat and SendTask, the chat    *)
(* and task loops, the session monitor of the pool, and the TUI goroutine  *)
(* that executes the owner's commands (stop, resume, kill, /reset, quit).  *)
(*                                                                         *)
(* Restart replaces the worker's context and channels, so these come in    *)
(* generations: generation g is the g-th context with the chat and task    *)
(* channels made beside it.  Elapsed time is left out: a session may be    *)
(* found expired at any tick of the monitor, and a run of the agent        *)
(* process (bounded by a context timeout in the code) may end at any time. *)
(***************************************************************************)

EXTENDS Naturals, Sequences

CONSTANTS
  ChatReqs,   \* requests made with SendChat
  TaskReqs,   \* requests made with SendTask
  ChanCap,    \* capacity of a chat or task channel (10 in the code)
  MaxGen,     \* bound on the generations a behaviour may create
  Resetters,  \* the processes that may Kill and then Restart the worker
  NoReq       \* a loop that holds no request

Req   == ChatReqs \union TaskReqs
Kinds == {"chat", "task"}
Gens  == 1..MaxGen
Procs == {"user", "monitor"}

ASSUME RequestsAssumption ==
  /\ ChatReqs \intersect TaskReqs = {}
  /\ NoReq \notin Req
ASSUME BoundsAssumption ==
  /\ ChanCap \in Nat \ {0}
  /\ MaxGen \in Nat \ {0}
ASSUME ResettersAssumption == Resetters \subseteq Procs

VARIABLES
  gen,        \* the generation w.ctx, w.cancel, w.chatChan, w.taskChan hold
  cancelled,  \* generations whose context is cancelled
  closed,     \* generations whose channels are closed
  chan,       \* contents of each channel
  status,     \* AgentState.state
  stopReq,    \* AgentState.stopRequested
  loopPc,     \* where each loop goroutine is
  loopGen,    \* the generation a loop captured when it started
  loopReq,    \* the request a loop is handling
  reqPc,      \* where each request is
  reqChan,    \* the generation of the channel its sender read
  reqCtx,     \* the generation of the context its sender waits on
  resp,       \* what was sent on each request's response channel
  procPc,     \* where the TUI goroutine and the session monitor are
  monitorCancelled, \* Pool.monitorCtx is cancelled
  crashed,    \* a goroutine panicked, the program is gone
  wish        \* history: the owner's last command

stateVars == <<status, stopReq>>
chanVars  == <<gen, cancelled, closed, chan>>
loopVars  == <<loopPc, loopGen, loopReq>>
reqVars   == <<reqPc, reqChan, reqCtx, resp>>
procVars  == <<procPc, monitorCancelled>>
vars == <<chanVars, stateVars, loopVars, reqVars, procVars, crashed, wish>>

-----------------------------------------------------------------------------
(* Values                                                                  *)

Loops  == Kinds \X Gens          \* the loop of kind l[1] started l[2]-th
Chans  == Kinds \X Gens
State  == {"available", "working", "stopped"}
Verdict == {"stopped", "busy", "result", "error", "cancelled"}

KindOf(r) == IF r \in ChatReqs THEN "chat" ELSE "task"

LoopPcs == {"unborn", "starting", "select", "taken", "notStopped",
            "idleSeen", "running", "replied", "exited"}
Holding == {"taken", "notStopped", "idleSeen", "running"}
ReqPcs  == {"new", "calling", "blocked", "queued", "held", "answered"}
ProcPcs == {"idle", "killing", "resetting", "restarting", "blocked", "woken",
            "replacing", "draining", "closing", "joining", "gone"}

TypeOK ==
  /\ gen \in Gens
  /\ cancelled \subseteq Gens
  /\ closed \subseteq Gens
  /\ chan \in [Chans -> Seq(Req)]
  /\ \A c \in Chans : Len(chan[c]) <= ChanCap
  /\ status \in State
  /\ stopReq \in BOOLEAN
  /\ loopPc \in [Loops -> LoopPcs]
  /\ loopGen \in [Loops -> Gens]
  /\ loopReq \in [Loops -> Req \union {NoReq}]
  /\ reqPc \in [Req -> ReqPcs]
  /\ reqChan \in [Req -> Gens]
  /\ reqCtx \in [Req -> Gens]
  /\ resp \in [Req -> Seq(Verdict)]
  /\ procPc \in [Procs -> ProcPcs]
  /\ monitorCancelled \in BOOLEAN
  /\ crashed \in BOOLEAN
  /\ wish \in {"run", "pause", "kill"}

-----------------------------------------------------------------------------
(* Pool.wg, p.mu and the life of the program                               *)

Alive(l) == loopPc[l] \notin {"unborn", "exited"}

\* The counter of w.wg is zero.
NoLoops == \A l \in Loops : ~Alive(l)

\* p.mu is held for writing inside Kill, and for reading by StopAll while it
\* stops the workers.
Killing   == \E p \in Procs : procPc[p] \in {"killing", "resetting"}
StopsHeld == procPc["user"] \in {"closing", "joining"}

Running == ~crashed /\ procPc["user"] # "gone"

\* On the way from Kill to the end of Restart.
Resetting(p) ==
  procPc[p] \in {"resetting", "restarting", "blocked", "woken", "replacing"}

\* Generations that Restarts in progress are about to create.
Claims == (IF Resetting("user") THEN 1 ELSE 0)
          + (IF Resetting("monitor") THEN 1 ELSE 0)

-----------------------------------------------------------------------------
(* Start has run: the first pair of loops is spawned.                      *)

Init ==
  /\ gen = 1
  /\ cancelled = {}
  /\ closed = {}
  /\ chan = [c \in Chans |-> <<>>]
  /\ status = "available"
  /\ stopReq = FALSE
  /\ loopPc = [l \in Loops |-> IF l[2] = 1 THEN "starting" ELSE "unborn"]
  /\ loopGen = [l \in Loops |-> 1]
  /\ loopReq = [l \in Loops |-> NoReq]
  /\ reqPc = [r \in Req |-> "new"]
  /\ reqChan = [r \in Req |-> 1]
  /\ reqCtx = [r \in Req |-> 1]
  /\ resp = [r \in Req |-> <<>>]
  /\ procPc = [p \in Procs |-> "idle"]
  /\ monitorCancelled = FALSE
  /\ crashed = FALSE
  /\ wish = "run"

-----------------------------------------------------------------------------
(* AgentState                                                              *)

StartTask == status' = "working" /\ UNCHANGED stopReq

\* Mutated form: CompleteTask forgets to clear the stop request.
CompleteTaskKeepsStop ==
  /\ status' = IF stopReq THEN "stopped" ELSE "available"
  /\ UNCHANGED stopReq

CompleteTask ==
  /\ status' = IF stopReq THEN "stopped" ELSE "available"
  /\ stopReq' = FALSE

RequestStop ==
  \/ status = "working" /\ stopReq' = TRUE /\ UNCHANGED status
  \/ status # "working" /\ status' = "stopped" /\ UNCHANGED stopReq

ResumeState ==
  \/ status = "stopped" /\ status' = "available" /\ stopReq' = FALSE
  \/ status # "stopped" /\ UNCHANGED stateVars

ForceStop == status' = "stopped" /\ stopReq' = FALSE

-----------------------------------------------------------------------------
(* SendChat and SendTask.  The select evaluates w.chatChan first and       *)
(* w.ctx.Done() second, without w.mu: a Restart may fall between the two.  *)

Room(c) == Len(chan[c]) < ChanCap

Reply(r, v) ==
  /\ resp' = [resp EXCEPT ![r] = Append(@, v)]
  /\ reqPc' = [reqPc EXCEPT ![r] = "answered"]
  /\ UNCHANGED <<reqChan, reqCtx>>

SendCall(r) ==
  /\ Running
  /\ reqPc[r] = "new"
  /\ reqPc' = [reqPc EXCEPT ![r] = "calling"]
  /\ reqChan' = [reqChan EXCEPT ![r] = gen]
  /\ UNCHANGED <<chanVars, stateVars, loopVars, reqCtx, resp, procVars,
                 crashed, wish>>

\* Mutated form: a queue without a capacity.
SendEnqueueUnbounded(r) ==
  LET c == <<KindOf(r), reqChan[r]>> IN
  /\ Running
  /\ reqPc[r] = "calling"
  /\ reqChan[r] \notin closed
  /\ chan' = [chan EXCEPT ![c] = Append(@, r)]
  /\ reqPc' = [reqPc EXCEPT ![r] = "queued"]
  /\ UNCHANGED <<gen, cancelled, closed, stateVars, loopVars, reqChan, reqCtx,
                 resp, procVars, crashed, wish>>

\* The channel has room: the request is queued.
SendEnqueue(r) ==
  LET c == <<KindOf(r), reqChan[r]>> IN
  /\ Running
  /\ reqPc[r] = "calling"
  /\ reqChan[r] \notin closed
  /\ Room(c)
  /\ chan' = [chan EXCEPT ![c] = Append(@, r)]
  /\ reqPc' = [reqPc EXCEPT ![r] = "queued"]
  /\ UNCHANGED <<gen, cancelled, closed, stateVars, loopVars, reqChan, reqCtx,
                 resp, procVars, crashed, wish>>

\* The context is cancelled, before the select or while blocked in it: the
\* sender answers itself.
SendCancelled(r) ==
  /\ Running
  /\ \/ reqPc[r] = "calling" /\ gen \in cancelled
     \/ reqPc[r] = "blocked" /\ reqCtx[r] \in cancelled
  /\ Reply(r, "cancelled")
  /\ UNCHANGED <<chanVars, stateVars, loopVars, procVars, crashed, wish>>

\* The channel is full and the context alive: the sender blocks on both.
SendBlock(r) ==
  /\ Running
  /\ reqPc[r] = "calling"
  /\ reqChan[r] \notin closed
  /\ ~Room(<<KindOf(r), reqChan[r]>>)
  /\ gen \notin cancelled
  /\ reqPc' = [reqPc EXCEPT ![r] = "blocked"]
  /\ reqCtx' = [reqCtx EXCEPT ![r] = gen]
  /\ UNCHANGED <<chanVars, stateVars, loopVars, reqChan, resp, procVars,
                 crashed, wish>>

\* The select met the send on the closed channel first: panic.
SendClosed(r) ==
  /\ Running
  /\ reqPc[r] = "calling"
  /\ reqChan[r] \in closed
  /\ crashed' = TRUE
  /\ UNCHANGED <<chanVars, stateVars, loopVars, reqVars, procVars, wish>>

Send(r) == \/ SendCall(r) \/ SendEnqueue(r) \/ SendCancelled(r)
           \/ SendBlock(r) \/ SendClosed(r)

-----------------------------------------------------------------------------
(* chatLoop with handleChat, taskLoop with handleTask.  Both check for a   *)
(* stopped agent, then for a working one, and only then mark it working:   *)
(* three steps that other goroutines may separate.                         *)

Goto(l, pc) == loopPc' = [loopPc EXCEPT ![l] = pc]

LoopChan(l) == <<l[1], loopGen[l]>>

\* The goroutine runs: it captures w.ctx and its channel under w.mu.
LoopStart(l) ==
  /\ Running
  /\ loopPc[l] = "starting"
  /\ Goto(l, "select")
  /\ loopGen' = [loopGen EXCEPT ![l] = gen]
  /\ UNCHANGED <<chanVars, stateVars, loopReq, reqVars, procVars, crashed, wish>>

LoopExit(l) ==
  /\ Running
  /\ loopPc[l] = "select"
  /\ \/ loopGen[l] \in cancelled
     \/ loopGen[l] \in closed /\ chan[LoopChan(l)] = <<>>
  /\ Goto(l, "exited")
  /\ UNCHANGED <<chanVars, stateVars, loopGen, loopReq, reqVars, procVars,
                 crashed, wish>>

\* Receiving is possible even when the context is cancelled: select picks
\* at random.  A sender blocked on the full channel hands its request over.
LoopTake(l) ==
  LET c == LoopChan(l)
      waiting == {r \in Req : /\ reqPc[r] = "blocked"
                              /\ <<KindOf(r), reqChan[r]>> = c
                              /\ reqCtx[r] \notin cancelled}
  IN
  /\ Running
  /\ loopPc[l] = "select"
  /\ chan[c] # <<>>
  /\ Goto(l, "taken")
  /\ loopReq' = [loopReq EXCEPT ![l] = Head(chan[c])]
  /\ \/ /\ waiting = {}
        /\ chan' = [chan EXCEPT ![c] = Tail(@)]
        /\ reqPc' = [reqPc EXCEPT ![Head(chan[c])] = "held"]
     \/ \E r \in waiting :
          /\ chan' = [chan EXCEPT ![c] = Append(Tail(@), r)]
          /\ reqPc' = [reqPc EXCEPT ![Head(chan[c])] = "held", ![r] = "queued"]
  /\ UNCHANGED <<gen, cancelled, closed, stateVars, loopGen, reqChan, reqCtx,
                 resp, procVars, crashed, wish>>

\* Answer without running the agent, and go back to the select.
Dismiss(l, v) ==
  /\ Reply(loopReq[l], v)
  /\ Goto(l, "select")
  /\ loopReq' = [loopReq EXCEPT ![l] = NoReq]
  /\ UNCHANGED <<chanVars, stateVars, loopGen, procVars, crashed, wish>>

Pass(l, pc) ==
  /\ Goto(l, pc)
  /\ UNCHANGED <<chanVars, stateVars, loopGen, loopReq, reqVars, procVars,
                 crashed, wish>>

\* Mutated form: a stopped agent's loop returns where it should continue.
LoopCheckStoppedReturns(l) ==
  /\ Running
  /\ loopPc[l] = "taken"
  /\ \/ /\ status = "stopped"
        /\ Reply(loopReq[l], "stopped")
        /\ Goto(l, "exited")
        /\ loopReq' = [loopReq EXCEPT ![l] = NoReq]
        /\ UNCHANGED <<chanVars, stateVars, loopGen, procVars, crashed, wish>>
     \/ status # "stopped" /\ Pass(l, "notStopped")

\* Mutated form: a stopped agent's requests go back to the queue.
LoopCheckStoppedRequeues(l) ==
  LET r == loopReq[l] c == <<KindOf(r), reqChan[r]>> IN
  /\ Running
  /\ loopPc[l] = "taken"
  /\ \/ /\ status = "stopped" /\ Room(c)
        /\ chan' = [chan EXCEPT ![c] = Append(@, r)]
        /\ reqPc' = [reqPc EXCEPT ![r] = "queued"]
        /\ Goto(l, "select")
        /\ loopReq' = [loopReq EXCEPT ![l] = NoReq]
        /\ UNCHANGED <<gen, cancelled, closed, stateVars, loopGen, reqChan,
                       reqCtx, resp, procVars, crashed, wish>>
     \/ status # "stopped" /\ Pass(l, "notStopped")

\* Mutated form: no return after the stopped answer, the request goes on.
LoopCheckStoppedFallsThrough(l) ==
  /\ Running
  /\ loopPc[l] = "taken"
  /\ \/ /\ status = "stopped"
        /\ Reply(loopReq[l], "stopped")
        /\ Goto(l, "notStopped")
        /\ UNCHANGED <<chanVars, stateVars, loopGen, loopReq, procVars, crashed,
                       wish>>
     \/ status # "stopped" /\ Pass(l, "notStopped")

LoopCheckStopped(l) ==
  /\ Running
  /\ loopPc[l] = "taken"
  /\ \/ status = "stopped" /\ Dismiss(l, "stopped")
     \/ status # "stopped" /\ Pass(l, "notStopped")

\* Mutated form: no return after the busy answer, the request runs as well.
LoopCheckWorkingFallsThrough(l) ==
  /\ Running
  /\ loopPc[l] = "notStopped"
  /\ \/ /\ status = "working"
        /\ Reply(loopReq[l], "busy")
        /\ Goto(l, "idleSeen")
        /\ UNCHANGED <<chanVars, stateVars, loopGen, loopReq, procVars, crashed,
                       wish>>
     \/ status # "working" /\ Pass(l, "idleSeen")

LoopCheckWorking(l) ==
  /\ Running
  /\ loopPc[l] = "notStopped"
  /\ \/ status = "working" /\ Dismiss(l, "busy")
     \/ status # "working" /\ Pass(l, "idleSeen")

LoopBegin(l) ==
  /\ Running
  /\ loopPc[l] = "idleSeen"
  /\ StartTask
  /\ Goto(l, "running")
  /\ UNCHANGED <<chanVars, loopGen, loopReq, reqVars, procVars, crashed, wish>>

\* Mutated form: no CompleteTask after the run.
LoopReplyOnly(l) ==
  /\ Running
  /\ loopPc[l] = "running"
  /\ \E v \in {"result", "error"} : Reply(loopReq[l], v)
  /\ Goto(l, "select")
  /\ loopReq' = [loopReq EXCEPT ![l] = NoReq]
  /\ UNCHANGED <<chanVars, stateVars, loopGen, procVars, crashed, wish>>

\* Mutated form: the error answer does not return, the result follows it.
LoopReplyFallsThrough(l) ==
  /\ Running
  /\ loopPc[l] = "running"
  /\ \/ Reply(loopReq[l], "result")
     \/ /\ resp' = [resp EXCEPT ![loopReq[l]] = @ \o <<"error", "result">>]
        /\ reqPc' = [reqPc EXCEPT ![loopReq[l]] = "answered"]
        /\ UNCHANGED <<reqChan, reqCtx>>
  /\ Goto(l, "replied")
  /\ loopReq' = [loopReq EXCEPT ![l] = NoReq]
  /\ UNCHANGED <<chanVars, stateVars, loopGen, procVars, crashed, wish>>

\* The agent process ended, by itself, by its timeout or by cancellation.
LoopReply(l) ==
  /\ Running
  /\ loopPc[l] = "running"
  /\ \E v \in {"result", "error"} : Reply(loopReq[l], v)
  /\ Goto(l, "replied")
  /\ loopReq' = [loopReq EXCEPT ![l] = NoReq]
  /\ UNCHANGED <<chanVars, stateVars, loopGen, procVars, crashed, wish>>

\* Mutated form: the loop ends after its first run.
LoopCompleteExits(l) ==
  /\ Running
  /\ loopPc[l] = "replied"
  /\ CompleteTask
  /\ Goto(l, "exited")
  /\ UNCHANGED <<chanVars, loopGen, loopReq, reqVars, procVars, crashed, wish>>

\* The deferred CompleteTask, after the response is sent.
LoopComplete(l) ==
  /\ Running
  /\ loopPc[l] = "replied"
  /\ CompleteTask
  /\ Goto(l, "select")
  /\ UNCHANGED <<chanVars, loopGen, loopReq, reqVars, procVars, crashed, wish>>

LoopStep(l) == \/ LoopStart(l) \/ LoopExit(l) \/ LoopTake(l)
               \/ LoopCheckStopped(l) \/ LoopCheckWorking(l)
               \/ LoopBegin(l) \/ LoopReply(l) \/ LoopComplete(l)

-----------------------------------------------------------------------------
(* Owner's commands: @agent stop and @agent resume.  Pool.Resume finds the *)
(* worker whatever its state, so handleResume never gets to its Restart.   *)

Move(p, pc) == procPc' = [procPc EXCEPT ![p] = pc]

Pause ==
  /\ Running
  /\ procPc["user"] = "idle"
  /\ ~Killing
  /\ RequestStop
  /\ wish' = IF wish = "kill" THEN "kill" ELSE "pause"
  /\ UNCHANGED <<chanVars, loopVars, reqVars, procVars, crashed>>

Resume ==
  /\ Running
  /\ procPc["user"] = "idle"
  /\ ~Killing
  /\ ResumeState
  /\ wish' = "run"
  /\ UNCHANGED <<chanVars, loopVars, reqVars, procVars, crashed>>

-----------------------------------------------------------------------------
(* Pool.Kill and Pool.Restart, called by @agent kill, /reset and by the    *)
(* session monitor for an expired session.                                 *)

\* Kill cancels the context and then forces the state, under p.mu.
KillCancel(p, next) ==
  /\ Running
  /\ procPc[p] = "idle"
  /\ ~Killing /\ ~StopsHeld
  /\ cancelled' = cancelled \union {gen}
  /\ Move(p, next)
  /\ UNCHANGED <<gen, closed, chan, stateVars, loopVars, reqVars,
                 monitorCancelled, crashed, wish>>

KillCommand == KillCancel("user", "killing")

Reset(p) ==
  /\ p \in Resetters
  /\ gen + Claims < MaxGen      \* bound on the exploration
  /\ KillCancel(p, "resetting")

KillForce(p) ==
  /\ Running
  /\ procPc[p] \in {"killing", "resetting"}
  /\ ForceStop
  /\ Move(p, IF procPc[p] = "killing" THEN "idle" ELSE "restarting")
  /\ wish' = IF p = "user" THEN "kill" ELSE wish
  /\ UNCHANGED <<chanVars, loopVars, reqVars, monitorCancelled, crashed>>

\* Mutated form: Restart without w.wg.Wait().
RestartNoWait(p) ==
  /\ Running
  /\ procPc[p] = "restarting"
  /\ Move(p, "replacing")
  /\ UNCHANGED <<chanVars, stateVars, loopVars, reqVars, monitorCancelled,
                 crashed, wish>>

\* w.wg.Wait() outside p.mu.
RestartWait(p) ==
  /\ Running
  /\ procPc[p] = "restarting"
  /\ Move(p, IF NoLoops THEN "replacing" ELSE "blocked")
  /\ UNCHANGED <<chanVars, stateVars, loopVars, reqVars, monitorCancelled,
                 crashed, wish>>

RestartWake(p) ==
  /\ Running
  /\ procPc[p] \in {"blocked", "woken"}
  /\ NoLoops
  /\ Move(p, "replacing")
  /\ UNCHANGED <<chanVars, stateVars, loopVars, reqVars, monitorCancelled,
                 crashed, wish>>

\* The counter reached zero and was raised again before this waiter looked:
\* sync: WaitGroup is reused before previous Wait has returned.
RestartPanic(p) ==
  /\ Running
  /\ procPc[p] = "woken"
  /\ ~NoLoops
  /\ crashed' = TRUE
  /\ UNCHANGED <<chanVars, stateVars, loopVars, reqVars, procVars, wish>>

\* Under p.mu: new context and channels, Resume, wg.Add(2) and two loops.
\* Whoever is blocked in wg.Wait was released when the counter was zero.
RestartLaunch(p) ==
  /\ Running
  /\ procPc[p] = "replacing"
  /\ ~Killing /\ ~StopsHeld
  /\ gen' = gen + 1
  /\ ResumeState
  /\ loopPc' = [l \in Loops |-> IF l[2] = gen + 1 THEN "starting"
                                                 ELSE loopPc[l]]
  /\ procPc' = [q \in Procs |-> IF q = p THEN "idle"
                              ELSE IF procPc[q] = "blocked" /\ NoLoops
                                   THEN "woken" ELSE procPc[q]]
  /\ wish' = IF p = "user" THEN "run" ELSE wish
  /\ UNCHANGED <<cancelled, closed, chan, loopGen, loopReq, reqVars,
                 monitorCancelled, crashed>>

-----------------------------------------------------------------------------
(* Quit: StopAll ends the session monitor, then stops the worker.          *)

\* Mutated form: StopAll waits for a monitor it did not cancel.
QuitBeginNoCancel ==
  /\ Running
  /\ procPc["user"] = "idle"
  /\ Move("user", "draining")
  /\ UNCHANGED <<chanVars, stateVars, loopVars, reqVars, monitorCancelled,
                 crashed, wish>>

QuitBegin ==
  /\ Running
  /\ procPc["user"] = "idle"
  /\ monitorCancelled' = TRUE
  /\ Move("user", "draining")
  /\ UNCHANGED <<chanVars, stateVars, loopVars, reqVars, crashed, wish>>

MonitorExit ==
  /\ Running
  /\ monitorCancelled
  /\ procPc["monitor"] = "idle"
  /\ Move("monitor", "gone")
  /\ UNCHANGED <<chanVars, stateVars, loopVars, reqVars, monitorCancelled,
                 crashed, wish>>

\* monitorWg.Wait() returned; p.mu is read-locked for the rest of StopAll.
QuitCancel ==
  /\ Running
  /\ procPc["user"] = "draining"
  /\ procPc["monitor"] = "gone"
  /\ cancelled' = cancelled \union {gen}
  /\ Move("user", "closing")
  /\ UNCHANGED <<gen, closed, chan, stateVars, loopVars, reqVars,
                 monitorCancelled, crashed, wish>>

QuitClose ==
  /\ Running
  /\ procPc["user"] = "closing"
  /\ closed' = closed \union {gen}
  /\ Move("user", "joining")
  /\ UNCHANGED <<gen, cancelled, chan, stateVars, loopVars, reqVars,
                 monitorCancelled, crashed, wish>>

QuitJoin ==
  /\ Running
  /\ procPc["user"] = "joining"
  /\ NoLoops
  /\ Move("user", "gone")
  /\ UNCHANGED <<chanVars, stateVars, loopVars, reqVars, monitorCancelled,
                 crashed, wish>>

\* The program has ended.
Ended == ~Running /\ UNCHANGED vars

-----------------------------------------------------------------------------

\* wg.Wait, once it blocks, returns or panics.
ProcStep(p) == \/ KillForce(p) \/ RestartWait(p) \/ RestartLaunch(p)
               \/ procPc[p] \in {"blocked", "woken"} /\ (RestartWake(p) \/ RestartPanic(p))

Owner == Pause \/ Resume \/ KillCommand \/ QuitBegin

Quitting == QuitCancel \/ QuitClose \/ QuitJoin

Next ==
  \/ \E r \in Req : Send(r)
  \/ \E l \in Loops : LoopStep(l)
  \/ \E p \in Procs : Reset(p) \/ ProcStep(p)
  \/ Owner
  \/ Quitting
  \/ MonitorExit
  \/ Ended

Spec == Init /\ [][Next]_vars

-----------------------------------------------------------------------------
(* Safety                                                                  *)

\* A request is never answered twice, lost between two owners or handled by
\* two loops: it is in one place only, with its sender, in one slot of one
\* channel, in the hands of one loop, or answered.  (worker.go: SendChat,
\* SendTask, both loops and their handlers, across Restart.)
Custody ==
  /\ \A l \in Loops : loopPc[l] \in Holding =>
       loopReq[l] \in Req /\ reqPc[loopReq[l]] = "held"
  /\ \A l, m \in Loops :
       /\ loopPc[l] \in Holding /\ loopPc[m] \in Holding
       /\ loopReq[l] = loopReq[m]
       => l = m
  /\ \A c \in Chans : \A i \in DOMAIN chan[c] : reqPc[chan[c][i]] = "queued"
  /\ \A c, d \in Chans : \A i \in DOMAIN chan[c], j \in DOMAIN chan[d] :
       chan[c][i] = chan[d][j] => c = d /\ i = j
  /\ \A r \in Req : reqPc[r] # "answered" => resp[r] = <<>>

\* Restart waits for the goroutines it replaces: the only loops alive are
\* those of the current generation (Pool.Restart).  True as long as one
\* process restarts the worker.
OnlyCurrentLoops == \A l \in Loops : Alive(l) => l[2] = gen

Serves(l, g) == \/ loopPc[l] = "starting" /\ gen = g
                \/ Alive(l) /\ loopPc[l] # "starting" /\ loopGen[l] = g

\* A queued request that no loop will ever read was stranded by a Kill, a
\* session restart or the end of the program, never by a pause, a busy agent
\* or an error (both loops' select, handleChat, taskLoop).
StrandedOnlyByKill ==
  \A r \in Req :
    /\ reqPc[r] = "queued"
    /\ \A l \in Loops : l[1] = KindOf(r) => ~Serves(l, reqChan[r])
    => reqChan[r] \in cancelled

\* The agent is shown as working only while one of its loops is running it:
\* no interleaving of kills, pauses and restarts leaves it working forever
\* (StartTask and the deferred CompleteTask).
WorkingHasRunner ==
  status = "working" => \E l \in Loops : loopPc[l] \in {"running", "replied"}

\* A stop request waits only for a run in progress: it cannot linger and stop
\* the agent after some later, unrelated run (RequestStop, CompleteTask,
\* ForceStop, Resume).
StopRequestHasRunner == stopReq => status = "working"

-----------------------------------------------------------------------------
(* What the comments, messages and tests of the code say and the code does *)
(* not do.                                                                 *)

\* control/handler.go:75: a killed agent is restarted by resume, so an agent
\* that shows as available has its two loops.
ResumeRevives ==
  wish = "run" /\ status = "available" /\ procPc["user"] = "idle"
    => \A k \in Kinds : \E l \in Loops : l[1] = k /\ Alive(l)

NoRun == \A l \in Loops : loopPc[l] \notin {"idleSeen", "running", "replied"}

\* worker.go:143: after a pause, the agent stops when its current task ends.
PauseTakesEffect == wish = "pause" /\ NoRun => status = "stopped"

\* worker.go:213: a stopped agent is started again by the resume command, so
\* it stays stopped until the owner gives another command.
PauseLasts ==
  [][wish = "pause" /\ wish' = "pause" /\ status = "stopped"
       => status' # "available"]_vars

\* control/handler.go:84: an agent reported as resumed is not stopped.
ResumeTakesEffect == wish = "run" => status # "stopped"

\* worker_test.go:303: a killed worker is stopped.
KillTakesEffect == wish = "kill" /\ NoRun => status = "stopped"

\* worker.go:184: the chat loop responds at once even when the agent works,
\* so it does not itself run the agent while another chat waits.
ChatAnsweredAtOnce ==
  \A l \in Loops : l[1] = "chat" /\ loopPc[l] = "running"
                     => chan[LoopChan(l)] = <<>>

-----------------------------------------------------------------------------
(* Liveness.  Goroutines that can run do run, and a run of the agent ends  *)
(* by its timeout.  A sync.RWMutex does not starve a writer, so a Restart  *)
(* that needs p.mu gets it; a select whose Done channel is ready at every  *)
(* turn takes it some time.  The owner is never obliged to do anything.    *)

Fairness ==
  /\ \A r \in Req : WF_vars(reqPc[r] # "new" /\ Send(r))
  /\ \A l \in Loops : WF_vars(LoopStep(l))
  /\ \A p \in Procs : WF_vars(ProcStep(p))
  /\ \A p \in Resetters : SF_vars(RestartLaunch(p))
  /\ WF_vars(Quitting)
  /\ SF_vars(MonitorExit)

FairSpec == Spec /\ Fairness

\* A queued request is answered unless its generation is cancelled: stops,
\* resumes and the other loop's work never leave it waiting (both loops).
QueuedIsServed ==
  \A r \in Req : reqPc[r] = "queued" ~>
    (reqPc[r] = "answered" \/ reqChan[r] \in cancelled \/ crashed)

\* A reset that has killed the worker gets through Restart: neither a run in
\* progress nor the owner's commands hold it up for good (Pool.Restart), as
\* long as one process restarts the worker.
ResetCompletes ==
  \A p \in Resetters : procPc[p] = "resetting" ~> (procPc[p] = "idle" \/ ~Running)

\* Quitting ends the program even when a session restart is in progress: "StopAll
\* stops all workers and the session monitor" (Pool.StopAll, Worker.Stop,
\* sessionMonitorLoop).  Not so once a /reset and a session restart overlap: the
\* later one then waits in Restart for loops that nobody cancels.
QuitCompletes == procPc["user"] = "draining" ~> ~Running

\* worker.go:166: the response will be sent to the provided channel.
EveryRequestAnswered ==
  \A r \in Req : reqPc[r] = "calling" ~> (reqPc[r] = "answered" \/ ~Running)

-----------------------------------------------------------------------------
(* The worker keeps the promise of Requests: whatever the restarts, every  *)
(* request is asked once and answered at most once.                        *)

Asked == {r \in Req : reqPc[r] # "new"}

Promise == INSTANCE Requests WITH asked <- Asked

PromiseSpec == Promise!Spec

=============================================================================
