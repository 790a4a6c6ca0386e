# A formal model of MAXAM

MAXAM runs a team of AI agents (subprocesses of a command line agent) behind a
terminal UI: the owner and the agents chat, agents hand tasks to each other, a
plan is posted as a GitHub issue and waits for the owner's approval, monitors
look for agents that hang. This directory holds TLA+ modules that model the
concurrent core of the program, TLC configurations that check them on small
instances, and proofs that TLAPS checks for every instance.

    tlc -workers 2 -config worker_safety.cfg MCWorker     # one run
    tlapm WorkerProofs.tla                                # the proofs of a module

`PROJECT.json` lists the runs, for each property a mutation of the code that
violates it, the source lines each definition models, the findings, the hazards
of the code and the theorems. In the modules, a definition introduced as a mutant
or a mutated form is not part of the model: it is what such a mutation puts in
the place of the definition that follows it.

## 1. Inventory of the system

Paths are under `src/`. "Wired" says whether the shipped binary
(`cmd/maxam`) creates the component; the others are complete packages with
tests that no command uses yet.

| Component | State | Operations | Interacts with | Hard behaviour |
|---|---|---|---|---|
| Worker pool and workers, `internal/agent/worker` (wired) | context, chat and task channel (cap. 10), `AgentState` (available/working/stopped, stop request), wait group, session start | SendChat, SendTask, the two loops, Stop, Kill, Restart, Pause, Resume, StopAll, session monitor | TUI (owner's commands, chats), agent runner, session monitor goroutine | the state is checked, set and completed in separate critical sections; Restart replaces context and channels under running senders and loops |
| Control commands, `internal/agent/control` (wired) | none | @agent stop, resume, kill, status | worker pool | resume of an agent that was killed |
| Agent runner, `internal/agent/runner.go` (wired) | none | Run a subprocess with a timeout, retry a rate limit | worker loops | may end at any time, or only by its timeout |
| Heartbeat monitor and recovery, `internal/heartbeat/monitor.go`, `internal/recovery` (wired) | registrations, health records, `RecoveryState`, event queue (cap. 10) | Register, Unregister, Start, Stop, check of each worker, HandleUnresponsive | pings `AgentState`, restarts through the pool, reports to the TUI | pings without the lock, callback goroutines that sleep 5 s, a bounded queue |
| Coordinator and task queue, `internal/coordinator`, `internal/taskqueue`, `internal/handover`, `internal/retry` (not wired) | an `AgentInfo` per agent, queue entries | Register, Unregister, HandleHeartbeat, HandleFailure with backoff, handover, assign over HTTP | monitors, PM notification, clients that retry | decisions on values read before a backoff; unlocked writes; retried requests |
| Mode manager and plan workflow of the TUI, `internal/mode`, `cmd/maxam/tui.go` (wired) | mode, plan context, current plan issue | /plan, /auto, /stop, workflow results, approval ticks | approval watcher, GitHub | goroutines whose answers arrive after the mode has changed |
| Approval watcher, `internal/approval` (wired) | watched issues with times | Watch, Unwatch, CheckOnce | GitHub comments | fetches without the lock, overlapping checks |
| Auto runner and plan handler, `internal/auto`, `internal/mode/auto_plan.go` (not wired) | task list, runner state, handler state | AddTask, Run, Stop, Pause, Resume, Reset; StartPlanWorkflow, CheckApproval, StartPolling, Stop | each other, mode manager, approval watcher | picking and marking a task apart; several callers of Run |
| Chat chain of the TUI, `cmd/maxam/tui.go`, `internal/errorwatch/detector.go` (wired) | busy marks, warning counts, cooldowns | runAgentAsync, agentResponseMsg, intervention every tenth hop, follow-up of an error, issue watcher's question | worker pool, mentions | waits for a worker without a timeout; marks one agent and asks another |
| Context monitor and history, `internal/history`, `internal/contextmon`, buildPrompt (wired) | messages, history file, token estimate | Add, save, TrimToSize, building and shortening a prompt | file system, other programs of the user | a program killed while it saves, two programs on one file |
| Cleanup of merged branches, `internal/github/watcher.go`, `internal/worktree` (wired) | time of the last check | CheckEvents every five minutes, CleanupForBranch | GitHub, `/tmp/maxam` | decides by a branch name on what happened minutes ago |
| WebSocket hub and clients, `internal/ws` (server and TUI client wired) | client set, history, send buffers, connections | register, broadcast, history, pumps, reconnect, Close | TUI and agents over a network | gaps around registration, full buffers, closed channels, several goroutines that notice one loss |
| Event watcher, `internal/github/event_watcher.go`, `maxam watch` (wired) | time of the last check, seen ids | CheckEvents | GitHub | "now" is taken after the requests, one of two requests fails |
| Feedback watcher, `internal/approval/feedback.go` (not wired) | watched issues with times, a channel of events | Watch, Unwatch, checks, polling by the plan handler | GitHub comments, plan handler | the time is written into an entry that may be a newer one |
| CI watcher and its service, `internal/github/ci_watcher.go`, `internal/cinotify` (not wired) | registered watches, a channel of results | WatchPR, StopWatching, Start, Stop | GitHub, notifier | full channel, a watch that ends stops another one |
| Process and health managers, `internal/procmgr`, `internal/healthmgr` (not wired) | process table, failures in a row | StartAgent, StopAgent, Stop, checks, RecoverAgent | OS processes | locks given up in the middle of a start, late exit reports, two loops of one monitor |
| Agent pool, `internal/pool` (not wired) | queue and workers of an agent | Dispatch, Close, AllStats | agent runner | sends on closed channels, a read lock taken twice |
| Sessions, supervisor and issue watcher, `internal/agent/session`, `internal/monitor`, `internal/issuemgr` (not wired) | restart count; status and running flags | Run with timeout and restart, Stop; Start, Stop, loops | functions that go on after their timeout; GitHub | a Stop in the middle of a Start |
| Automatic reset, `internal/errorwatch/auto_reset.go` (not wired) | failures and last attempt per agent | HandleError, ResetState | agents, PM | state looked up again after a reset |
| Heartbeat files, `internal/heartbeat/{file_monitor,writer,alerter}.go` (not wired) | file, alert flags | write, check, alert, Start, Stop | file system | an alert decided on an old file, a Stop that waits |
| Slack bridge, `internal/slack` (not wired) | queue, pending messages, timer | receive, collect, handle, answer | Slack, agents | a slice shared by two goroutines without a lock |
| Review, summaries, router, configuration, members, logger, usage, GitHub client | files, settings | pure functions, I/O | the above | none that interleavings reach |

What makes them correct: a request is in one place and answered at most once; the
agent's state has a run behind it; stops, resets and quitting complete; a hang is
reported; a stale check or report does no harm; retries are bounded; a failed
agent's work reaches the queue; an approval that was given, and no other, is
acted upon; a task runs once; nothing said is lost, shown out of order or handled
twice; an event is reported once and is missed for a known reason only; a
connection, a loop or a process that is replaced or stopped leaves nothing behind;
what was lost is not somebody's unmerged work.

## 2. The modules

| Module | Models | State and actions against the code |
|---|---|---|
| `Requests` | what the worker promises its senders | asked requests and their answers; Ask, Answer. The abstract specification `Worker` implements |
| `Worker` | one worker, its senders, both loops, the session monitor, the owner | one action per critical section or channel operation: the select of SendChat (enqueue, cancelled, block, closed), of the loops (start, exit, take), the checks of handleChat and handleTask, StartTask, the answer, the deferred CompleteTask; Pause, Resume; Kill (cancel, then force); Restart (wait, replace); StopAll in its four stages. A *generation* is a context with the channels made beside it |
| `Heartbeat` | the monitor, its callbacks, the recovery handler, the TUI's event queue | monitorLoop with the context it holds, checkWorker around its ping, a callback goroutine for each failure with its delay, restart and notification, which may overlap; agents as the ping sees them. RecoveryState, on which no decision depends, is left out |
| `TaskQueue` | the queue's store | Add, Assign, Close, Remove as operators on the stored entries |
| `Coordinator` | the coordinator, calls of HandleFailure, the assign endpoint and its clients; uses `TaskQueue` | HandleFailure in the steps between which the lock is free (count, mark, recover, heartbeat, give up, list, add, notify); records are numbered, since HandleFailure keeps a pointer; requests on a wire that loses requests and answers |
| `PlanMode` | the TUI's plan mode with mode manager and approval watcher | Update's messages as actions, commands as goroutines; checks that copy the watched issues and fetch one by one; GitHub's whole-second times |
| `Runner` | `auto.Runner` and its callers | nextPendingTask, the marking and the result of a task as separate steps |
| `AutoPlan` | `AutoPlanHandler` composed with `Runner`, mode manager, watcher | EXTENDS `Runner` and adds the handler's actions; CheckApproval and StartPolling as goroutines; the time of a watch, and with it which approvals FindApprovalSince ignores, is counted in starts |
| `Chain` | the conversation of the TUI | Enter, AgentResponse, mei's turn, the follow-up of an error, the question of the issue watcher; the commands under way are a bag |
| `Memory` | messages, history file and prompt, of several programs | the save's write and rename, TrimToSize, a kill, a failing write; sizes instead of texts |
| `Slack` | the bridge | the socket's filter, the queue, collecting, the timers and their functions, the handler's choice |
| `Hub` | server and hub of the chat | the loop's store and pass, the hand-over of a registration and the insertion under the lock, which the handler does not wait for, the history, the two goroutines of a connection, Stop and Start |
| `TUIClient`, `AgentClient` | the two clients | dial, flags, pumps, whichever goroutine notices a loss, Disconnect or Close, reconnection; each statement that another goroutine may see in between is a step |
| `EventWatch`, `Feedback`, `Cleanup` | three watchers of GitHub, each with a time of its own | fetch, fail, mark, report; GitHub with timestamps cut to the second, its own progress between two requests, pages that other closed pull requests fill as well, a list that says what was merged or does not (`marks`, by which `GetMerged` decides), forks that use a branch name of the repository (`Others`) |
| `CIWatch` | CI watcher with its service | follow, poll, send, stop by number; passing a result on |
| `Processes`, `Health` | one agent's process and its manager; the monitor and the recoveries over it (`Health` EXTENDS `Processes`) | StartAgent and StopAgent between the releases of the lock, SIGTERM, SIGKILL and a kill that fails, the goroutine that waits; checks, UpdateHealth and GetHealth as two steps, recovery lock, attempts |
| `FileBeat` | writer, monitor and alerts of the heartbeat file | loops that read the current context, Stop that waits, ages in half minutes |
| `Pool` | one agent's queue and workers | Dispatch with its two looks and the Initialize between them, workers, AllStats, Close; a writer of the read-write lock first announces itself, from when no reader gets in, and then takes the lock |
| `Session`, `Supervisor`, `AutoReset` | the other services | as their names say |
| `MCWorker`, `MCPlanMode` | instances for TLC | model values, small sets, symmetry |
| `MCRecovery`, `MCRuns`, `MCWs`, `MCServices`, `MCChat`, `MCRecords` | instances of several components that answer one question | the variable `part`, which never changes, says which component a behaviour is of; the others stay in their initial state |
| `WorkerProofs` | theorems of `Worker` | |
| `RunnerProofs` | theorems of `Runner` and of `AutoPlan` (EXTENDS `MCRuns`) | |
| `PlanModeProofs` | theorems of `PlanMode` | |
| `RecoveryProofs` | theorems of `Heartbeat` and `Coordinator` (EXTENDS `MCRecovery`) | |
| `ChatProofs` | theorems of `Chain`, `Memory`, `Slack`, and those of `Worker` for two resetters, by an INSTANCE of `WorkerProofs` (EXTENDS `MCChat`) | |
| `RecordsProofs` | theorems of `EventWatch`, `Feedback`, `Cleanup` (EXTENDS `MCRecords`) | |
| `ServicesProofs` | theorems of `CIWatch`, `AutoReset`, `Pool`, `Processes` and `Health` (EXTENDS `MCServices`) | |
| `WsProofs` | theorems of `Hub` (EXTENDS `MCWs`) | |

The components of one `part` module do not share state in the code either; where
they do, one module EXTENDS or uses the other (`AutoPlan` over `Runner`, `Health`
over `Processes`, `Coordinator` over `TaskQueue`, `Worker` against `Requests`).
`MCRuns` checks `Runner` twice: within `AutoPlan`, and by an INSTANCE with an issue
checker and cancelled contexts besides.

A reply, a prompt, a comment, a task's text are not modelled; an approval is a
comment that matches the keywords. Elapsed time is left out: a timer may fire
whenever it is set, a run of an agent may end at any time or last beyond any
timeout, which includes the timing the code intends.

## 3. The runs

Bounds are named constants. Properties are checked together where they share an
instance; symmetry is used in safety runs only.

| Run | Instance | Shows |
|---|---|---|
| `worker_safety` | two chats, one task, queues of one, one session restart | TypeOK; **Custody**: a request is with its sender, in one slot of one queue, with one loop, or answered; **WorkingHasRunner**: no interleaving of kills, pauses and restarts leaves the agent working for ever; **StopRequestHasRunner**: a stop request does not outlive its run; **OnlyCurrentLoops**: Restart does not overlap the loops it replaces; **StrandedOnlyByKill**: a queued request nobody will read was stranded by a kill, a restart or the end; **PromiseSpec**: the refinement of `Requests` |
| `worker_live` | two chats, the session monitor restarting once | **QueuedIsServed**, **ResetCompletes**, **QuitCompletes** |
| `worker_quit_hangs` (violation) | no requests, two restarting processes | QuitCompletes fails: finding 1 |
| `recovery_safety` | parts heartbeat and coordinator; a worker and an agent registered twice or more, a queue of one, restarts and notifications that may fail, session timeouts, two failure reports | **StopQuiesces**; **StaleCheckIsHarmless** and **StaleFailureIsHarmless**: a check or a report about a registration that was replaced changes nothing the new one shows; **RetriesAreBounded**: at most MaxRetries recoveries between heartbeats |
| `recovery_live` | the same parts; one worker with session timeouts, two callbacks that may overlap, two retries, a queue of three; two tasks, a client of the assign endpoint | **HungIsNoticed**: a run that never ends is reported to the PM or its session is killed first, although failures are reported by callbacks that overlap and overtake one another and the queue drops what does not fit; **FailedWorkIsQueued**; **CallsReturn**: Stop and HandleFailure |
| `plan` | two /plan commands, two checks, two timers | **ContextFollowsMode**, **AnnouncedWasGiven**, **ApprovalIsAnnounced** |
| `plan_auto` (violation) | one plan | ApprovedEntersAuto fails: finding 2 |
| `runs` | parts runner (three tasks in batches of up to two, two callers, all commands, checker, cancellation) and autoplan (two issues, two workflows, a poller and a caller of CheckApproval, two callers of Run, `MaxGiven` tasks, `MaxApproved` issue approved at any time before or after its watch) | RunnerTypeOK; **RunOnce** and **CompletedIsQuiet**, until a command, or a Run that found no open issue, takes the running state from a Run that goes on; **StateFollowsMode**; until a plan is stopped **OnlyApprovedPlansRun**: the approval was given since the watch, and **ApprovedIsRun**: such a plan is run (an older approval, or one of the watch's second, is ignored) |
| `chat` | parts chain (two agents, an intervention every second hop, two errors), memory (two programs, two messages, one failing write), slack (three messages, a queue of one), worker (one chat, two restarting processes, three generations) | **ThinkingIsAsked**: an agent shown as thinking has been asked, and one that works has a loop, even when two restarts overlap; **NothingIsForgotten**: the file can be read and holds what is known, a message of Slack is handled once, a request stays in one place; **TalkSettles**: chains come to rest, and what is said in Slack is handled |
| `records` | parts event (an issue, two pull requests that are closed, changed or merged, pages of one, both kinds of list), feedback (two comments, a plan started twice), cleanup (three pieces of work on one branch, a fork's pull request of its name, pages of one, two starts of the TUI) | **ReportedOnce**; **MissedForAReason**: an event, comment or merge is missed only for the reasons section 5 lists; **OnlyRiskyWorkIsLost**: unmerged work loses its worktree only if it was begun while an earlier merge of its branch was still to be handled, or after a restart or a fork's merge |
| `services` | parts health (two loops of the monitor, the operator, two processes, one of which may hang and withstand a kill), supervisor (two Starts), beat, pool (three clients, one of which names an agent there is not, one worker), reset (two goroutines), ci (two watches of one pull request, two services), session | **KeptInTurn**: a live process is the one its manager knows, but for one that a kill failed on, a task of the pool is run once and before Close returns, an agent is reset by one goroutine at a time; **WatchIsFollowed**; **StopsEnd**: what is stopped or called ends, but for the panic and the deadlock of the pool that section 5 lists; **FailuresAreSeen**: a process that is gone is started again, open issues are shown, silence and CI results are told |
| `ws` | parts hub (a connection, two chats, a server started twice, so that two loops run, buffers and history of one), tui (two connections), agent (three dials) | **HubShows**: a peer misses no chat it was promised but those its full buffer skipped, and sees them in order. Promised is the history that the handler read and what is stored since the insertion; what is stored between the two only while one loop has to do both; **NoSendOnClosed**; **TuiSettles**: after a loss or a Disconnect the goroutines of the TUI's client end and it does not stay connected (that every TCP connection is closed is not covered); **AgentKeeps**: the same of the agent's client, and a dropped connection is dialled again, without a limit of attempts |

Why the bounds are enough. The races are between two actors, so two requests of
a kind, two checks, two reports, two callers, two loops of one monitor are there
wherever two can overlap. Queues and pages of one are full after one, which reaches
the same code as ten or thirty. A second generation, connection or Start is what a
first replacement needs; a third is there where replacements overlap (workers) or a
lost connection is replaced by one that is closed (agent client). Times are
counted in half seconds and go on just long enough for two checks with an event
before, between and after. RetryLimit and MaxRetries: one attempt in
one of the two recovery runs and two in the other, so that the first and the last
count occur and, in `recovery_live`, callbacks of different counts overlap. That
run has one worker: others meet it only in the event queue and at the session
monitor, which waits for a run that it has killed and which no fairness obliges to
come. Its queue of three is larger than the callbacks that overlap, as ten is than
those the delays leave time for, and still fills. `MaxChanges`, `Strays`, `Others`,
`Stubborn` (the processes that may hang and withstand a kill) and `MaxApproved` leave
one of what meets the others. `FailBound`, `MaxSaid`, Threshold and the like stop counting
where the code stops distinguishing. Not reached: two workers of one pool, more
than two failures of a request in a row, a hundred results of CI.

`CHECK_DEADLOCK FALSE` stands where the system may stop: the bounded number of
requests, plans, chats, tasks or ticks is used up, or (`worker_quit_hangs`, and part
worker of `chat`) it hangs as in finding 1. Symmetry is used in safety runs only:
chats in `worker_safety`, failure reports in `recovery_safety`.

### Fairness

Goroutines that can run do run (weak fairness of each goroutine's steps): Go's
scheduler is preemptive, and every blocking call that is modelled as a step has a
timeout in the code (agent runs, pings, GitHub calls, backoffs). Strong fairness
is assumed in these places only:

- `Worker`: RestartLaunch, because a `sync.RWMutex` does not starve a writer;
  MonitorExit, and in `Heartbeat` LoopExit, because a `select` whose Done
  channel stays ready takes it some time.
- `PlanMode`, `AutoPlan`: fetching the comments of an issue does not fail for
  ever, and a timer gets a free checking goroutine.

- `MCServices`: LockRecovery of `Health`, because a `sync.Mutex` does not starve the
  loop that waits for it.

`recovery_live` assumes of the queue of the heartbeat, instead of strong fairness, that
the TUI has shown its events when the monitor's next tick comes (`Drained`): it looks
every 100 ms, and ticks are 30 s apart. `recovery_safety` does not assume it. Each
callback of the heartbeat goes on by itself (weak fairness for each).

The modules of one `part` state the fairness of their goroutines in the MC module, as
weak fairness conjoined with `part = ...`, so that it says nothing of the others. In
`Chain` the workers answer, as `worker_live` shows of requests that no kill strands; the
answers that are errors are finitely many (`MaxErrors`), since each of them may ask
again. In the clients a ping is due again and again, so that a dead connection is
noticed; the network is not obliged to let a dial succeed.

The owner is never obliged to do anything, and a run of an agent need not end in
`Heartbeat`.

## 4. What is proved

Every invariant and every action property that a passing run checks is also a
theorem of its specification, for every value of the constants that satisfies the
named assumption of its module. The assumptions say what the code says of its
numbers (a capacity is positive, a bound is a natural number), that sets of
goroutines, agents or requests which are counted are finite, and that model values
that stand for different things differ. Where a run's module composes components
(`part`), the theorem covers all of them.

The invariants below are inductive and were checked by TLC on the instances of the
runs before they were proved. Each proof shows first that they hold initially, then
goes through the actions, naming the conjuncts an action can disturb.

`WorkerProofs` (any sets of requests, any channel capacity, any number of
generations):

| Theorem | Says | Inductive invariant |
|---|---|---|
| `TypeCorrect` | TypeOK | TypeOK and `gen + Claims <= MaxGen`: a Restart in progress has reserved the generation it will create |
| `CustodyHolds` | Custody, with one or two restarting processes | TypeOK with Custody itself: its five parts need one another, since a loop may take a request only because the queue holds it once |
| `PromiseKept` | `Worker` implements `Requests` | Custody: only the holder of an unanswered request answers it |
| `WorkingEnds` | WorkingHasRunner | with StopRequestHasRunner and the fact that loops of future generations are unborn, so a launch overwrites none that runs |
| `StopRequestIsSpent` | StopRequestHasRunner | the same |
| `RestartReplacesLoops` | OnlyCurrentLoops, when at most one process restarts | only it is on the way through Restart; while it replaces the context no loop is alive; old generations are cancelled |
| `OneResetterIsSafe` | StrandedOnlyByKill, when at most one process restarts | the same, and a living generation has both its loops |

`RecoveryProofs` (any sets of workers, agents, tasks and overlapping calls, any
limits; `RecoveryAssumption`):

| Theorem | Says | Inductive invariant |
|---|---|---|
| `MonitorStops` | StopQuiesces | LoopInTurn: the loop has a check in hand exactly while it pings, has names left only within a pass, and is gone when the monitor is new or stopped |
| `RecoveriesAreBounded` | RetriesAreBounded | RetryInv: of every record, the recoveries tried plus the reports that are about to try are at most the failures counted and at most the limit. A report counts before its backoff and tries after it, so the reports in between must be counted: their number is the cardinality of a set, which the lemmas on Pending follow through each step |
| `StaleChecksAreHarmless` | StaleCheckIsHarmless (action property) | follows from MonitorInv: the record of a check is written by the registration it was read from |
| `StaleFailuresAreHarmless` | StaleFailureIsHarmless (action property) | follows from RetryInv: HandleFailure writes through the pointer it took, and a record number is never given twice |

`PlanModeProofs` (any number of plans and timers, any checks; `PlanModeBounds`):

| Theorem | Says | Inductive invariant |
|---|---|---|
| `AnnouncementsAreTrue` | AnnouncedWasGiven | an approval goes through three hands: the check that saw it, the message the check sent, the line the TUI shows. GivenInv says that none of them holds one that was not given on its issue |
| `ContextIsKept` | ContextFollowsMode | itself: it is inductive, whichever late answer arrives |

`RunnerProofs` (any callers, number of tasks, commands, issues, workflows;
`RunnerBounds`, `AutoPlanBounds`):

| Theorem | Says | Inductive invariant |
|---|---|---|
| `RunnerTypeCorrect` | RunnerTypeOK | with HasTask: who starts or executes a task has one |
| `TasksRunOnce` | RunOnce: a task is executed at most once | Exclusive, as long as the running state was not taken from a Run that goes on: without it nobody is inside Run, and with it at most one caller is; what that caller picked is still pending; a task not yet marked was not executed. FutureIsNone: nobody holds a task that was not appended yet |
| `CompletedRunnerIsQuiet` | CompletedIsQuiet | the same: a task marked running has a caller that executes it, who is inside Run |
| `PlanImplementsRunner` | every behaviour of `AutoPlan` is one of `Runner` | the runner's own: a step of the handler appends a task or is a stutter, and it calls Run as one more caller |
| `PlansRunOnce` | RunOnce of the tasks that plans became | carried over by the refinement |
| `PlanStateFollowsMode` | StateFollowsMode | PlanInv: with it, that a plan is posted only while the handler is idle and in plan mode, and an idle handler has no issue |
| `OnlyApprovedAreGiven` | OnlyApprovedPlansRun | GivenInv: until a plan is stopped, what a check or a poll has found, and the issue of every task in the list, was approved since its watch began |

`Runner`'s history variable `freed` turns TRUE exactly when a command, or a Run
that found no open issue, takes the running state away; what then goes wrong is in
the table of section 5.

`ChatProofs` (any finite set of agents, any programs and numbers of messages;
`ChatAssumption`):

| Theorem | Says | Inductive invariant |
|---|---|---|
| `ThinkingMeansAsked` | ThinkingIsAsked | ChainInv: the bag of commands under way has positive counts only, so that an answer takes one of them away and leaves the others. For the worker, WorkingHasRunner of `WorkerProofs`, which holds for two resetters as well |
| `MemoryLasts` | NothingIsForgotten | MemoryInv (Saved): as long as two programs never ran at once, one runs at most, the temporary file between its write and its rename is its own, and a program with nothing to save has what it knows in the file. SlackInv (InOneHand): until two goroutines race for the slice, a message that was accepted is counted once among the queue, the collector, the pending ones and those handed over. For the worker, Custody |

`RecordsProofs` (any issues, comments, pieces of work, page sizes;
`NumbersAssumption`: comments and pieces of work are numbered from 1, so that 0 can
mean none, and a fork's pull request is not one of the works):

| Theorem | Says | Inductive invariant |
|---|---|---|
| `NothingIsReportedTwice` | ReportedOnce | EventInv: what was printed is marked as seen; FeedbackInv: a comment is in one place (found, sent, given), and one that was found is not later than the time its check will write; CleanupInv: a merge that was handled lies before the cursor |
| `NothingIsMissedButForAReason` | MissedForAReason | the same with NothingSlips, CommentsSlipNot and MergesSlipNot: what lies before the cursor and was not reported is still in the hand of the check, or has a reason. The reasons are those of section 5: among them the page that all closed pull requests fill and a list that does not say what was merged |
| `UnmergedWorkIsKept` | OnlyRiskyWorkIsLost | CleanupInv (WorkInTurn): one piece of work is unmerged at a time and the worktree is its own; unless it is risky (a fork's merge makes it so), the TUI neither has in hand nor would ask for a merge from before it |

`ServicesProofs` (any callers, loops, clients, tasks, handlers, pull requests;
`ServicesAssumption`: among them, a reset may take twice its timeout and still end
within the cooldown, as the defaults of the code have it):

| Theorem | Says | Inductive invariant |
|---|---|---|
| `WatchesAreFollowed` | WatchIsFollowed | WatchInv: a registered pull request has a follower of its own, which has neither ended nor been cancelled unless its context ended |
| `ServicesKeepTurn` | KeptInTurn, for the three parts it speaks of | OwnerInv: only the loop with the recovery lock starts the agent, who launches a process or waits for one holds the manager's lock, a launch finds nothing alive, a live process is the one in the table. DrainInv: a task is in one place; a worker that is done has seen the channel closed and empty. TurnInv: the time since the last attempt is at most the time its goroutine has been at work, which the cooldown exceeds, so no second one begins |

`WsProofs` (any connections, buffers, history, starts; `HubAssumption`):

| Theorem | Says | Inductive invariant |
|---|---|---|
| `NoClosedChannelIsSentOn` | NoSendOnClosed | CloseInv: a client is in the set from its registration to its departure and its channel is closed only after that; while a pass sends, none of those it still has to serve is closed |
| `NoChatIsMissed` | HubShows | GapInv: the history is the tail of what was said; what was stored since a client is in the set is shown, in its buffer, or still to be passed on, unless its buffer refused it; what was stored before it read the history is in the history it was given, and a loop that has a registration in hand stores nothing before the insertion. OrderInv: while the server was started once, the hub's queue, each buffer and each peer have the chats in rising order |

Only model-checked:

- The liveness properties (QueuedIsServed, ResetCompletes, QuitCompletes,
  HungIsNoticed, FailedWorkIsQueued, CallsReturn, ApprovalIsAnnounced, ApprovedIsRun,
  TalkSettles, StopsEnd, FailuresAreSeen, TuiSettles, AgentKeeps): fairness and ENABLED
  are beyond the prover. `TUIClient`, `AgentClient`, `FileBeat`, `Session` and
  `Supervisor` have only these.
- The type invariants that the modules state of their own variables, except those of
  `Worker` and `Runner`. The proofs have what they need of them as ...Types.
- The refinement of other abstractions: `Requests` is the one abstract specification.

There is no recursive operator; what a fold or a recursive function computes for
every input would need induction over data, which the prover does not have either.

## 5. Findings and divergences

Two runs check a claim of the code that the code does not keep (`findings`):

1. **Quitting hangs** (`worker_quit_hangs`). /reset and the session monitor both
   kill a worker; the first through Restart starts new loops; the second then
   waits in `w.wg.Wait()` ("Wait for old goroutines to finish",
   `worker.go:542`) for the new ones, which nobody cancels. StopAll waits for the
   monitor, so the program does not quit. The other way round, the TUI's update
   loop is the one that waits, until the next session timeout frees it.
2. **An approval does not lead to auto mode** (`plan_auto`). The handler of
   planApprovedMsg prints "Autoモードに移行します。" (`tui.go:1099`) and does not
   enter the mode.

The following properties are stated in the modules with the words they come from
and were refuted by TLC while the modules were written; no run is kept for them.
The instance named is enough to see each.

| Property | What the code does | Instance |
|---|---|---|
| `Worker!ResumeRevives` (`control/handler.go:75`) | Pool.Resume reports success for a killed worker, so handleResume never gets to Restart: available, but without loops | one chat |
| `Worker!PauseTakesEffect` (`worker.go:143`) | a pause between IsWorking and StartTask (`worker.go:221`, `:237`) is overwritten | one chat |
| `Worker!PauseLasts` (`worker.go:213`) | the session monitor's Restart resumes an agent its owner stopped | no requests, one restart |
| `Worker!ResumeTakesEffect` (`control/handler.go:84`) | a resume while working leaves the stop request (`state.go:133`) | one chat |
| `Worker!KillTakesEffect` (`worker_test.go:303`) | the killed run's deferred CompleteTask makes the agent available (`state.go:112`) | one chat |
| `Worker!ChatAnsweredAtOnce` (`worker.go:184`) | the chat loop runs the agent itself; chats behind it wait | two chats |
| `Worker!OnlyCurrentLoops` with two resetters (`worker.go:542`) | both restarts pass wg.Wait and leave two pairs of loops | no requests, three generations |
| `Worker!EveryRequestAnswered` (`worker.go:166`) | a request queued on a killed or replaced channel is never answered | one chat |
| `Heartbeat!HungIsNoticed` without "or killed" (`tui.go:359`) | a session is killed after 3 minutes (`worker.go:393`), long before the 10 minutes of the ping; the agent is then available again although its run goes on, so pings succeed and nothing is reported | as `recovery_live` |
| `Heartbeat!RecoveredIsResponsive` (`recovery/handler.go:89`) | the TUI's restart function does nothing for a working agent and reports success | as `recovery_live` |
| `Heartbeat!StopIsRespected` (`tui.go:364`) | a recovery in its retry delay revives an agent stopped meanwhile (`tui.go:397`) | as `recovery_live` |
| `Coordinator!FailedMeansExhausted` (`coordinator.go:23`) | a heartbeat in the backoff resets the count, the report still marks the agent failed | one report |
| `Coordinator!RecoveringIsInProgress` (`coordinator.go:21`) | a failed recovery below MaxRetries leaves the agent recovering | one report |
| `Coordinator!UnregisterLasts` (`coordinator.go:130`) | a recovery registers an agent unregistered meanwhile | one report |
| `Coordinator!AnnouncedIsQueued` (`coordinator.go:240`) | errors of queue.Add are ignored, the PM is told all the same | two agents, a client |
| `Coordinator!AssignsPending` (`queue.go:131`) | Assign takes a task whatever its status | two clients |
| `PlanMode!NoApprovalIsLost` (`tui.go:1069`) | a check started for another issue consumes the approval (`tui.go:2621`) | two plans |
| `PlanMode!AutoNeedsApproval` (`docs/configuration.md:126`) | /auto enters auto mode with no plan | one plan |
| `PlanMode!AnnouncedOnce` (`watcher.go:142`) | two overlapping checks report the same approval | two checks, MaxSaid 2 |
| `PlanMode!RollbackIsOwn` (`tui.go:1047`) | a late failure stops the mode entered since | one plan |
| `PlanMode!EveryApprovalCounts` (`mode/plan.go:167`) | an approval given before, or in the second in which, the watch begins is ignored; `AutoPlan` uses the same watcher and ignores it too | one plan |
| `Runner!SubmittedIsRun` (`runner.go:239`) | a task added while the active Run is on its way out stays pending | two callers |
| `Runner!StartsWhileRunning` (`runner.go:371`) | Run does not look at the state again | one caller, stop |
| `Runner!RunOnce` after a stop (`runner.go:245`) | a second Run is accepted, both take the same task | two callers, stop |
| `Runner!CompletedIsQuiet` with a checker (`runner.go:62`) | the first Run's deferred function completes the state of the second | two callers, checker |
| `AutoPlan!OnlyApprovedRuns` after a stop (`auto_plan.go:154`) | the task added is of whatever plan is current, or of issue 0 | one caller of CheckApproval |
| `Hub!ShownOnce` (`ws/server.go:109`) | a chat stored between the insertion and the reading of the history comes with both | one connection |
| `Hub!NothingBetween` (`ws/server.go:109`, `hub.go:35`) | the handler reads the history after the hand-over and before the insertion; what a second loop stores and passes on between the two is missed | one connection, two starts |
| `TUIClient!ReconnectLasts` (`ws/tuiclient.go:357`) | `done` is closed once and for all: a client that reconnects after a loss has goroutines that end at once, and disconnects again | two connections |
| `EventWatch!NothingMissed` (`event_watcher.go:57`) | see below | as `records` |
| `Cleanup!NoWorkIsLost` (`worktree/worktree.go:45`) | a branch name used again, a fork's pull request of that name (`watcher.go:110` keeps only the ref), a restart (which looks back 24 hours), a worktree of another project below `/tmp/maxam`: their worktrees are removed | as `records` |

RunOnce, CompletedIsQuiet, OnlyApprovedPlansRun and ApprovalIsAnnounced are checked by
the runs with the exception made explicit, so that what does hold is known as well.
The newer modules do the same: the exceptions in their properties are what the code
does wrong or leaves open, and were found by TLC refuting the property without them.

WebSocket (`Hub`, `TUIClient`, `AgentClient`):

- A client that its full buffer made miss a chat is never told (`client.go:127`).
- A connection that ends before the hub has inserted its client is unregistered first and
  inserted then: it stays in the set, and its channel is never closed (`hub.go:35`, `:44`).
- A goroutine of the TUI's client that notices the loss of the old connection late closes
  the newer one (`tuiclient.go:350`).
- The pinging goroutine of a lost agent connection goes on with its successor, so
  they pile up; it and Send write without a common mutex (`agent_client.go:287`).
- Connect of the agent client looks at `closed` before the dial only
  (`agent_client.go:113`); a connection made after Close is closed by its own pump.

Services (`Health`, `Supervisor`, `FileBeat`, `Pool`, `AutoReset`, `CIWatch`, `Session`):

- Two StartAgents at once both launch a process, and one is forgotten
  (`procmgr/manager.go:107`); a start that is past the check of `running` survives Stop
  (`:85`); a stopped process may show as failed (`:243`).
- The health monitor's loop reads the stop channel anew (`healthmgr/monitor.go:126`):
  Stop and Start in between leave two loops, and both recover an agent, one after the
  other; a loop whose context ends sets `running` to false although another one runs.
- Stop in the middle of the supervisor's Start leaves the issue watcher running
  (`monitor/supervisor.go:101`); zero open issues are never told
  (`issuemgr/watcher.go:128`); an older number may be shown after a newer one.
- A Start that fails leaves the heartbeat writer "running" without a loop
  (`writer.go:101`); a Start while Stop waits gives the loop a new context and Stop
  hangs (`file_monitor.go:154`).
- A Dispatch that looked before Close sends on a closed channel and panics
  (`pool.go:193`). AllStats takes the read lock twice (`:254`) and deadlocks with a Close,
  and with a Dispatch that initialises (`:103`), which waits between the two.
- A kill that fails marks the process as failed, and the next start launches another one
  beside it (`procmgr/manager.go:212`).
- ResetState while a reset runs makes its end dereference nil (`auto_reset.go:169`).
- A CI watch that ends stops whatever watch has its number by then
  (`ci_watcher.go:184`); a context that ends leaves its pull request registered; a
  skipped check counts as failed; a stopped service may drop the result it has taken.
- `MaxRestarts` n gives n-1 restarts (`session.go:33`, `:97`); a function that timed out
  goes on beside the next one, and its result may be lost.

Chat (`Chain`, `Memory`, `Slack`):

- The agent whose turn mei takes stays "thinking" (`tui.go:1332`), and so does one that
  is killed while it is asked (`:1350`).
- The issue watcher asks amara without marking her (`tui.go:1157`), and the follow-up
  asks the PM even if the PM has been asked already.
- Commands read the messages that Update writes, without a lock.
- TrimToSize keeps twice the number of messages shown, of whatever size ("Keep slightly
  more than displayed", `tui.go:1846`); when none is shown it empties the history.
- Two programs of one user write one temporary file: the history may be torn or lose
  what the other one saved (`history.go:122`).
- pendingMsgs has no lock (`slack/client.go:221`): messages may be lost or handled
  twice; a batch goes to the agent its first mention names; two bots that name each
  other never stop.

Records (`EventWatch`, `Feedback`, `Cleanup`), the reasons to miss something:

- It came after its request and before the time of the check was taken
  (`event_watcher.go:86`, `feedback.go:278`, `watcher.go:63`), or in the same second.
- More than a page came before it in the list: of events of its kind, or where merges
  are asked for of all closed pull requests, merged or not, by their last change
  (`event_watcher.go:213`, `watcher.go:75`). A comment on closed ones is enough to push
  a merge off the page.
- `EventWatch` only: it was marked as seen and then a later request of the check failed
  (`:74`), or the check was the first one, which prints nothing.
- `EventWatch` only: it is a merge, and GitHub's list does not fill `merged`
  (`event_watcher.go:230`; the documentation promises it for a single pull request).
  Then no merge is ever printed. `Cleanup` decides by `merged_at`, which lists have.

## 6. Plan

Done in this order, the most important behaviour first: worker, heartbeat and
recovery, coordinator with its queue, plan mode, runner, plan handler; then the
WebSocket hub and clients, the services, the chat with its memory, the watchers of
GitHub. The runs were merged so that each asks one question.

Next:

1. Refinements: `Chain` over `Requests`, the worker's promise in the place of the
   answers that are assumed; what the hub promises a peer, and what the coordinator
   promises the PM, as abstract specifications of their own.
2. The type invariants of the other modules as theorems.
3. Algorithms against reference definitions: the delays of the retry policy, mention
   parsing, review verdicts (a text with "NOT APPROVED" contains APPROVED).

## 7. Not modelled, and why

- The subprocess of an agent, GitHub, Slack, the file system: outside; they
  appear as nondeterministic outcomes.
- Wording, prompts, layout, keys, completion, logging, configuration, member files,
  the flags of the command line: no state that another component's correctness
  depends on.
- The older line-based chat (`cmd/maxam/chat.go`) asks one agent after the other on one
  goroutine.
- The review and analysis cycles go through a fixed list of prompts on one
  goroutine; ProposalWorkflow and TransitionManager have no caller outside tests.
- GitHub client, webhook, task service, status labels, usage: thin wrappers without
  state.
- `ResetState` and `ResetAll` of the recovery handler, CheckFeedback called by hand,
  or workers added while the pool runs: no caller in the program.
- The system with several agents or pull requests where the code treats each by
  itself: the modules have one (`Health`, `FileBeat`, `Pool`, `AutoReset`).
- Data races are modelled where a write is made without the lock it belongs to
  and something depends on it (`Coordinator`, the state "torn"; `Slack`, `raced`);
  elsewhere steps are the critical sections of the code.
