----------------------------- MODULE Coordinator -----------------------------
(***************************************************************************)
(* internal/coordinator with the queue it hands tasks to and the API and   *)
(* client through which the tasks of a failed agent are given to another.  *)
(*                                                                         *)
(* HandleFailure locks the coordinator only to count the failure: it then  *)
(* keeps a pointer to the agent's record through a backoff and a recovery, *)
(* while heartbeats, registrations and other failures go on.  The records  *)
(* of agent a are info[a][1], info[a][2], ... and current[a] is the one in *)
(* the map (0 when the agent is not registered).                           *)
(***************************************************************************)
EXTENDS Naturals, TaskQueue

CONSTANTS Calls,      \* concurrent calls of HandleFailure
          RetryLimit, \* Config.MaxRetries
          Clients,    \* callers of handover.Client.Assign, one call each
          MaxTries,   \* retry.Config.MaxAttempts
          MaxRecords, \* bound: records of an agent somebody points to
          FailureBound \* bound: failures counted in a record

VARIABLES info,    \* the records of the agents
          current, \* the record of each agent in the coordinator's map
          call,    \* where each call of HandleFailure is
          taskStore, \* the store of the task queue
          work,    \* who works on each task: what GetTasksFunc reports
          ask,     \* where each client's Assign is
          wire     \* the assign requests the server has not handled yet

callVars == <<info, current, call>>
taskVars == <<taskStore, work>>
wireVars == <<ask, wire>>
vars == <<info, current, call, taskStore, work, ask, wire>>

Records == 1 .. MaxRecords
\* "torn" is what two words of different strings make when writes race.
States == {"none", "healthy", "unresponsive", "recovering", "failed", "torn"}
\* tried is history: the recoveries made for failures counted since a reset.
Blank == [state |-> "none", fails |-> 0, tried |-> 0]
Fresh == [state |-> "healthy", fails |-> 0, tried |-> 0]
\* fresh is history: the record was not reset since the call counted in it.
Idle == [pc |-> "idle", agent |-> NoAgent, rec |-> 0, count |-> 0,
         tasks |-> {}, left |-> {}, fresh |-> FALSE]

Init ==
    /\ info = [a \in Agents |-> [k \in Records |-> Blank]]
    /\ current = [a \in Agents |-> 0]
    /\ call = [c \in Calls |-> Idle]
    /\ taskStore = NewStore
    /\ work \in [Tasks -> Agents]
    /\ ask = [c \in Clients |-> [pc |-> "idle", task |-> "none", to |-> NoAgent, try |-> 0]]
    /\ wire = {}

\* The records of agent a that somebody points to, and the memory without the others.
Held(a, k) == k = current[a] \/ \E c \in Calls : call[c].agent = a /\ call[c].rec = k
Collected(memory) ==
    [a \in Agents |-> [k \in Records |-> IF Held(a, k)' THEN memory[a][k] ELSE Blank]]
\* The record a new registration of a gets.
New(a, k) == ~Held(a, k) /\ \A j \in Records : ~Held(a, j) => k <= j

----------------------------------------------------------------------------
(* Registration and heartbeats *)

\* RegisterAgent replaces the record of an agent that has one.
RegisterAgent(a) ==
    /\ \E k \in Records :
          /\ New(a, k)
          /\ current' = [current EXCEPT ![a] = k]
          /\ call' = call
          /\ info' = Collected([info EXCEPT ![a][k] = Fresh])
    /\ UNCHANGED <<taskVars, wireVars>>

UnregisterAgent(a) ==
    /\ current[a] # 0
    /\ current' = [current EXCEPT ![a] = 0]
    /\ call' = call
    /\ info' = Collected(info)
    /\ UNCHANGED <<taskVars, wireVars>>

\* HandleHeartbeat registers an agent that is not, and resets one that is;
\* calls are the calls of HandleFailure as it leaves them.
Beat(a, calls) ==
    \E k \in Records :
        /\ k = current[a] \/ (current[a] = 0 /\ New(a, k))
        /\ current' = [current EXCEPT ![a] = k]
        /\ call' = [c \in Calls |-> IF calls[c].agent = a /\ calls[c].rec = k
                                    THEN [calls[c] EXCEPT !.fresh = FALSE] ELSE calls[c]]
        /\ info' = Collected([info EXCEPT ![a][k] = Fresh])

HandleHeartbeat(a) == Beat(a, call) /\ UNCHANGED <<taskVars, wireVars>>

----------------------------------------------------------------------------
(* HandleFailure *)

At(c, pc) == call[c].pc = pc
Goto(c, pc) == call' = [call EXCEPT ![c].pc = pc]
Return(c) == call' = [call EXCEPT ![c] = Idle]
SetState(c, state) ==
    info' = Collected([info EXCEPT ![call[c].agent][call[c].rec].state = state])

\* Mutant: the failure count is read before it is incremented.
FailureCountBefore(c, a) ==
    /\ At(c, "idle") /\ current[a] # 0
    /\ LET k == current[a]
           n == info[a][k].fails + 1
       IN /\ n <= FailureBound
          /\ info' = [info EXCEPT ![a][k].state = "unresponsive", ![a][k].fails = n]
          /\ call' = [call EXCEPT ![c] =
                 [Idle EXCEPT !.pc = IF n - 1 <= RetryLimit THEN "mark" ELSE "giveup",
                              !.agent = a, !.rec = k, !.count = n - 1, !.fresh = TRUE]]
    /\ UNCHANGED <<current, taskVars, wireVars>>

\* The locked part.  A failure of an agent that is not registered is ignored.
FailureCount(c, a) ==
    /\ At(c, "idle") /\ current[a] # 0
    /\ LET k == current[a]
           n == info[a][k].fails + 1
       IN /\ n <= FailureBound
          /\ info' = [info EXCEPT ![a][k].state = "unresponsive", ![a][k].fails = n]
          /\ call' = [call EXCEPT ![c] =
                 [Idle EXCEPT !.pc = IF n <= RetryLimit THEN "mark" ELSE "giveup",
                              !.agent = a, !.rec = k, !.count = n, !.fresh = TRUE]]
    /\ UNCHANGED <<current, taskVars, wireVars>>

\* The state, a string, is set without the lock: a write of the record made
\* since the failure was counted may race with this one.  The backoff starts.
Raced(c) == LET r == info[call[c].agent][call[c].rec]
            IN r.state # "unresponsive" \/ r.fails # call[c].count
FailureMark(c) ==
    /\ At(c, "mark")
    /\ Goto(c, "backoff") /\ current' = current
    /\ \/ SetState(c, "recovering")
       \/ Raced(c) /\ SetState(c, "torn")
    /\ UNCHANGED <<taskVars, wireVars>>

FailureCancelled(c) ==
    /\ At(c, "backoff")
    /\ Return(c) /\ current' = current
    /\ info' = Collected(info)
    /\ UNCHANGED <<taskVars, wireVars>>

\* After the backoff: RecoverFunc is called, and succeeds or not.
FailureRecover(c) ==
    /\ At(c, "backoff")
    /\ \/ Goto(c, "recovered")
       \/ call[c].count >= RetryLimit /\ Goto(c, "giveup")
       \/ call[c].count < RetryLimit /\ Return(c)
    /\ current' = current
    /\ info' = Collected(IF call[c].fresh
                         THEN [info EXCEPT ![call[c].agent][call[c].rec].tried = @ + 1]
                         ELSE info)
    /\ UNCHANGED <<taskVars, wireVars>>

FailureRecovered(c) ==
    /\ At(c, "recovered")
    /\ Beat(call[c].agent, [call EXCEPT ![c] = Idle])
    /\ UNCHANGED <<taskVars, wireVars>>

\* Mutant: the agent is looked up by its name again.
FailureGiveUpByName(c) ==
    /\ At(c, "giveup")
    /\ LET a == call[c].agent
       IN IF current[a] = 0 THEN info' = info
          ELSE info' = [info EXCEPT ![a][current[a]].state = "failed"]
    /\ Goto(c, "tasks")
    /\ UNCHANGED <<current, taskVars, wireVars>>

FailureGiveUp(c) ==
    /\ At(c, "giveup")
    /\ Goto(c, "tasks") /\ current' = current
    /\ SetState(c, "failed")
    /\ UNCHANGED <<taskVars, wireVars>>

\* handoverTasks: the tasks are listed, then added one by one, errors ignored.
HandoverList(c) ==
    /\ At(c, "tasks")
    /\ LET tasks == {t \in Tasks : work[t] = call[c].agent}
       IN call' = [call EXCEPT ![c].pc = "handover", ![c].tasks = tasks, ![c].left = tasks]
    /\ UNCHANGED <<info, current, taskVars, wireVars>>

\* Mutant: the handover stops at the first task the store refuses.
HandoverAddOrStop(c) ==
    /\ At(c, "handover")
    /\ \E t \in call[c].left :
          /\ taskStore' = Add(taskStore, t, call[c].agent)
          /\ call' = [call EXCEPT ![c].left = IF Stored(taskStore, t) THEN {} ELSE @ \ {t}]
    /\ UNCHANGED <<info, current, work, wireVars>>

\* Mutant: the handover tries a refused task again until it is accepted.
HandoverAddRetries(c) ==
    /\ At(c, "handover")
    /\ \E t \in call[c].left :
          /\ taskStore' = Add(taskStore, t, call[c].agent)
          /\ call' = [call EXCEPT ![c].left = IF Stored(taskStore, t) THEN @ ELSE @ \ {t}]
    /\ UNCHANGED <<info, current, work, wireVars>>

HandoverAdd(c) ==
    /\ At(c, "handover")
    /\ \E t \in call[c].left :
          /\ taskStore' = Add(taskStore, t, call[c].agent)
          /\ call' = [call EXCEPT ![c].left = @ \ {t}]
    /\ UNCHANGED <<info, current, work, wireVars>>

\* The project manager is told "Tasks queued for reassignment."
HandoverNotify(c) ==
    /\ At(c, "handover") /\ call[c].left = {}
    /\ Return(c) /\ current' = current
    /\ info' = Collected(info)
    /\ UNCHANGED <<taskVars, wireVars>>

HandleFailure(c) ==
    \/ FailureMark(c) \/ FailureCancelled(c) \/ FailureRecover(c) \/ FailureRecovered(c)
    \/ FailureGiveUp(c) \/ HandoverList(c) \/ HandoverAdd(c) \/ HandoverNotify(c)

----------------------------------------------------------------------------
(* POST /api/tasks/{id}/assign and the client that retries it *)

Request(c, t, to, n) == [client |-> c, task |-> t, to |-> to, try |-> n]

AssignCall(c, t, to) ==
    /\ ask[c].pc = "idle"
    /\ ask' = [ask EXCEPT ![c] = [pc |-> "waiting", task |-> t, to |-> to, try |-> 1]]
    /\ wire' = wire \cup {Request(c, t, to, 1)}
    /\ UNCHANGED <<callVars, taskVars>>

\* HandleTaskAssign.  Its answer reaches the client, or the client has given
\* this request up, or the answer is lost.  The agent that is given the task
\* works on it from then on.
AssignServe(m) ==
    /\ m \in wire
    /\ wire' = wire \ {m}
    /\ taskStore' = Assign(taskStore, m.task, m.to)
    /\ work' = IF Stored(taskStore, m.task) THEN [work EXCEPT ![m.task] = m.to] ELSE work
    /\ \/ /\ ask[m.client].pc = "waiting" /\ ask[m.client].try = m.try
          /\ ask' = [ask EXCEPT ![m.client].pc =
                 IF Stored(taskStore, m.task) THEN "assigned" ELSE "notfound"]
       \/ ask' = ask
    /\ UNCHANGED callVars

\* The request never reaches the server.
AssignLost(m) ==
    /\ m \in wire
    /\ wire' = wire \ {m}
    /\ UNCHANGED <<ask, callVars, taskVars>>

\* A timeout or a refused connection: retried until MaxTries requests were made.
AssignTimeout(c) ==
    /\ ask[c].pc = "waiting"
    /\ LET n == ask[c].try + 1
       IN IF n <= MaxTries
          THEN /\ ask' = [ask EXCEPT ![c].try = n]
               /\ wire' = wire \cup {Request(c, ask[c].task, ask[c].to, n)}
          ELSE /\ ask' = [ask EXCEPT ![c].pc = "error"]
               /\ wire' = wire
    /\ UNCHANGED <<callVars, taskVars>>

\* What the other users of the store do with a stored task.
CloseTask(t) ==
    /\ Stored(taskStore, t)
    /\ \/ taskStore' = Close(taskStore, t, "completed")
       \/ taskStore' = Close(taskStore, t, "failed")
       \/ taskStore' = Remove(taskStore, t)
    /\ UNCHANGED <<work, callVars, wireVars>>

Next ==
    \/ \E a \in Agents : RegisterAgent(a) \/ UnregisterAgent(a) \/ HandleHeartbeat(a)
    \/ \E c \in Calls, a \in Agents : FailureCount(c, a)
    \/ \E c \in Calls : HandleFailure(c)
    \/ \E c \in Clients, t \in Tasks, to \in Agents : AssignCall(c, t, to)
    \/ \E m \in wire : AssignServe(m) \/ AssignLost(m)
    \/ \E c \in Clients : AssignTimeout(c)
    \/ \E t \in Tasks : CloseTask(t)

Spec == Init /\ [][Next]_vars

\* A call in progress goes on: the backoff is a timer and RecoverFunc and
\* NotifyFunc return.
Fairness == \A c \in Calls : WF_vars(HandleFailure(c))
FairSpec == Spec /\ Fairness

----------------------------------------------------------------------------
(* Properties *)

\* Every variable keeps its type.
TypeOK ==
    /\ info \in [Agents -> [Records ->
                       [state : States, fails : 0 .. FailureBound, tried : Nat]]]
    /\ current \in [Agents -> 0 .. MaxRecords]
    /\ call \in [Calls -> [pc : {"idle", "mark", "backoff", "recovered", "giveup",
                                 "tasks", "handover"},
                           agent : Agents \cup {NoAgent}, rec : 0 .. MaxRecords,
                           count : 0 .. FailureBound, tasks : SUBSET Tasks,
                           left : SUBSET Tasks, fresh : BOOLEAN]]
    /\ taskStore \in [Tasks -> Entries]
    /\ work \in [Tasks -> Agents]
    /\ \A c \in Clients : ask[c].try \in 0 .. MaxTries
    /\ \A m \in wire : m.try \in 1 .. MaxTries

\* Between two heartbeats of an agent, the failures counted there lead to at
\* most RetryLimit recoveries, however many calls of HandleFailure overlap:
\* "MaxRetries int // Maximum retry attempts" (coordinator.go, Config).
RetriesAreBounded ==
    \A a \in Agents, k \in Records : info[a][k].tried <= RetryLimit

\* A failure of an agent that has been registered anew since neither marks nor
\* fails its new record (HandleFailure writes through the record it counted in).
Shown(a) == IF current[a] = 0 THEN info[a] ELSE info[a][current[a]]
StaleFailureIsHarmless ==
    [][\A c \in Calls :
          LET a == call[c].agent
          IN (/\ call[c].pc \in {"mark", "giveup"}
              /\ call'[c].pc # call[c].pc
              /\ current[a] # 0 /\ current[a] # call[c].rec)
             => Shown(a)' = Shown(a)]_vars

\* A task whose agent is given up gets into the queue (handoverTasks adds all
\* the tasks, whatever becomes of the ones before).
FailedWorkIsQueued ==
    \A c \in Calls, t \in Tasks :
        (At(c, "giveup") /\ work[t] = call[c].agent) ~> Stored(taskStore, t)

\* The calls of HandleFailure that have not returned.
Calling == {c \in Calls : ~At(c, "idle")}

(* Claims of the code's comments that runs refute *)

\* A failed agent used its retries up: "StateFailed indicates recovery failed
\* after max retries" (coordinator.go, StateFailed).
FailedMeansExhausted ==
    \A a \in Agents : current[a] # 0 =>
        (info[a][current[a]].state = "failed" => info[a][current[a]].fails >= RetryLimit)

\* A recovering agent is being recovered: "StateRecovering indicates recovery
\* is in progress" (coordinator.go, StateRecovering).
RecoveringIsInProgress ==
    \A a \in Agents : current[a] # 0 =>
        (info[a][current[a]].state = "recovering" =>
            \E c \in Calls : call[c].agent = a /\ ~At(c, "idle"))

\* A failure handler does not register an agent that its owner unregistered:
\* "UnregisterAgent removes an agent from monitoring" (coordinator.go).
UnregisterLasts ==
    [][\A c \in Calls : (At(c, "recovered") /\ call'[c].pc = "idle"
                         /\ current[call[c].agent] = 0)
                        => current'[call[c].agent] = 0]_vars

\* When the handover is announced, no task of the failed agent is still
\* assigned to it: "Tasks queued for reassignment." (handoverTasks).
AnnouncedIsQueued ==
    [][\A c \in Calls : (At(c, "handover") /\ call'[c].pc = "idle")
          => \A t \in call[c].tasks :
                ~(taskStore[t].status = "assigned" /\ taskStore[t].to = call[c].agent)]_vars

\* An assignment finds the task pending: "Assign assigns a pending task to a
\* new agent" (queue.go, Assign).
AssignsPending ==
    [][\A t \in Tasks :
          (taskStore'[t].status = "assigned" /\ taskStore'[t] # taskStore[t])
          => taskStore[t].status = "pending"]_vars

=============================================================================
