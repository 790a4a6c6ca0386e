----------------------------- MODULE MCRecovery -----------------------------
(***************************************************************************)
(* The two ways a failed agent is noticed and dealt with, which share no   *)
(* state: the heartbeat monitor with its recovery handler, and the         *)
(* coordinator with its handover.  A behaviour is one of the part that     *)
(* part names; safety and liveness are checked on instances of their own.  *)
(***************************************************************************)
EXTENDS Naturals, Sequences, FiniteSets, TLC

CONSTANTS Workers, MaxRetries, FailBound, QueueCap, RestartResults, NotifyResults,
          Sessions, Drained, MaxEntries, MaxCallbacks,
          Agents, Tasks, NoAgent, Calls, RetryLimit, Clients, MaxTries, MaxRecords,
          FailureBound

\* Workers are registered from the start; finitely many failures are handled at once.
ASSUME RecoveryAssumption ==
    /\ MaxEntries \in Nat \ {0} /\ IsFiniteSet(Calls)
    /\ RetryLimit \in Nat /\ MaxRecords \in Nat

VARIABLES status, stopReq, run, killed, born, entry, health, monitor, cancelled, loopPc,
          names, checked, callbacks, queue, notified,
          info, current, call, taskStore, work, ask, wire,
          part

H == INSTANCE Heartbeat
C == INSTANCE Coordinator

heartbeatVars == <<status, stopReq, run, killed, born, entry, health, monitor, cancelled,
                   loopPc, names, checked, callbacks, queue, notified>>
coordinatorVars == <<info, current, call, taskStore, work, ask, wire>>
vars == <<heartbeatVars, coordinatorVars, part>>

Init == part \in {"heartbeat", "coordinator"} /\ H!Init /\ C!Init

\* The coordinator may come to rest.
Next ==
    /\ UNCHANGED part
    /\ \/ part = "heartbeat" /\ H!Next /\ UNCHANGED coordinatorVars
       \/ part = "coordinator" /\ C!Next /\ UNCHANGED heartbeatVars
       \/ part = "coordinator" /\ UNCHANGED vars

Spec == Init /\ [][Next]_vars

\* What Heartbeat and Coordinator assume of their goroutines.
Fairness ==
    /\ WF_heartbeatVars(part = "heartbeat" /\ H!MonitorLoop)
    /\ SF_heartbeatVars(part = "heartbeat" /\ H!LoopExit)
    /\ WF_heartbeatVars(part = "heartbeat" /\ H!MonitorJoin)
    /\ WF_heartbeatVars(part = "heartbeat" /\ H!MonitorStart)
    /\ \A c \in H!Callback :
          WF_heartbeatVars(part = "heartbeat" /\ c \in callbacks /\ H!Handle(c))
    /\ WF_heartbeatVars(part = "heartbeat" /\ H!ShowEvent)
    /\ \A c \in Calls : WF_coordinatorVars(part = "coordinator" /\ C!HandleFailure(c))

FairSpec == Spec /\ Fairness

CallSymmetry == Permutations(Calls)

\* Once Stop has returned no check is going on and none will come.
StopQuiesces == H!StopQuiesces

\* A check that began before its worker was registered anew leaves the new alone.
StaleCheckIsHarmless == H!StaleCheckIsHarmless

\* The failures that are counted between two heartbeats lead to a bounded number of
\* recoveries.
RetriesAreBounded == C!RetriesAreBounded

\* A failure of an agent that has been registered anew leaves its new record alone.
StaleFailureIsHarmless == C!StaleFailureIsHarmless

\* A run that never ends is reported to the PM or its session is killed.
HungIsNoticed == H!HungIsNoticed

\* A task whose agent is given up gets into the queue.
FailedWorkIsQueued == C!FailedWorkIsQueued

Calling == IF part = "heartbeat" THEN monitor = "stopping" ELSE C!Calling # {}

\* Stop of the monitor returns, and so does every call of HandleFailure.
CallsReturn == Calling ~> ~Calling
=============================================================================
