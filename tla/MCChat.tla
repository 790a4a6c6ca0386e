------------------------------- MODULE MCChat -------------------------------
(***************************************************************************)
(* The conversation with the agents: the chains of the TUI, its memory,    *)
(* the Slack bridge, and a worker that /reset and the session monitor both *)
(* restart.  They share no state: a behaviour is one of the part that part *)
(* names.                                                                  *)
(***************************************************************************)
EXTENDS Naturals, Sequences, FiniteSets, Bags

CONSTANTS Agents, Mei, Amara, Pm, MaxDepth, Interval, MaxRetries, MaxInputs, MaxErrors,
          Programs, MaxSaid, MaxMisses, Sizes, MaxMessages, BaseCount, ShortCount,
          MaxChars, Frame, Warning, Critical, Truncation,
          Bots, Customer, Default, Cap, MaxPosts,
          ChatReqs, TaskReqs, ChanCap, MaxGen, Resetters, NoReq

\* The last three lines are Worker's own.
ASSUME ChatAssumption ==
    /\ IsFiniteSet(Agents) /\ MaxPosts \in Nat
    /\ ChatReqs \cap TaskReqs = {} /\ NoReq \notin ChatReqs \cup TaskReqs
    /\ ChanCap \in Nat \ {0} /\ MaxGen \in Nat \ {0}
    /\ Resetters \subseteq {"user", "monitor"}

VARIABLES asked, processing, warnings, enforced, cooling, autoMode, listed, inputs, errors,
          displaced, lost,
          file, tmp, messages, screen, saver, trim, dirty, said, missed, shared,
          posts, heard, queue, pending, adder, timer, taken, over, socket, answers, raced,
          gen, cancelled, closed, chan, status, stopReq, loopPc, loopGen, loopReq, reqPc,
          reqChan, reqCtx, resp, procPc, monitorCancelled, crashed, wish,
          part

C == INSTANCE Chain
M == INSTANCE Memory
S == INSTANCE Slack
W == INSTANCE Worker

chainVars == <<asked, processing, warnings, enforced, cooling, autoMode, listed, inputs,
               errors, displaced, lost>>
memoryVars == <<file, tmp, messages, screen, saver, trim, dirty, said, missed, shared>>
slackVars == <<posts, heard, queue, pending, adder, timer, taken, over, socket, answers, raced>>
workerVars == <<gen, cancelled, closed, chan, status, stopReq, loopPc, loopGen, loopReq,
                reqPc, reqChan, reqCtx, resp, procPc, monitorCancelled, crashed, wish>>
vars == <<chainVars, memoryVars, slackVars, workerVars, part>>

Init ==
    /\ part \in {"chain", "memory", "slack", "worker"}
    /\ C!ChainInit /\ M!MemoryInit /\ S!SlackInit /\ W!Init

Next ==
    /\ UNCHANGED part
    /\ \/ part = "chain" /\ C!ChainNext /\ UNCHANGED <<memoryVars, slackVars, workerVars>>
       \/ part = "memory" /\ M!MemoryNext /\ UNCHANGED <<chainVars, slackVars, workerVars>>
       \/ part = "slack" /\ S!SlackNext /\ UNCHANGED <<chainVars, memoryVars, workerVars>>
       \/ part = "worker" /\ W!Next /\ UNCHANGED <<chainVars, memoryVars, slackVars>>

\* The workers answer (Worker.tla), the goroutines run and the timers fire.
Fairness ==
    /\ WF_chainVars(part = "chain" /\ \E k \in BagToSet(asked) : C!AgentResponse(k))
    /\ WF_slackVars(part = "slack" /\ S!HandleMessageEvent)
    /\ WF_slackVars(part = "slack" /\ (S!ProcessMessage \/ S!AppendMessage))
    /\ \A t \in S!Timers : WF_slackVars(part = "slack" /\ S!TimerStep(t))

Spec == Init /\ [][Next]_vars /\ Fairness

\* An agent that is shown as thinking is asked, and one that works has a loop that
\* will end its work, even when two restarts overlap.
ThinkingIsAsked == C!ThinkingIsAsked /\ W!WorkingHasRunner

\* The history file can be read and holds what is known; a message of Slack is handled
\* once; a request to a worker is in one place, even when two restarts overlap.
NothingIsForgotten == M!HistorySurvives /\ S!HandledOnce /\ W!Custody

Waiting == \/ part = "chain" /\ C!Talking
           \/ part = "slack" /\ S!Unhandled

\* The chains of the agents come to rest, and what is said in Slack is handled.
TalkSettles == Waiting ~> ~Waiting
=============================================================================
