------------------------------- MODULE Chain --------------------------------
(***************************************************************************)
(* The conversation of the TUI (cmd/maxam/tui.go): the owner asks agents,  *)
(* and the answer of an agent asks the agents that it names, asks the same *)
(* agent again when it names nobody, or, when it is an error, asks the PM  *)
(* to look after it (internal/errorwatch).  Every ask is a command of its  *)
(* own goroutine, whose result Update handles as one message.  What the    *)
(* workers do with an ask is left to Worker.tla: it is answered in some    *)
(* way at some time, or never, when the worker is killed.                  *)
(***************************************************************************)
EXTENDS Naturals, FiniteSets, Bags

CONSTANTS Agents, Mei, Amara,
          Pm,        \* Config.DefaultAgent, or mei
          MaxDepth,  \* maxChainDepth
          Interval,  \* meiInterventionInterval
          MaxRetries, \* answers without a mention, in a row, that are asked again
          MaxInputs, \* bound: what the owner enters and the timers that fire
          MaxErrors  \* bound: the answers that are errors, and the asks that are lost

VARIABLES asked,      \* the commands under way: who is asked, at which depth of the chain
          processing, \* tuiModel.processingAgents
          warnings,   \* tuiModel.mentionWarningCount, which is not told apart further
                      \* above MaxRetries
          enforced,   \* Manager.ShouldEnforceMention: plan and auto mode
          cooling,    \* Detector.lastFollowUp: the agents in their cooldown
          autoMode,   \* AgentModeManager.states: the agents in auto mode
          listed,     \* tuiModel.lastIssueListTime is less than issueListInterval ago
          inputs, errors,
          displaced,  \* history: the agents whose turn mei has taken
          lost        \* history: the agents whose worker was killed with an ask

chainVars == <<asked, processing, warnings, enforced, cooling, autoMode, listed, inputs,
               errors, displaced, lost>>

Kinds == {"chat", "analysis"}

ChainInit ==
    /\ asked = EmptyBag /\ processing = {}
    /\ warnings = [a \in Agents |-> 0] /\ enforced = FALSE
    /\ cooling = {} /\ autoMode = {} /\ listed = FALSE
    /\ inputs = 0 /\ errors = 0 /\ displaced = {} /\ lost = {}

----------------------------------------------------------------------------
(* runAgentAsync *)

\* Every Interval steps of a chain it is mei who is asked, to sum up.
Intervenes(a, depth) == depth > 0 /\ depth % Interval = 0 /\ a # Mei
AskedOne(a, depth) == IF Intervenes(a, depth) THEN Mei ELSE a

\* Mutant: every ask starts a chain.
AskAtStart(a, depth) == [by |-> AskedOne(a, depth), depth |-> 0, kind |-> "chat"]

Ask(a, depth) == [by |-> AskedOne(a, depth), depth |-> depth, kind |-> "chat"]

\* The command of ask k is over, the targets are asked beside the others.
RunAgentAsync(k, targets, depth) ==
    LET asks == {Ask(a, depth) : a \in targets} IN
    /\ asked' = (asked (-) SetToBag({k}))
                  (+) [j \in asks |-> Cardinality({a \in targets : Ask(a, depth) = j})]
    /\ displaced' = (displaced \ {k.by}) \cup {a \in targets : Intervenes(a, depth)}
    /\ lost' = lost \ {k.by}

----------------------------------------------------------------------------
(* What the owner enters and what the timers of the TUI do *)

Input == inputs < MaxInputs /\ inputs' = inputs + 1

\* The router finds the agents that are named, or else the default agent; they are
\* asked even while they are asked already.  A /task goes the same way.
Enter ==
    /\ Input
    /\ \E named \in SUBSET Agents :
          LET targets == IF named = {} THEN {Pm} ELSE named IN
          /\ processing' = processing \cup targets
          /\ asked' = asked (+) SetToBag({Ask(a, 0) : a \in targets})
    /\ UNCHANGED <<warnings, enforced, cooling, autoMode, listed, errors, displaced, lost>>

Clear ==
    /\ Input /\ processing # {}
    /\ processing' = {} /\ displaced' = {} /\ lost' = {}
    /\ UNCHANGED <<asked, warnings, enforced, cooling, autoMode, listed, errors>>

\* /plan, /auto and /stop: PlanMode.tla.
ChangeMode ==
    /\ Input /\ enforced' = ~enforced
    /\ UNCHANGED <<asked, processing, warnings, cooling, autoMode, listed, errors, displaced,
                   lost>>

\* /reset-auto, for one agent or for all.
ResetAuto ==
    /\ Input /\ autoMode # {}
    /\ autoMode' \in {{}} \cup {autoMode \ {a} : a \in autoMode}
    /\ UNCHANGED <<asked, processing, warnings, enforced, cooling, listed, errors, displaced,
                   lost>>

\* Every hour, unless amara is asked already; her answer asks nobody.
AnalysisTick ==
    /\ Input /\ Amara \notin processing
    /\ processing' = processing \cup {Amara}
    /\ asked' = asked (+) SetToBag({[by |-> Amara, depth |-> 0, kind |-> "analysis"]})
    /\ UNCHANGED <<warnings, enforced, cooling, autoMode, listed, errors, displaced, lost>>

\* Open issues that nobody works on: amara is asked, but not shown as thinking.
IssueWatcherNotify ==
    /\ Input
    /\ asked' = asked (+) SetToBag({Ask(Amara, 0)})
    /\ UNCHANGED <<processing, warnings, enforced, cooling, autoMode, listed, errors,
                   displaced, lost>>

----------------------------------------------------------------------------
(* agentResponseMsg *)

AtMost(n, top) == IF n > top THEN top ELSE n

\* The agents that the text of an answer names, in whichever way, are asked next,
\* as long as the chain is not too long.
DetectAgentMentions(k, named) ==
    IF k.kind = "chat" /\ k.depth < MaxDepth THEN named \ {k.by} ELSE {}

ShouldFollowUp(a, recoverable) == recoverable /\ a \notin cooling

\* Mutant: the agent is not taken off when it fails.
RespondErrorForgetting(k) ==
    /\ errors < MaxErrors /\ errors' = errors + 1
    /\ RunAgentAsync(k, {}, 0)
    /\ UNCHANGED <<processing, cooling, autoMode, warnings, listed>>

\* An error: nobody is asked, or the PM, to say a word to the agent.
RespondError(k) ==
    /\ errors < MaxErrors /\ errors' = errors + 1
    /\ \E recoverable \in BOOLEAN :
          IF ShouldFollowUp(k.by, recoverable)
          THEN /\ cooling' = cooling \cup {k.by} /\ autoMode' = autoMode \cup {k.by}
               /\ processing' = (processing \ {k.by}) \cup {Pm}
               /\ RunAgentAsync(k, {Pm}, 0)
          ELSE /\ processing' = processing \ {k.by}
               /\ RunAgentAsync(k, {}, 0)
               /\ UNCHANGED <<cooling, autoMode>>
    /\ UNCHANGED <<warnings, listed>>

\* In plan and auto mode an answer that names nobody with an @ is asked for again.
Retries(a, mentions) == enforced /\ ~mentions /\ warnings[a] < MaxRetries

CountWarning(a, mentions) ==
    warnings' = [warnings EXCEPT ![a] = IF ~enforced THEN @ ELSE IF mentions THEN 0
                                        ELSE AtMost(@ + 1, MaxRetries + 1)]

MaybePostIssueList(idle) == listed' = (listed \/ idle)

Respond(k) ==
    /\ \E named \in SUBSET Agents, mentions \in BOOLEAN :
        /\ CountWarning(k.by, mentions)
        /\ IF Retries(k.by, mentions)
           THEN /\ processing' = processing \cup {k.by}
                /\ RunAgentAsync(k, {k.by}, k.depth + 1) /\ UNCHANGED listed
           ELSE LET others == processing \ {k.by}
                    next == DetectAgentMentions(k, named) \ others IN
                /\ processing' = others \cup next
                /\ RunAgentAsync(k, next, k.depth + 1)
                /\ MaybePostIssueList(next = {} /\ others = {})
    /\ UNCHANGED <<cooling, autoMode, errors>>

AgentResponse(k) ==
    /\ BagIn(k, asked)
    /\ Respond(k) \/ RespondError(k)
    /\ UNCHANGED <<enforced, inputs>>

\* A worker that is killed with an ask in its channel never answers it.
Lose(k) ==
    /\ BagIn(k, asked) /\ k.kind = "chat"
    /\ errors < MaxErrors /\ errors' = errors + 1
    /\ asked' = asked (-) SetToBag({k})
    /\ lost' = lost \cup {k.by}
    /\ UNCHANGED <<processing, warnings, enforced, cooling, autoMode, listed, inputs,
                   displaced>>

TimePasses ==
    /\ cooling # {} \/ listed
    /\ cooling' = {} /\ listed' \in {listed, FALSE}
    /\ UNCHANGED <<asked, processing, warnings, enforced, autoMode, inputs, errors,
                   displaced, lost>>

ChainNext ==
    \/ Enter \/ Clear \/ ChangeMode \/ ResetAuto \/ AnalysisTick \/ IssueWatcherNotify
    \/ \E k \in BagToSet(asked) : AgentResponse(k) \/ Lose(k)
    \/ TimePasses

----------------------------------------------------------------------------
(* Properties *)

\* An agent that is shown as thinking is asked; otherwise no chain would ever ask it
\* again.  The code does not keep this for the agents whose turn mei takes, and for
\* those that are killed meanwhile.
ThinkingIsAsked ==
    processing \subseteq {k.by : k \in BagToSet(asked)} \cup displaced \cup lost

\* A conversation comes to rest when the owner says nothing more.
Talking == asked # EmptyBag
=============================================================================
