------------------------------- MODULE Slack --------------------------------
(***************************************************************************)
(* The Slack bridge (internal/slack): the socket goroutine filters what is *)
(* said in a channel into a queue, processMessages collects the queue      *)
(* until nobody has said anything for a while, and the function of the     *)
(* timer, on a goroutine of its own, hands all of it to the handler, which *)
(* asks one agent.  pendingMsgs has no lock.  What an agent says is said   *)
(* in the channel again.                                                   *)
(***************************************************************************)
EXTENDS Naturals, Sequences, FiniteSets

CONSTANTS Bots, Customer,
          Default, \* Config.DefaultAgent
          Cap,     \* the capacity of messageQueue
          MaxPosts  \* bound: what the customers and the agents say

VARIABLES posts,    \* what is said in the channel: by whom, with an "@", and the agents
                   \* it names
          heard,   \* the events that the socket goroutine has handled
          queue,   \* Client.messageQueue
          pending, \* Client.pendingMsgs
          adder,   \* processMessages: the message it appends, and the slice it appends to
          timer,   \* per timer, one for each message that is appended
          taken,   \* per timer: the messages that its function has taken
          over,    \* ctx is cancelled
          socket,  \* the socket goroutine runs
          answers, \* history: how often a message was in the hands of the handler
          raced    \* history: a function and processMessages have met in pendingMsgs

slackVars == <<posts, heard, queue, pending, adder, timer, taken, over, socket, answers, raced>>

Messages == 1 .. MaxPosts
Timers == 1 .. MaxPosts
Idle == [at |-> "idle", message |-> 0, saw |-> <<>>]

SlackInit ==
    /\ posts = <<>> /\ heard = 0 /\ queue = <<>> /\ pending = <<>> /\ adder = Idle
    /\ timer = [t \in Timers |-> "new"] /\ taken = [t \in Timers |-> <<>>]
    /\ over = FALSE /\ socket = TRUE
    /\ answers = [i \in Messages |-> 0] /\ raced = FALSE

Say(by, at, names) ==
    /\ Len(posts) < MaxPosts
    /\ posts' = Append(posts, [by |-> by, at |-> at, names |-> names])

CustomerSays ==
    /\ \E names \in SUBSET Bots : Say(Customer, names # {}, names)
    /\ UNCHANGED <<heard, queue, pending, adder, timer, taken, over, socket, answers, raced>>

Cancel ==
    /\ ~over /\ over' = TRUE
    /\ UNCHANGED <<posts, heard, queue, pending, adder, timer, taken, socket, answers, raced>>

----------------------------------------------------------------------------
(* The socket goroutine and processMessages *)

\* What an agent says is taken up when it holds an "@".
Accepted(m) == m.by = Customer \/ m.at

\* The socket goroutine waits while the queue is full.
HandleMessageEvent ==
    /\ socket /\ heard < Len(posts)
    /\ heard' = heard + 1
    /\ IF Accepted(posts[heard'])
       THEN Len(queue) < Cap /\ queue' = Append(queue, heard')
       ELSE UNCHANGED queue
    /\ UNCHANGED <<posts, pending, adder, timer, taken, over, socket, answers, raced>>

SocketEnds ==
    /\ over /\ socket /\ socket' = FALSE
    /\ UNCHANGED <<posts, heard, queue, pending, adder, timer, taken, over, answers, raced>>

\* The slice is read, and written back with the message.
ProcessMessage ==
    /\ adder.at = "idle" /\ queue # <<>>
    /\ adder' = [at |-> "append", message |-> Head(queue), saw |-> pending]
    /\ queue' = Tail(queue)
    /\ UNCHANGED <<posts, heard, pending, timer, taken, over, socket, answers, raced>>

\* Mutant: the timer that was started first is kept.
ResetTimerOnce(m) ==
    timer' = IF \E t \in Timers : timer[t] # "new" THEN timer
             ELSE [timer EXCEPT ![m] = "armed"]

\* Stop does not wait for a timer whose function has been started.
ResetTimer(m) ==
    timer' = [t \in Timers |-> IF t = m THEN "armed"
                               ELSE IF timer[t] = "armed" THEN "stopped" ELSE timer[t]]

AppendMessage ==
    /\ adder.at = "append" /\ adder' = Idle
    /\ pending' = Append(adder.saw, adder.message)
    /\ ResetTimer(adder.message)
    /\ raced' = (raced \/ pending # adder.saw)
    /\ UNCHANGED <<posts, heard, queue, taken, over, socket, answers>>

ProcessEnds ==
    /\ over /\ adder.at = "idle" /\ adder' = [Idle EXCEPT !.at = "ended"]
    /\ UNCHANGED <<posts, heard, queue, pending, timer, taken, over, socket, answers, raced>>

----------------------------------------------------------------------------
(* The function of a timer, and the handler *)

At(t, from, to) == timer[t] = from /\ timer' = [timer EXCEPT ![t] = to]

TimerFires(t) ==
    /\ At(t, "armed", "fired")
    /\ UNCHANGED <<posts, heard, queue, pending, adder, taken, over, socket, answers, raced>>

\* With nothing to handle the function is done.
Take(t) ==
    /\ At(t, "fired", IF pending = <<>> THEN "done" ELSE "took")
    /\ taken' = [taken EXCEPT ![t] = pending]
    /\ UNCHANGED <<posts, heard, queue, pending, adder, over, socket, answers, raced>>

\* Mutant: the messages stay pending.
ForgetNothing(t) ==
    /\ At(t, "took", "handler")
    /\ answers' = [i \in Messages |-> answers[i]
                      + IF \E k \in DOMAIN taken[t] : taken[t][k] = i THEN 1 ELSE 0]
    /\ UNCHANGED <<posts, heard, queue, pending, adder, taken, over, socket, raced>>

Forget(t) ==
    /\ At(t, "took", "handler")
    /\ pending' = <<>>
    /\ raced' = (raced \/ pending # taken[t])
    /\ answers' = [i \in Messages |-> answers[i]
                      + IF \E k \in DOMAIN taken[t] : taken[t][k] = i THEN 1 ELSE 0]
    /\ UNCHANGED <<posts, heard, queue, adder, taken, over, socket>>

\* The agents that a message is for: an agent is not asked for naming itself.
AskedBy(m) == m.names \ {m.by}

\* The first message that is for an agent decides for all of them.
DetectAgentMention(ids) ==
    LET named == {k \in DOMAIN ids : AskedBy(posts[ids[k]]) # {}} IN
    IF named = {} THEN {Default}
    ELSE AskedBy(posts[ids[CHOOSE k \in named : \A j \in named : k <= j]])

\* The answer of the agent, which may hold an "@" and names; the notes of the handler
\* to the channel hold none.
HandleMessages(t) ==
    /\ At(t, "handler", "done")
    /\ \/ \E a \in DetectAgentMention(taken[t]), names \in SUBSET Bots, at \in BOOLEAN :
             (names # {} => at) /\ Say(a, at, names)
       \/ UNCHANGED posts
    /\ UNCHANGED <<heard, queue, pending, adder, taken, over, socket, answers, raced>>

TimerStep(t) == TimerFires(t) \/ Take(t) \/ Forget(t) \/ HandleMessages(t)

SlackNext ==
    \/ CustomerSays \/ Cancel \/ HandleMessageEvent \/ SocketEnds
    \/ ProcessMessage \/ AppendMessage \/ ProcessEnds
    \/ \E t \in Timers : TimerStep(t)

----------------------------------------------------------------------------
(* Properties *)

\* A message that was taken up is in one place until the handler has it, and the
\* handler has it once, as long as the function of a timer and processMessages do not
\* meet in pendingMsgs.
HandledOnce ==
    ~raced => \A i \in 1 .. heard : Accepted(posts[i]) =>
        answers[i] + Cardinality({k \in DOMAIN queue : queue[k] = i})
          + Cardinality({k \in DOMAIN pending : pending[k] = i})
          + (IF adder.message = i THEN 1 ELSE 0) = 1

\* What has been said reaches the handler when nobody says more.
Unhandled == pending # <<>> \/ (~over /\ heard < Len(posts))
=============================================================================
