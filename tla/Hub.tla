--------------------------------- MODULE Hub ---------------------------------
(***************************************************************************)
(* The WebSocket server of the chat (internal/ws: hub.go, server.go,       *)
(* client.go): one select loop per Start of the server, a reading and a    *)
(* writing goroutine per connection.  A chat is the number under which it  *)
(* was sent; everything else the hub passes on (join, leave, system) is    *)
(* Notice, which no history keeps.                                         *)
(***************************************************************************)
EXTENDS Naturals, SequencesExt

CONSTANTS Conns,      \* the connections that are ever made
          MaxChats,   \* bound: messages sent
          MaxStarts,  \* bound: starts of the server
          MaxHistory, \* Hub.maxHistory
          InboxCap,   \* the capacity of Hub.broadcast
          SendCap     \* the capacity of Client.send

Notice == 0
Loops == 1 .. MaxStarts

VARIABLES running,  \* Server.running
          starts,   \* how many loops were started
          loop,     \* where each loop is: the message it has, who is still to get it
                    \* (or, at "insert", whom it is about to put into the set)
          clients,  \* Hub.clients
          history,  \* Hub.history
          inbox,    \* Hub.broadcast
          posted,   \* messages sent so far
          sendQ,    \* Client.send, with closed
          closed,
          link,     \* each connection: its goroutines and the history it was given
          log,      \* history variable: the chats in the order they were stored
          got,      \* history variable: the chats each peer has received
          missed    \* history variable: the chats skipped because sendQ was full

hubVars == <<running, starts, loop, clients, history, inbox, posted, sendQ, closed,
             link, log, got, missed>>

NoLink == [pc |-> "away", open |-> FALSE, writer |-> FALSE, asks |-> FALSE,
           hist |-> <<>>, joinedAt |-> 0, readAt |-> 0]
Select == [pc |-> "select", msg |-> Notice, todo |-> {}]

HubInit ==
    /\ running = FALSE /\ starts = 0
    /\ loop = [l \in Loops |-> Select]
    /\ clients = {} /\ history = <<>> /\ inbox = <<>> /\ posted = 0
    /\ sendQ = [c \in Conns |-> <<>>] /\ closed = [c \in Conns |-> FALSE]
    /\ link = [c \in Conns |-> NoLink]
    /\ log = <<>> /\ got = [c \in Conns |-> <<>>] /\ missed = [c \in Conns |-> {}]

LastOf(s, n) == SubSeq(s, IF Len(s) > n THEN Len(s) - n + 1 ELSE 1, Len(s))

----------------------------------------------------------------------------
(* The server: the loop of an earlier start goes on *)

Start ==
    /\ ~running /\ starts < MaxStarts
    /\ running' = TRUE /\ starts' = starts + 1
    /\ UNCHANGED <<loop, clients, history, inbox, posted, sendQ, closed, link, log, got,
                   missed>>

\* Stop, or ListenAndServe that fails; connections that were upgraded stay.
StopServer ==
    /\ running /\ running' = FALSE
    /\ UNCHANGED <<starts, loop, clients, history, inbox, posted, sendQ, closed, link, log,
                   got, missed>>

----------------------------------------------------------------------------
(* Hub.Run, as loop l goes through it *)

Active(l) == l <= starts
Unlocked == \A l \in Loops : loop[l].pc # "send"   \* nobody holds the read lock
Pass(l, msg) == loop' = [loop EXCEPT ![l] = [pc |-> "pass", msg |-> msg, todo |-> {}]]

\* The loop has the client from h.register; its handler can go on at once.
Register(l, c) ==
    /\ Active(l) /\ loop[l].pc = "select" /\ link[c].pc = "register"
    /\ loop' = [loop EXCEPT ![l] = [pc |-> "insert", msg |-> Notice, todo |-> {c}]]
    /\ link' = [link EXCEPT ![c].pc = "joined"]
    /\ UNCHANGED <<running, starts, clients, history, inbox, posted, sendQ, closed, log, got,
                   missed>>

\* Under the lock the client gets into the set, even one that left by another loop.
Insert(l, c) ==
    /\ loop[l].pc = "insert" /\ c \in loop[l].todo /\ Unlocked
    /\ clients' = clients \cup {c}
    /\ link' = [link EXCEPT ![c].joinedAt = Len(log)]
    /\ Pass(l, Notice)
    /\ UNCHANGED <<running, starts, history, inbox, posted, sendQ, closed, log, got, missed>>

\* Mutant: the channel is closed without the lock.
UnregisterUnlocked(l, c) ==
    /\ Active(l) /\ loop[l].pc = "select" /\ link[c].pc = "leaving"
    /\ clients' = clients \ {c}
    /\ closed' = [closed EXCEPT ![c] = TRUE]
    /\ link' = [link EXCEPT ![c].pc = "gone"]
    /\ Pass(l, Notice)
    /\ UNCHANGED <<running, starts, history, inbox, posted, sendQ, log, got, missed>>

Unregister(l, c) ==
    /\ Active(l) /\ loop[l].pc = "select" /\ link[c].pc = "leaving" /\ Unlocked
    /\ clients' = clients \ {c}
    /\ closed' = [closed EXCEPT ![c] = @ \/ c \in clients]
    /\ link' = [link EXCEPT ![c].pc = "gone"]
    /\ Pass(l, Notice)
    /\ UNCHANGED <<running, starts, history, inbox, posted, sendQ, log, got, missed>>

Take(l) ==
    /\ Active(l) /\ loop[l].pc = "select" /\ inbox # <<>>
    /\ inbox' = Tail(inbox)
    /\ loop' = [loop EXCEPT ![l] = [pc |-> "store", msg |-> Head(inbox), todo |-> {}]]
    /\ UNCHANGED <<running, starts, clients, history, posted, sendQ, closed, link, log, got,
                   missed>>

\* Mutant: a chat is kept only while the history has room.
StoreWhileRoom(l) ==
    /\ loop[l].pc = "store" /\ Unlocked
    /\ history' = IF loop[l].msg # Notice /\ Len(history) < MaxHistory
                    THEN Append(history, loop[l].msg) ELSE history
    /\ log' = IF loop[l].msg # Notice THEN Append(log, loop[l].msg) ELSE log
    /\ Pass(l, loop[l].msg)
    /\ UNCHANGED <<running, starts, clients, inbox, posted, sendQ, closed, link, got, missed>>

\* addToHistory keeps the last MaxHistory chats.
Store(l) ==
    /\ loop[l].pc = "store" /\ Unlocked
    /\ IF loop[l].msg = Notice THEN UNCHANGED <<history, log>>
       ELSE /\ history' = LastOf(Append(history, loop[l].msg), MaxHistory)
            /\ log' = Append(log, loop[l].msg)
    /\ Pass(l, loop[l].msg)
    /\ UNCHANGED <<running, starts, clients, inbox, posted, sendQ, closed, link, got, missed>>

\* broadcastMessage: the read lock is held from here to Sent.
Broadcast(l) ==
    /\ loop[l].pc = "pass"
    /\ loop' = [loop EXCEPT ![l].pc = "send", ![l].todo = clients]
    /\ UNCHANGED <<running, starts, clients, history, inbox, posted, sendQ, closed, link,
                   log, got, missed>>

\* A client whose buffer is full is skipped.
SendTo(l, c) ==
    /\ loop[l].pc = "send" /\ c \in loop[l].todo
    /\ loop' = [loop EXCEPT ![l].todo = @ \ {c}]
    /\ IF Len(sendQ[c]) < SendCap
         THEN sendQ' = [sendQ EXCEPT ![c] = Append(@, loop[l].msg)] /\ UNCHANGED missed
         ELSE missed' = [missed EXCEPT ![c] = @ \cup {loop[l].msg}] /\ UNCHANGED sendQ
    /\ UNCHANGED <<running, starts, clients, history, inbox, posted, closed, link, log, got>>

Sent(l) ==
    /\ loop[l].pc = "send" /\ loop[l].todo = {}
    /\ loop' = [loop EXCEPT ![l] = Select]
    /\ UNCHANGED <<running, starts, clients, history, inbox, posted, sendQ, closed, link,
                   log, got, missed>>

HubStep(l) ==
    \/ Take(l) \/ Store(l) \/ Broadcast(l) \/ Sent(l)
    \/ \E c \in Conns : Register(l, c) \/ Insert(l, c) \/ Unregister(l, c) \/ SendTo(l, c)

----------------------------------------------------------------------------
(* handleWebSocket and the goroutines of a connection *)

HubUnchanged == UNCHANGED <<running, starts, loop, clients, history, closed, log, missed>>
At(c, pc) == link[c].pc = pc

Dial(c) ==
    /\ running /\ starts > 0 /\ At(c, "away")
    /\ \E asks \in BOOLEAN :
          link' = [link EXCEPT ![c] = [NoLink EXCEPT !.pc = "register", !.open = TRUE,
                                                     !.asks = asks]]
    /\ HubUnchanged /\ UNCHANGED <<inbox, posted, sendQ, got>>

\* Mutant: the writing goroutine is started before the history is written.
GetHistoryPumping(c) ==
    /\ At(c, "joined") /\ link[c].asks
    /\ link' = [link EXCEPT ![c].pc = "history", ![c].writer = TRUE, ![c].hist = history,
                            ![c].readAt = Len(log)]
    /\ HubUnchanged /\ UNCHANGED <<inbox, posted, sendQ, got>>

GetHistory(c) ==
    /\ At(c, "joined") /\ link[c].asks
    /\ link' = [link EXCEPT ![c].pc = "history", ![c].hist = history, ![c].readAt = Len(log)]
    /\ HubUnchanged /\ UNCHANGED <<inbox, posted, sendQ, got>>

\* The history, if any is asked for, goes to the peer before the buffer does.
StartPumps(c) ==
    /\ At(c, "history") \/ (At(c, "joined") /\ ~link[c].asks)
    /\ link' = [link EXCEPT ![c].pc = "pumping", ![c].writer = TRUE]
    /\ got' = [got EXCEPT ![c] = IF link[c].open THEN @ \o link[c].hist ELSE @]
    /\ HubUnchanged /\ UNCHANGED <<inbox, posted, sendQ>>

\* A peer, or the program itself (Server.Broadcast), sends a chat or, since
\* ParseMessage accepts every type, something else; a full inbox blocks.
Post ==
    /\ posted < MaxChats /\ Len(inbox) < InboxCap
    /\ posted' = posted + 1
    /\ \E msg \in {posted + 1, Notice} : inbox' = Append(inbox, msg)
    /\ HubUnchanged /\ UNCHANGED <<sendQ, link, got>>

WriteNext(c) ==
    /\ link[c].writer /\ sendQ[c] # <<>>
    /\ sendQ' = [sendQ EXCEPT ![c] = Tail(@)]
    /\ IF link[c].open
         THEN /\ got' = [got EXCEPT ![c] = IF Head(sendQ[c]) = Notice THEN @
                                           ELSE Append(@, Head(sendQ[c]))]
              /\ UNCHANGED link
         ELSE link' = [link EXCEPT ![c].writer = FALSE] /\ UNCHANGED got
    /\ HubUnchanged /\ UNCHANGED <<inbox, posted>>

\* The channel was closed, or a ping fails: the writer closes the connection.
StopWriting(c) ==
    /\ link[c].writer
    /\ (closed[c] /\ sendQ[c] = <<>>) \/ ~link[c].open
    /\ link' = [link EXCEPT ![c].writer = FALSE, ![c].open = FALSE]
    /\ HubUnchanged /\ UNCHANGED <<inbox, posted, sendQ, got>>

\* The peer goes away, a write times out or no pong arrives in time.
Drop(c) ==
    /\ link[c].open
    /\ link' = [link EXCEPT ![c].open = FALSE]
    /\ HubUnchanged /\ UNCHANGED <<inbox, posted, sendQ, got>>

StopReading(c) ==
    /\ At(c, "pumping") /\ ~link[c].open
    /\ link' = [link EXCEPT ![c].pc = "leaving"]
    /\ HubUnchanged /\ UNCHANGED <<inbox, posted, sendQ, got>>

Serve(c) == GetHistory(c) \/ StartPumps(c) \/ WriteNext(c) \/ StopWriting(c) \/ StopReading(c)

HubNext ==
    \/ Start \/ StopServer
    \/ \E l \in Loops : HubStep(l)
    \/ \E c \in Conns : Dial(c) \/ Serve(c) \/ Drop(c)
    \/ Post

HubSpec == HubInit /\ [][HubNext]_hubVars

----------------------------------------------------------------------------
(* Properties *)

\* The chats a loop has stored or taken and not yet offered to c.
OnTheWay(c) ==
    {loop[l].msg : l \in {k \in Loops : \/ loop[k].pc = "pass"
                                        \/ loop[k].pc = "send" /\ c \in loop[k].todo}}

\* The chats, by their place in the log, that handleWebSocket promises a client: those
\* of the history it read and those stored since the client is in the set.  The hub
\* stores nothing between the two while one loop has to do both; a second loop may.
Promised(c, k) ==
    \/ k + MaxHistory > link[c].readAt /\ (k <= link[c].readAt \/ starts <= 1)
    \/ c \in clients /\ k > link[c].joinedAt

\* A client that asked for the history has, or will get, every chat promised to it,
\* except the ones skipped for its full buffer.
NoGap ==
    \A c \in Conns : At(c, "pumping") /\ link[c].open /\ link[c].asks =>
        \A k \in DOMAIN log : Promised(c, k) =>
            log[k] \in ToSet(got[c]) \cup ToSet(sendQ[c]) \cup OnTheWay(c) \cup missed[c]

\* A peer sees the chats in the order in which they were sent and each one once,
\* except that what the history showed may come again.
InOrder ==
    starts <= 1 =>
        \A c \in Conns : \A i, j \in DOMAIN got[c] :
            i < j => \/ got[c][i] < got[c][j]
                     \/ i <= Len(link[c].hist) /\ j > Len(link[c].hist)

\* Nothing is sent on a closed channel, which would end the program: a channel is
\* closed under the lock once its client is out of the set, and no loop that
\* holds the read lock still has it to do.
NoSendOnClosed ==
    \A c \in Conns : closed[c] =>
        c \notin clients /\ \A l \in Loops : c \notin loop[l].todo

\* Both of what a peer is shown.
HubShows == NoGap /\ InOrder

(* Claims the code does not keep *)

\* With two loops too a client misses no chat stored after it read the history.
NothingBetween ==
    \A c \in Conns : At(c, "pumping") /\ link[c].open /\ link[c].asks =>
        \A k \in DOMAIN log : k > link[c].readAt =>
            log[k] \in ToSet(got[c]) \cup ToSet(sendQ[c]) \cup OnTheWay(c) \cup missed[c]

\* Each chat reaches a peer at most once.
ShownOnce == \A c \in Conns : IsInjective(got[c])
=============================================================================
