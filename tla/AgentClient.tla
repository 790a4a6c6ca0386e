----------------------------- MODULE AgentClient -----------------------------
(***************************************************************************)
(* The WebSocket client of an agent (internal/ws/agent_client.go): one     *)
(* keeper, which is in turn ConnectWithReconnect, the reconnect loop and   *)
(* the monitor, and a reading and a pinging goroutine per connection.  The *)
(* pinging goroutine and the deferred close of the reading one use the     *)
(* connection that is current by then.                                     *)
(***************************************************************************)
EXTENDS Naturals

CONSTANTS MaxDials,   \* bound: connections that are ever made
          MaxAttempts \* MaxReconnectAttempts, 0 for no limit (the default)

Dials == 1 .. MaxDials
NoConn == 0

VARIABLES keeper,   \* the goroutine that keeps the client connected, its attempts
          peer,     \* agentClient.conn
          online,   \* agentClient.connected
          shut,     \* agentClient.closed: Close has been called, done is closed
          ended,    \* whether the context of the caller is done
          wire,     \* each connection: "none", "open", "lost" by the server, "closed"
          listener, \* readPump of each connection and the connection it reads
          pinger    \* pingPump of each connection: "none", "tick", "gone"

agentVars == <<keeper, peer, online, shut, ended, wire, listener, pinger>>

AgentInit ==
    /\ keeper = [pc |-> "idle", attempts |-> 0]
    /\ peer = NoConn /\ online = FALSE /\ shut = FALSE /\ ended = FALSE
    /\ wire = [d \in Dials |-> "none"]
    /\ listener = [d \in Dials |-> [pc |-> "none", conn |-> NoConn]]
    /\ pinger = [d \in Dials |-> "none"]

Halt == shut \/ ended
CloseWire(d) == IF d = NoConn THEN wire ELSE [wire EXCEPT ![d] = "closed"]

----------------------------------------------------------------------------
(* ConnectWithReconnect, reconnectLoop, monitorConnection; Connect in each *)

KeeperTo(pc) == keeper' = [keeper EXCEPT !.pc = pc]
KeeperRest == UNCHANGED <<shut, ended, listener, pinger>>

\* Both ConnectWithReconnect and Connect refuse a client that is closed.
CallKeeper ==
    /\ keeper.pc = "idle" /\ ~shut
    /\ KeeperTo("check")
    /\ KeeperRest /\ UNCHANGED <<peer, online, wire>>

CheckClosed ==
    /\ keeper.pc = "check"
    /\ KeeperTo(IF shut THEN "loop" ELSE "dial")
    /\ KeeperRest /\ UNCHANGED <<peer, online, wire>>

AgentDialFails ==
    /\ keeper.pc = "dial"
    /\ KeeperTo("loop")
    /\ KeeperRest /\ UNCHANGED <<peer, online, wire>>

\* Whether Close was called since the check is not looked at again.
AgentDialled ==
    /\ keeper.pc = "dial" /\ ~ended
    /\ \E d \in Dials :
          /\ wire[d] = "none" /\ \A e \in 1 .. d - 1 : wire[e] # "none"
          /\ wire' = [wire EXCEPT ![d] = "open"]
          /\ peer' = d /\ online' = TRUE
    /\ KeeperTo("pumps")
    /\ KeeperRest

AgentPumps ==
    /\ keeper.pc = "pumps"
    /\ listener' = [listener EXCEPT ![peer].pc = "begin"]
    /\ pinger' = [pinger EXCEPT ![peer] = "tick"]
    /\ keeper' = [pc |-> "monitor", attempts |-> 0]
    /\ UNCHANGED <<peer, online, shut, ended, wire>>

\* Mutant: the monitor ends once it has seen a connection.
MonitorTicksOnce ==
    /\ keeper.pc = "monitor"
    /\ KeeperTo(IF Halt \/ online THEN "gone" ELSE "loop")
    /\ KeeperRest /\ UNCHANGED <<peer, online, wire>>

MonitorTicks ==
    /\ keeper.pc = "monitor" /\ (Halt \/ ~online)
    /\ KeeperTo(IF Halt THEN "gone" ELSE "loop")
    /\ KeeperRest /\ UNCHANGED <<peer, online, wire>>

\* The loop gives up, or waits for ReconnectInterval and tries once more.
LoopAgain ==
    /\ keeper.pc = "loop"
    /\ IF Halt \/ (MaxAttempts > 0 /\ keeper.attempts >= MaxAttempts)
         THEN KeeperTo("gone")
         ELSE keeper' = [pc |-> "check",
                         attempts |-> IF MaxAttempts > 0 THEN keeper.attempts + 1 ELSE 0]
    /\ KeeperRest /\ UNCHANGED <<peer, online, wire>>

Keep ==
    \/ CheckClosed \/ AgentDialFails \/ AgentDialled \/ AgentPumps \/ MonitorTicks \/ LoopAgain

----------------------------------------------------------------------------
(* readPump and pingPump *)

PumpRest == UNCHANGED <<keeper, shut, ended>>

ListenBegin(d) ==
    /\ listener[d].pc = "begin"
    /\ listener' = [listener EXCEPT ![d] = [pc |-> "top", conn |-> peer]]
    /\ PumpRest /\ UNCHANGED <<peer, online, wire, pinger>>

ListenTop(d) ==
    /\ listener[d].pc = "top"
    /\ listener' = [listener EXCEPT ![d].pc = IF Halt THEN "end" ELSE "read"]
    /\ PumpRest /\ UNCHANGED <<peer, online, wire, pinger>>

\* A message arrives and is put into the channel, or dropped when that is full.
Receive(d) ==
    /\ listener[d].pc = "read" /\ wire[listener[d].conn] = "open"
    /\ listener' = [listener EXCEPT ![d].pc = "top"]
    /\ PumpRest /\ UNCHANGED <<peer, online, wire, pinger>>

\* The connection is dead, or nobody pings it and ReadTimeout is over.
ListenFails(d) ==
    /\ listener[d].pc = "read"
    /\ \/ wire[listener[d].conn] # "open"
       \/ peer # listener[d].conn \/ \A e \in Dials : pinger[e] # "tick"
    /\ listener' = [listener EXCEPT ![d].pc = "end"]
    /\ PumpRest /\ UNCHANGED <<peer, online, wire, pinger>>

\* Mutant: Close is trusted to have closed the connection.
ListenEndsTrusting(d) ==
    /\ listener[d].pc = "end"
    /\ listener' = [listener EXCEPT ![d].pc = "gone"]
    /\ online' = FALSE
    /\ wire' = IF shut THEN wire ELSE CloseWire(peer)
    /\ PumpRest /\ UNCHANGED <<peer, pinger>>

ListenEnds(d) ==
    /\ listener[d].pc = "end"
    /\ listener' = [listener EXCEPT ![d].pc = "gone"]
    /\ online' = FALSE /\ wire' = CloseWire(peer)
    /\ PumpRest /\ UNCHANGED <<peer, pinger>>

Listen(d) ==
    ListenBegin(d) \/ ListenTop(d) \/ Receive(d) \/ ListenFails(d) \/ ListenEnds(d)

\* Mutant: a ping that fails marks the client as disconnected.
PingFailsMarking(d) ==
    /\ pinger[d] = "tick"
    /\ Halt \/ ~online \/ wire[peer] # "open"
    /\ pinger' = [pinger EXCEPT ![d] = "gone"] /\ online' = FALSE
    /\ PumpRest /\ UNCHANGED <<peer, wire, listener>>

\* A ping that cannot be written only ends the goroutine.
PingFails(d) ==
    /\ pinger[d] = "tick"
    /\ Halt \/ ~online \/ wire[peer] # "open"
    /\ pinger' = [pinger EXCEPT ![d] = "gone"]
    /\ PumpRest /\ UNCHANGED <<peer, online, wire, listener>>

----------------------------------------------------------------------------
(* Close, the caller's context and the server *)

AgentClose ==
    /\ ~shut
    /\ shut' = TRUE /\ online' = FALSE /\ wire' = CloseWire(peer)
    /\ UNCHANGED <<keeper, peer, ended, listener, pinger>>

EndContext ==
    /\ ~ended /\ ended' = TRUE
    /\ UNCHANGED <<keeper, peer, online, shut, wire, listener, pinger>>

ServerDrops(d) ==
    /\ wire[d] = "open" /\ wire' = [wire EXCEPT ![d] = "lost"]
    /\ UNCHANGED <<keeper, peer, online, shut, ended, listener, pinger>>

AgentNext ==
    \/ CallKeeper \/ Keep \/ AgentClose \/ EndContext
    \/ \E d \in Dials : Listen(d) \/ PingFails(d) \/ ServerDrops(d)

AgentSpec == AgentInit /\ [][AgentNext]_agentVars

----------------------------------------------------------------------------
(* Properties *)

\* Close, wherever it falls among a dial that is under way, the start of the
\* goroutines and a reconnection, ends them all and leaves no connection open.
AgentRests ==
    /\ ~online /\ keeper.pc \in {"idle", "gone"}
    /\ \A d \in Dials : /\ wire[d] # "open" /\ pinger[d] # "tick"
                        /\ listener[d].pc \in {"none", "gone"}
AgentSettles == shut ~> []AgentRests

\* The reading goroutine that ends closes the current connection: it is the one
\* it has read, never the one that has replaced it.
EndsItsOwn ==
    [][\A d \in Dials : listener[d].pc = "end" /\ listener'[d].pc = "gone" =>
           peer = listener[d].conn]_agentVars

\* A connection the server drops is noticed, and another attempt follows; only a
\* limit of attempts lets the client give up.
LossIsAnswered ==
    \A d \in Dials : wire[d] = "lost" ~>
        \/ Halt \/ keeper.pc = "dial" \/ (MaxAttempts > 0 /\ keeper.pc = "gone")

AgentKeeps == AgentSettles /\ EndsItsOwn /\ LossIsAnswered
=============================================================================
