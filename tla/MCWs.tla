-------------------------------- MODULE MCWs --------------------------------
(***************************************************************************)
(* The three modules of internal/ws, which share no state inside one       *)
(* process: a behaviour is one of the hub, of the client of the TUI or of  *)
(* the client of an agent, which part says.                                *)
(***************************************************************************)
EXTENDS Naturals, Sequences

CONSTANTS Conns, MaxChats, MaxStarts, MaxHistory, InboxCap, SendCap,
          MaxConns, MaxReconnect, MaxDials, MaxAttempts

\* The bounds of the hub are numbers; the history may keep nothing.
ASSUME HubAssumption == MaxStarts \in Nat /\ MaxHistory \in Nat

VARIABLES running, starts, loop, clients, history, inbox, posted, sendQ, closed, link, log,
          got, missed,
          dialer, conn, connected, done, tcp, reader, writer, quitter,
          keeper, peer, online, shut, ended, wire, listener, pinger,
          part

H == INSTANCE Hub
T == INSTANCE TUIClient
A == INSTANCE AgentClient

hubVars == <<running, starts, loop, clients, history, inbox, posted, sendQ, closed, link,
             log, got, missed>>
tuiVars == <<dialer, conn, connected, done, tcp, reader, writer, quitter>>
agentVars == <<keeper, peer, online, shut, ended, wire, listener, pinger>>
vars == <<hubVars, tuiVars, agentVars, part>>

Init == H!HubInit /\ T!TuiInit /\ A!AgentInit /\ part \in {"hub", "tui", "agent"}

Next ==
    \/ part = "hub" /\ H!HubNext /\ UNCHANGED <<tuiVars, agentVars, part>>
    \/ part = "tui" /\ T!TuiNext /\ UNCHANGED <<hubVars, agentVars, part>>
    \/ part = "agent" /\ A!AgentNext /\ UNCHANGED <<hubVars, tuiVars, part>>

\* Goroutines that can run do; a ping is due again and again.
Fairness ==
    /\ WF_tuiVars(part = "tui" /\ (T!MarkConnected \/ T!StartPumps))
    /\ WF_tuiVars(part = "tui" /\ T!QuitStep)
    /\ \A k \in T!Links :
        /\ WF_tuiVars(part = "tui" /\ T!ReadStep(k))
        /\ WF_tuiVars(part = "tui" /\ T!WriteEnds(k))
        /\ WF_tuiVars(part = "tui" /\ T!HangUp(k))
    /\ WF_agentVars(part = "agent" /\ A!Keep)
    /\ \A d \in A!Dials : /\ WF_agentVars(part = "agent" /\ A!Listen(d))
                         /\ WF_agentVars(part = "agent" /\ A!PingFails(d))

Spec == Init /\ [][Next]_vars /\ Fairness

\* A peer that asked for the history misses no chat and sees them in order.
HubShows == H!HubShows

\* Nothing is sent on the closed channel of a client.
NoSendOnClosed == H!NoSendOnClosed

\* The client of the TUI comes to rest after a loss or a disconnect.
TuiSettles == T!TuiSettles

\* The client of an agent reconnects until it is closed, and then comes to rest.
AgentKeeps == A!AgentKeeps
=============================================================================
