------------------------------ MODULE TUIClient ------------------------------
(***************************************************************************)
(* The WebSocket client of the TUI (internal/ws/tuiclient.go): the caller  *)
(* of ConnectWithRetry, a reading and a writing goroutine per connection,  *)
(* the caller of Disconnect.  Closing and forgetting the connection are    *)
(* apart from the flag that says it is there.  What the two buffered       *)
(* channels hold is left out: a full one never blocks anybody, since       *)
(* deliverMessage drops the oldest message and Send returns an error.      *)
(***************************************************************************)
EXTENDS Naturals

CONSTANTS MaxConns,     \* bound: connections that are ever made
          MaxReconnect  \* TUIClientConfig.MaxReconnect

Links == 1 .. MaxConns
None == 0

VARIABLES dialer,    \* the caller of ConnectWithRetry: where it is, failed attempts
          conn,      \* TUIClient.conn
          connected, \* TUIClient.connected
          done,      \* whether TUIClient.done is closed
          tcp,       \* each connection: "none", "open", "lost" by the peer, "closed"
          reader,    \* the two goroutines of each connection
          writer,
          quitter    \* the caller of Disconnect and the connection it took

tuiVars == <<dialer, conn, connected, done, tcp, reader, writer, quitter>>

TuiInit ==
    /\ dialer = [pc |-> "idle", tries |-> 0, conn |-> None]
    /\ conn = None /\ connected = FALSE /\ done = FALSE
    /\ tcp = [k \in Links |-> "none"]
    /\ reader = [k \in Links |-> [pc |-> "none", conn |-> None]]
    /\ writer = [k \in Links |-> "none"]
    /\ quitter = [pc |-> "idle", conn |-> None]

Shut(k) == IF k = None THEN tcp ELSE [tcp EXCEPT ![k] = "closed"]

----------------------------------------------------------------------------
(* Connect and ConnectWithRetry *)

ConnectRest == UNCHANGED <<done, quitter>>

CallConnect ==
    /\ dialer.pc = "idle" /\ ~connected
    /\ \E k \in Links : tcp[k] = "none"
    /\ dialer' = [dialer EXCEPT !.pc = "dial"]
    /\ ConnectRest /\ UNCHANGED <<conn, connected, tcp, reader, writer>>

\* An attempt fails; the last one, or the end of the context, gives up.
DialFails ==
    /\ dialer.pc = "dial"
    /\ \/ dialer.tries + 1 < MaxReconnect
          /\ dialer' = [dialer EXCEPT !.tries = @ + 1]
       \/ dialer' = [dialer EXCEPT !.pc = "idle", !.tries = 0]
    /\ ConnectRest /\ UNCHANGED <<conn, connected, tcp, reader, writer>>

Dialled ==
    /\ dialer.pc = "dial"
    /\ \E k \in Links :
          /\ tcp[k] = "none" /\ \A j \in 1 .. k - 1 : tcp[j] # "none"
          /\ tcp' = [tcp EXCEPT ![k] = "open"]
          /\ dialer' = [dialer EXCEPT !.pc = "mark", !.conn = k, !.tries = 0]
          /\ conn' = k
    /\ ConnectRest /\ UNCHANGED <<connected, reader, writer>>

\* The connect handler runs before the goroutines start.
MarkConnected ==
    /\ dialer.pc = "mark"
    /\ connected' = TRUE
    /\ dialer' = [dialer EXCEPT !.pc = "start"]
    /\ ConnectRest /\ UNCHANGED <<conn, tcp, reader, writer>>

StartPumps ==
    /\ dialer.pc = "start"
    /\ reader' = [reader EXCEPT ![dialer.conn].pc = "begin"]
    /\ writer' = [writer EXCEPT ![dialer.conn] = "loop"]
    /\ dialer' = [dialer EXCEPT !.pc = "idle"]
    /\ ConnectRest /\ UNCHANGED <<conn, connected, tcp>>

ConnectStep == DialFails \/ Dialled \/ MarkConnected \/ StartPumps

----------------------------------------------------------------------------
(* readPump of the connection that k started: it reads the current one *)

Rest == UNCHANGED <<dialer, quitter>>
ReaderTo(k, pc) == reader' = [reader EXCEPT ![k].pc = pc]

ReadBegin(k) ==
    /\ reader[k].pc = "begin"
    /\ reader' = [reader EXCEPT ![k] = [pc |-> IF conn = None THEN "lost" ELSE "top",
                                        conn |-> conn]]
    /\ Rest /\ UNCHANGED <<conn, connected, done, tcp, writer>>

\* done is looked at between two reads.
ReadTop(k) ==
    /\ reader[k].pc = "top"
    /\ ReaderTo(k, IF done THEN "lost" ELSE "read")
    /\ Rest /\ UNCHANGED <<conn, connected, done, tcp, writer>>

\* A message arrives and is delivered (deliverMessage).
ReadMessage(k) ==
    /\ reader[k].pc = "read" /\ tcp[reader[k].conn] = "open"
    /\ ReaderTo(k, "top")
    /\ Rest /\ UNCHANGED <<conn, connected, done, tcp, writer>>

\* The connection is dead, or nobody pings it any more and pongWait is over.
ReadFails(k) ==
    /\ reader[k].pc = "read"
    /\ \/ tcp[reader[k].conn] # "open"
       \/ conn # reader[k].conn \/ \A j \in Links : writer[j] # "loop"
    /\ ReaderTo(k, "lost")
    /\ Rest /\ UNCHANGED <<conn, connected, done, tcp, writer>>

----------------------------------------------------------------------------
(* writePump: messages of Send and pings go to the current connection; a    *)
(* write that succeeds changes nothing here                                *)

\* A ping or a message meets no connection, a dead one, or the end of writeWait.
WriteFails(k) ==
    /\ writer[k] = "loop"
    /\ writer' = [writer EXCEPT ![k] = IF conn = None THEN "gone" ELSE "lost"]
    /\ Rest /\ UNCHANGED <<conn, connected, done, tcp, reader>>

WriteEnds(k) ==
    /\ writer[k] = "loop" /\ done
    /\ writer' = [writer EXCEPT ![k] = "gone"]
    /\ Rest /\ UNCHANGED <<conn, connected, done, tcp, reader>>

----------------------------------------------------------------------------
(* handleDisconnect, by the reading or the writing goroutine: a look at the *)
(* flag, then the flag and the channel, then the connection that is current *)
(* by then                                                                 *)

ReaderLooks(k) ==
    /\ reader[k].pc = "lost"
    /\ ReaderTo(k, IF connected THEN "flag" ELSE "gone")
    /\ Rest /\ UNCHANGED <<conn, connected, done, tcp, writer>>

\* Mutant: what doneOnce guards is the whole of it.
ReaderFlagsOnce(k) ==
    /\ reader[k].pc = "flag"
    /\ ReaderTo(k, IF done THEN "gone" ELSE "close")
    /\ connected' = (connected /\ done) /\ done' = TRUE
    /\ Rest /\ UNCHANGED <<conn, tcp, writer>>

ReaderFlags(k) ==
    /\ reader[k].pc = "flag"
    /\ ReaderTo(k, "close")
    /\ connected' = FALSE /\ done' = TRUE
    /\ Rest /\ UNCHANGED <<conn, tcp, writer>>

WriterLooks(k) ==
    /\ writer[k] = "lost"
    /\ writer' = [writer EXCEPT ![k] = IF connected THEN "flag" ELSE "gone"]
    /\ Rest /\ UNCHANGED <<conn, connected, done, tcp, reader>>

WriterFlags(k) ==
    /\ writer[k] = "flag"
    /\ writer' = [writer EXCEPT ![k] = "close"]
    /\ connected' = FALSE /\ done' = TRUE
    /\ Rest /\ UNCHANGED <<conn, tcp, reader>>

ReaderCloses(k) ==
    /\ reader[k].pc = "close"
    /\ ReaderTo(k, "gone")
    /\ tcp' = Shut(conn) /\ conn' = None
    /\ Rest /\ UNCHANGED <<connected, done, writer>>

WriterCloses(k) ==
    /\ writer[k] = "close"
    /\ writer' = [writer EXCEPT ![k] = "gone"]
    /\ tcp' = Shut(conn) /\ conn' = None
    /\ Rest /\ UNCHANGED <<connected, done, reader>>

ReadStep(k) ==
    \/ ReadBegin(k) \/ ReadTop(k) \/ ReadMessage(k) \/ ReadFails(k)
    \/ ReaderLooks(k) \/ ReaderFlags(k) \/ ReaderCloses(k)

HangUp(k) == WriterLooks(k) \/ WriterFlags(k) \/ WriterCloses(k)
WriteStep(k) == WriteFails(k) \/ WriteEnds(k) \/ HangUp(k)

----------------------------------------------------------------------------
(* Disconnect *)

Disconnect ==
    /\ quitter.pc = "idle" /\ connected   \* else it returns at once
    /\ quitter' = [quitter EXCEPT !.pc = "flag"]
    /\ UNCHANGED <<dialer, conn, connected, done, tcp, reader, writer>>

DisconnectFlags ==
    /\ quitter.pc = "flag"
    /\ connected' = FALSE /\ done' = TRUE
    /\ quitter' = [quitter EXCEPT !.pc = "take"]
    /\ UNCHANGED <<dialer, conn, tcp, reader, writer>>

DisconnectTakes ==
    /\ quitter.pc = "take"
    /\ quitter' = [pc |-> "close", conn |-> conn] /\ conn' = None
    /\ UNCHANGED <<dialer, connected, done, tcp, reader, writer>>

\* The close message is written under the write lock, then the connection closed.
DisconnectCloses ==
    /\ quitter.pc = "close"
    /\ tcp' = Shut(quitter.conn)
    /\ quitter' = [pc |-> "idle", conn |-> None]
    /\ UNCHANGED <<dialer, conn, connected, done, reader, writer>>

QuitStep == DisconnectFlags \/ DisconnectTakes \/ DisconnectCloses

PeerDrops(k) ==
    /\ tcp[k] = "open" /\ tcp' = [tcp EXCEPT ![k] = "lost"]
    /\ UNCHANGED <<dialer, conn, connected, done, reader, writer, quitter>>

TuiNext ==
    \/ CallConnect \/ ConnectStep \/ Disconnect \/ QuitStep 
    \/ \E k \in Links : ReadStep(k) \/ WriteStep(k) \/ PeerDrops(k)

TuiSpec == TuiInit /\ [][TuiNext]_tuiVars

----------------------------------------------------------------------------
(* Properties *)

TuiQuiet ==
    /\ ~connected
    /\ \A k \in Links : {reader[k].pc, writer[k]} \subseteq {"none", "gone"}

\* Once a connection was lost or closed the client comes to rest: its goroutines
\* end and it does not stay connected, whichever of the reading goroutine, the
\* writing one and Disconnect noticed first.
TuiSettles == done ~> []TuiQuiet

(* Claims the code does not keep *)

\* A client that has disconnected can be connected again (MaxReconnect,
\* ReconnectWait): it stays connected until the connection is lost.
ReconnectLasts ==
    [][connected /\ ~connected' => \/ quitter.pc = "flag"
                                 \/ \E k \in Links : tcp[k] = "lost" \/ writer[k] \in {"lost", "flag"}]_tuiVars
=============================================================================
