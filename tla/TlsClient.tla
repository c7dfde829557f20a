----------------------------- MODULE TlsClient -----------------------------
(***************************************************************************)
(* SSLClient: the library that carries the chat over TLS.  A call of the   *)
(* user (connect, write, available, read, flush, stop) runs the loop of    *)
(* m_update_engine, one action per turn, because data arrive and the       *)
(* connection breaks between turns.  The user may make any call whenever   *)
(* none is running.                                                        *)
(*                                                                         *)
(* The bytes written on a connection are numbered from 1 in each           *)
(* direction.  External: the Ethernet socket, reduced to its status, its   *)
(* receive buffer and the send that is not yet confirmed; and the server.  *)
(***************************************************************************)
EXTENDS TlsEngine, SequencesExt

CONSTANTS
  Timeout,    \* turns m_run_until waits: 30 s
  MaxWritten, \* bound: bytes written on a connection
  MaxSupplied \* bound: bytes the server supplies on a connection

ASSUME TlsAssumption ==
  Timeout \in Nat /\ MaxWritten \in Nat /\ MaxSupplied \in Nat

VARIABLES
  pc,         \* "idle", "update" (m_update_engine) or "flush" (EthernetClient::flush)
  op,         \* the call being made
  rest,       \* of a write: what is still to be copied
  waited,     \* turns m_run_until has waited
  eng,        \* the engine
  buffered,   \* the m_write_idx bytes copied behind the engine's back
  m_is_connected,
  m_sessions, \* the session of a connection before is kept
  writeError, \* of SSLClient
  sock,       \* status of the socket; "none" when sockindex is MAX_SOCK_NUM
  incoming,   \* units received by the socket
  sending,    \* SENDOK of the last send has not come
  sockError,  \* write error of the Ethernet client, never cleared
  wlen,       \* the write before the flush succeeded
  served,     \* external: bytes at the server
  supplied,   \* external: how many bytes the server has supplied
  closeSent,  \* external: the server's close_notify is out
  written,    \* history: how many bytes were copied on this connection
  got         \* history: the bytes read on this connection

callVars == <<pc, op, rest, waited>>
sslVars == <<eng, buffered, m_is_connected, writeError>>
socketVars == <<sock, incoming, sending, sockError, wlen>>
serverVars == <<served, supplied, closeSent>>
historyVars == <<written, got>>
tlsVars == <<callVars, sslVars, m_sessions, socketVars, serverVars, historyVars>>

Calls == {"connect", "write", "available", "read", "flush", "stop"}
Ints(from, n) == [i \in 1..n |-> from + i]
Header(r) == [part |-> "header", rec |-> r]
Rest(r)   == [part |-> "rest", rec |-> r]

TlsInit ==
  /\ pc = "idle" /\ op = "stop" /\ rest = << >> /\ waited = 0
  /\ eng = br_ssl_engine_fail(EngineInit)
  /\ buffered = << >> /\ m_is_connected = FALSE /\ writeError = FALSE
  /\ sock = "none" /\ incoming = << >> /\ sending = FALSE /\ sockError = FALSE
  /\ wlen = FALSE
  /\ served = << >> /\ supplied = 0 /\ closeSent = FALSE
  /\ written = 0 /\ got = << >>
  /\ m_sessions = FALSE

-----------------------------------------------------------------------------
(* The calls *)

\* connected of the Ethernet client.
c_con == sock = "ESTABLISHED" \/ (sock = "CLOSE_WAIT" /\ incoming # << >>)
m_soft_connected == ~writeError /\ m_is_connected /\ ~CLOSED(eng)

Begin(call, bytes) ==
  /\ pc' = "update" /\ op' = call /\ rest' = bytes /\ waited' = 0

Return == pc' = "idle" /\ rest' = << >> /\ waited' = 0 /\ UNCHANGED op

\* stop of the Ethernet client, whatever the socket's status was.
SocketStops ==
  /\ sock' = "none" /\ incoming' = << >> /\ sending' = FALSE
  /\ UNCHANGED <<sockError, wlen>>

\* connect: the socket is there, and m_start_ssl begins.  A socket still open is closed
\* first.
Connect ==
  /\ pc = "idle"
  /\ Begin("connect", << >>)
  /\ eng' = EngineInit /\ buffered' = << >> /\ writeError' = FALSE
  /\ UNCHANGED m_is_connected
  /\ sock' = "ESTABLISHED" /\ incoming' = << >> /\ sending' = FALSE
  /\ UNCHANGED <<sockError, wlen>>
  /\ served' = << >> /\ supplied' = 0 /\ closeSent' = FALSE
  /\ written' = 0 /\ got' = << >>
  /\ UNCHANGED m_sessions

\* A connection refused leaves the client holding a closed socket; one that times out, none.
ConnectFails ==
  /\ pc = "idle"
  /\ buffered' = << >> /\ writeError' = TRUE
  /\ sock' \in {"none", "CLOSED"} /\ incoming' = << >> /\ sending' = FALSE
  /\ UNCHANGED <<callVars, eng, m_is_connected, sockError, wlen, serverVars, historyVars,
                 m_sessions>>

Write(n) ==
  /\ pc = "idle" /\ m_soft_connected /\ written + n <= MaxWritten
  /\ Begin("write", Ints(written, n))
  /\ UNCHANGED <<sslVars, socketVars, serverVars, historyVars, m_sessions>>

Available ==
  /\ pc = "idle" /\ m_soft_connected
  /\ Begin("available", << >>)
  /\ UNCHANGED <<sslVars, socketVars, serverVars, historyVars, m_sessions>>

Read ==
  /\ pc = "idle" /\ m_soft_connected
  /\ Begin("read", << >>)
  /\ UNCHANGED <<sslVars, socketVars, serverVars, historyVars, m_sessions>>

Flush ==
  /\ pc = "idle" /\ buffered # << >>
  /\ Begin("flush", << >>)
  /\ UNCHANGED <<sslVars, socketVars, serverVars, historyVars, m_sessions>>

\* What stop does to the engine: unread data are discarded.
DiscardIncoming(e) ==
  IF RECVAPP(e) THEN br_ssl_engine_recvapp_ack(e, Len(e.in)) ELSE e

\* What connected does when the socket was dropped: the write error is set only if the
\* Ethernet client has ever had one.
Dropped == ~CLOSED(eng) /\ m_is_connected /\ ~c_con

StopNow ==
  /\ pc = "idle" /\ (buffered = << >> \/ CLOSED(eng) \/ ~m_is_connected \/ ~c_con)
  /\ writeError' = (writeError \/ (Dropped /\ sockError))
  /\ eng' = IF ~CLOSED(eng) /\ m_is_connected /\ c_con THEN DiscardIncoming(eng) ELSE eng
  /\ m_is_connected' = FALSE
  /\ SocketStops
  /\ UNCHANGED <<callVars, buffered, serverVars, historyVars, m_sessions>>

\* With something written and not sent, stop flushes first.
StopFlushes ==
  /\ pc = "idle" /\ buffered # << >> /\ ~CLOSED(eng) /\ m_is_connected /\ c_con
  /\ Begin("stop", << >>)
  /\ eng' = DiscardIncoming(eng)
  /\ UNCHANGED <<buffered, m_is_connected, writeError, socketVars, serverVars, historyVars,
                 m_sessions>>

\* connected: a socket dropped under an open engine ends the connection.
ConnectedCall ==
  /\ pc = "idle" /\ Dropped
  /\ writeError' = (writeError \/ sockError)
  /\ m_is_connected' = FALSE
  /\ SocketStops
  /\ UNCHANGED <<callVars, eng, buffered, serverVars, historyVars, m_sessions>>

-----------------------------------------------------------------------------
(* A turn of m_update_engine *)

Updating == pc = "update" /\ ~CLOSED(eng)

\* The error branches: the write error, then stop, which finds nothing to flush.
Fail ==
  /\ writeError' = TRUE /\ m_is_connected' = FALSE
  /\ eng' = IF m_is_connected /\ c_con THEN DiscardIncoming(eng) ELSE eng
  /\ SocketStops
  /\ UNCHANGED buffered
  /\ Return

\* A record to send takes precedence.  A send before the last one is confirmed fails; one
\* on a closed socket is reported as done (the code returns a negative error, unsigned).
Transmit ==
  /\ Updating /\ SENDREC(eng)
  /\ pc' = "flush"
  /\ IF sock \in {"ESTABLISHED", "CLOSE_WAIT"}
     THEN IF sending
          THEN wlen' = FALSE /\ sockError' = TRUE /\ UNCHANGED <<sending, served>>
          ELSE /\ wlen' = TRUE /\ sending' = TRUE
               /\ served' = served \o eng.rec.data
               /\ UNCHANGED sockError
     ELSE wlen' = (sock = "CLOSED") /\ UNCHANGED <<sending, sockError, served>>
  /\ UNCHANGED <<op, rest, waited, sslVars, sock, incoming, supplied, closeSent, historyVars,
                 m_sessions>>

\* (Mutant: the result of the write is not looked at.)
SentUnchecked == TRUE
Sent == wlen

\* flush returns when the socket is ESTABLISHED, or is none at all.
FlushReturns ==
  /\ pc = "flush" /\ sock \in {"ESTABLISHED", "none"} /\ Sent
  /\ pc' = "update"
  /\ eng' = br_ssl_engine_sendrec_ack(eng)
  /\ UNCHANGED <<op, rest, waited, buffered, m_is_connected, writeError, socketVars,
                 serverVars, historyVars, m_sessions>>

TransmitFailed ==
  /\ pc = "flush" /\ sock \in {"ESTABLISHED", "none"} /\ ~Sent
  /\ Fail
  /\ UNCHANGED <<serverVars, historyVars, m_sessions>>

\* What was copied since the last turn is reported to the engine.
Seal ==
  /\ Updating /\ ~SENDREC(eng) /\ buffered # << >> /\ SENDAPP(eng)
  /\ eng' = br_ssl_engine_sendapp_ack(eng, buffered)
  /\ buffered' = << >>
  /\ UNCHANGED <<callVars, m_is_connected, writeError, socketVars, serverVars, historyVars,
                 m_sessions>>

\* (Mutant: incoming data are read before what was copied is reported.)
MayReceiveEarly == Updating /\ ~SENDREC(eng) /\ RECVREC(eng) /\ incoming # << >>
MayReceive ==
  Updating /\ ~SENDREC(eng) /\ buffered = << >> /\ RECVREC(eng) /\ incoming # << >>

\* The unit read lands in the shared buffer.
Receive ==
  /\ MayReceive /\ sock # "CLOSED"
  /\ LET u == Head(incoming) IN
       eng' = IF u.part = "header" THEN recvrec_ack_header(eng, u.rec)
              ELSE recvrec_ack_body(eng, u.rec)
  /\ buffered' = Clobbered(buffered)
  /\ incoming' = Tail(incoming)
  /\ UNCHANGED <<callVars, m_is_connected, writeError, sock, sending, sockError, wlen,
                 serverVars, historyVars, m_sessions>>

\* A closed socket has bytes and does not give them.
ReceiveFails ==
  /\ MayReceive /\ sock = "CLOSED"
  /\ Fail
  /\ UNCHANGED <<serverVars, historyVars, m_sessions>>

-----------------------------------------------------------------------------
(* m_update_engine has returned a state *)

Quiet ==
  /\ pc = "update"
  /\ CLOSED(eng) \/ (~SENDREC(eng) /\ buffered = << >> /\ ~(RECVREC(eng) /\ incoming # << >>))

ForSend == op \in {"connect", "write"}  \* m_run_until(BR_SSL_SENDAPP)
ForRecv == op \in {"flush", "stop"}     \* m_run_until(BR_SSL_RECVAPP)
Reached == (ForSend /\ SENDAPP(eng)) \/ (ForRecv /\ RECVAPP(eng))

\* available: how much there is to read; what is stuck in the engine is pushed on.
\* (Mutant: it is left there.)
PushLeft(e) == e
Push(e) == IF SENDAPP(e) /\ ~RECVAPP(e) THEN br_ssl_engine_flush(e) ELSE e

AvailableReturns ==
  /\ Quiet /\ op = "available"
  /\ eng' = Push(eng)
  /\ Return
  /\ UNCHANGED <<buffered, m_is_connected, writeError, socketVars, serverVars, historyVars,
                 m_sessions>>

\* (Mutant: all that is there is acknowledged, not what was read.)
ReadAckAll(e, n) == br_ssl_engine_recvapp_ack(e, Len(e.in))
ReadAck(e, n) == br_ssl_engine_recvapp_ack(e, n)

\* read begins with available.
ReadReturns ==
  /\ Quiet /\ op = "read"
  /\ IF RECVAPP(eng)
     THEN \E n \in 1..Len(eng.in) :
            /\ got' = got \o SubSeq(eng.in, 1, n)
            /\ eng' = ReadAck(eng, n)
     ELSE eng' = Push(eng) /\ UNCHANGED got
  /\ Return
  /\ UNCHANGED <<buffered, m_is_connected, writeError, socketVars, serverVars, written,
                 m_sessions>>

\* The end of a call: stop closes the socket, whether its flush succeeded or not.
CallEnds ==
  /\ Return
  /\ IF op = "stop" THEN m_is_connected' = FALSE /\ SocketStops
     ELSE UNCHANGED <<m_is_connected, socketVars>>

\* (Mutant: the wait has no end.)
TimeUpNever == FALSE
TimeUp == waited = Timeout

EngineClosed ==
  /\ Quiet /\ (ForSend \/ ForRecv) /\ CLOSED(eng)
  /\ CallEnds
  /\ UNCHANGED <<eng, buffered, writeError, serverVars, historyVars, m_sessions>>

\* The deadline comes before the test of the target.
TimesOut ==
  /\ Quiet /\ (ForSend \/ ForRecv) /\ ~CLOSED(eng) /\ TimeUp
  /\ Fail
  /\ UNCHANGED <<serverVars, historyVars, m_sessions>>

MayGoOn == Quiet /\ ~CLOSED(eng) /\ ~TimeUp

ConnectReturns ==
  /\ MayGoOn /\ op = "connect" /\ Reached
  /\ m_is_connected' = TRUE /\ m_sessions' = TRUE
  /\ Return
  /\ UNCHANGED <<eng, buffered, writeError, socketVars, serverVars, historyVars>>

\* write copies behind what the engine holds, as much as the record takes; a full record
\* is reported, and the write waits until the engine can send again.
Copy ==
  /\ MayGoOn /\ op = "write" /\ Reached /\ rest # << >>
  /\ LET room == sendapp_len(eng) - Len(buffered)
         n == IF Len(rest) < room THEN Len(rest) ELSE room
         full == n = room
         copied == buffered \o SubSeq(rest, 1, n) IN
     /\ eng' = IF full THEN br_ssl_engine_sendapp_ack(eng, copied) ELSE eng
     /\ buffered' = IF full THEN << >> ELSE copied
     /\ written' = written + n
     /\ IF full
        THEN rest' = SubSeq(rest, n + 1, Len(rest)) /\ waited' = 0 /\ UNCHANGED <<pc, op>>
        ELSE Return
  /\ UNCHANGED <<m_is_connected, writeError, socketVars, serverVars, got, m_sessions>>

WriteReturns ==
  /\ MayGoOn /\ op = "write" /\ Reached /\ rest = << >>
  /\ Return
  /\ UNCHANGED <<sslVars, socketVars, serverVars, historyVars, m_sessions>>

FlushEnds ==
  /\ MayGoOn /\ ForRecv /\ Reached
  /\ CallEnds
  /\ UNCHANGED <<eng, buffered, writeError, serverVars, historyVars, m_sessions>>

\* Data that came in stand in the way of a write, and are discarded.
DiscardUnread ==
  /\ MayGoOn /\ ForSend /\ ~Reached /\ RECVAPP(eng)
  /\ eng' = br_ssl_engine_recvapp_ack(eng, Len(eng.in))
  /\ buffered' = << >>
  /\ UNCHANGED <<callVars, m_is_connected, writeError, socketVars, serverVars, historyVars,
                 m_sessions>>

\* Nothing to do but to flush (nothing, mostly) and look again.
WaitTurn ==
  /\ MayGoOn /\ (ForSend \/ ForRecv) /\ ~Reached /\ ~(ForSend /\ RECVAPP(eng))
  /\ eng' = IF ForRecv /\ SENDAPP(eng) THEN br_ssl_engine_flush(eng) ELSE eng
  /\ waited' = IF eng' = eng /\ waited < Timeout THEN waited + 1 ELSE waited
  /\ UNCHANGED <<pc, op, rest, buffered, m_is_connected, writeError, socketVars, serverVars,
                 historyVars, m_sessions>>

Loop ==
  \/ Transmit \/ FlushReturns \/ TransmitFailed \/ Seal \/ Receive \/ ReceiveFails
  \/ AvailableReturns \/ ReadReturns \/ EngineClosed \/ TimesOut \/ ConnectReturns
  \/ Copy \/ WriteReturns \/ FlushEnds \/ DiscardUnread \/ WaitTurn

-----------------------------------------------------------------------------
(* External: the socket and the server *)

Alive == sock \in {"ESTABLISHED", "CLOSE_WAIT"}

SendConfirmed ==
  /\ Alive /\ sending /\ sending' = FALSE
  /\ UNCHANGED <<callVars, sslVars, sock, incoming, sockError, wlen, serverVars, historyVars,
                 m_sessions>>

Arrives(r) == incoming' = incoming \o <<Header(r), Rest(r)>>

\* The server's part of the handshake comes when the client waits for it.  It may resume
\* the session the client has offered.
ServerHandshakes ==
  /\ sock = "ESTABLISHED" /\ incoming = << >> /\ ~eng.head /\ ~CLOSED(eng)
  /\ eng.hs < OPEN /\ HandshakeScript[eng.hs] = "recv"
  /\ \/ Arrives(HANDSHAKE)
     \/ m_sessions /\ eng.hs = 2 /\ Arrives(RESUMES)
  /\ UNCHANGED <<callVars, sslVars, sock, sending, sockError, wlen, serverVars, historyVars,
                 m_sessions>>

ServerSupplies(n) ==
  /\ sock = "ESTABLISHED" /\ ~closeSent /\ eng.hs = OPEN /\ supplied + n <= MaxSupplied
  /\ Arrives(Data(Ints(supplied, n)))
  /\ supplied' = supplied + n
  /\ UNCHANGED <<callVars, sslVars, sock, sending, sockError, wlen, served, closeSent,
                 historyVars, m_sessions>>

\* A record too large for the buffer, or a damaged one.
ServerBreaks ==
  /\ sock = "ESTABLISHED" /\ ~closeSent /\ eng.hs = OPEN
  /\ Arrives(BROKEN) /\ closeSent' = TRUE
  /\ UNCHANGED <<callVars, sslVars, sock, sending, sockError, wlen, served, supplied,
                 historyVars, m_sessions>>

ServerCloses ==
  /\ sock = "ESTABLISHED" /\ ~closeSent /\ eng.hs = OPEN
  /\ Arrives(CLOSE_NOTIFY) /\ closeSent' = TRUE
  /\ UNCHANGED <<callVars, sslVars, sock, sending, sockError, wlen, served, supplied,
                 historyVars, m_sessions>>

\* A FIN, with or without a close_notify before it.
ServerFin ==
  /\ sock = "ESTABLISHED" /\ sock' = "CLOSE_WAIT"
  /\ UNCHANGED <<callVars, sslVars, incoming, sending, sockError, wlen, serverVars,
                 historyVars, m_sessions>>

SocketDrops ==
  /\ Alive /\ sock' = "CLOSED" /\ sending' = FALSE
  /\ UNCHANGED <<callVars, sslVars, incoming, sockError, wlen, serverVars, historyVars,
                 m_sessions>>

\* The watchdog of the board: a flush that does not return ends in a restart.
Hangs == pc = "flush" /\ sock \in {"CLOSE_WAIT", "CLOSED"}

Restart ==
  /\ Hangs
  /\ pc' = "idle" /\ op' = "stop" /\ rest' = << >> /\ waited' = 0
  /\ eng' = br_ssl_engine_fail(EngineInit)
  /\ buffered' = << >> /\ m_is_connected' = FALSE /\ writeError' = FALSE
  /\ sock' = "none" /\ incoming' = << >> /\ sending' = FALSE /\ sockError' = FALSE
  /\ wlen' = FALSE /\ m_sessions' = FALSE
  /\ UNCHANGED <<serverVars, historyVars>>

Environment ==
  \/ SendConfirmed \/ ServerHandshakes \/ (\E n \in 1..MaxSupplied : ServerSupplies(n))
  \/ ServerBreaks \/ ServerCloses \/ ServerFin \/ SocketDrops \/ Restart

User ==
  \/ Connect \/ ConnectFails \/ (\E n \in 1..MaxWritten : Write(n))
  \/ Available \/ Read \/ Flush \/ StopNow \/ StopFlushes \/ ConnectedCall

TlsNext == User \/ Loop \/ Environment

TlsSpec == TlsInit /\ [][TlsNext]_tlsVars

\* The loop runs whenever a call is being made, and the user polls available again and
\* again while it waits for the reply (openAI.h:229-236).
TlsFairSpec == TlsSpec /\ WF_tlsVars(Loop) /\ SF_tlsVars(Available)

-----------------------------------------------------------------------------
(* Properties *)

\* The connection carries data: both ends of it, the engine and the client.
Live ==
  /\ sock \in {"ESTABLISHED", "CLOSE_WAIT"} /\ ~CLOSED(eng) /\ ~writeError
  /\ eng.hs = OPEN

\* What was written and is not at the server yet.  A record that is out and not
\* acknowledged to the engine counts as sent.
Queued == (IF pc = "flush" /\ wlen THEN << >> ELSE eng.rec.data) \o eng.out \o buffered
WithData(s, u) == IF u.part = "rest" THEN s \o u.rec.data ELSE s
DataOf(units) == FoldLeft(WithData, << >>, units)
Unread ==
  IF CLOSED(eng) \/ writeError \/ eng.hs # OPEN THEN << >>
  ELSE eng.in \o (IF sock = "CLOSED" THEN << >> ELSE DataOf(incoming))

TlsTypeOK ==
  /\ pc \in {"idle", "update", "flush"} /\ op \in Calls
  /\ waited \in 0..Timeout
  /\ eng.iomode \in {"IN", "OUT", "INOUT", "FAILED"} /\ eng.hs \in 1..CLOSING
  /\ sock \in {"none", "ESTABLISHED", "CLOSE_WAIT", "CLOSED"}
  /\ Len(eng.out) + Len(buffered) < OutRoom

\* The buffer is shared, and write copies into it without telling the engine: no byte that
\* waits there to be sent is overwritten by a record coming in, not even when the record
\* comes right between the copy and the next turn (SSLClient.cpp:118, 508-548;
\* ssl_engine.c:611).
BufferNotShared ==
  /\ ~(eng.head \/ eng.in # << >>) \/ (eng.out = << >> /\ buffered = << >> /\ eng.rec = NoRecord)
  /\ buffered # << >> => SENDAPP(eng) \/ CLOSED(eng)

\* Through partial records, discarded input, failed sends and closings: the server has a
\* beginning of what was written, and while the connection carries data the rest is still
\* queued, in order and whole (SSLClient.cpp:93-140, 508-548).
SentInOrder ==
  /\ IsPrefix(served, Ints(0, written))
  /\ Live => served \o Queued = Ints(0, written)

\* What is read follows what was read in the order supplied, and nothing is dropped while
\* the connection lasts but by a call that must send or stop (SSLClient.cpp:205-229,
\* 437-452; ssl_engine.c:566-600).
ReadSkipsNothing ==
  [][Live /\ Live' /\ op' \notin {"connect", "write", "stop"}
       => IsPrefix(got \o Unread, got' \o Unread')]_tlsVars

\* What was written does not stay behind: polling pushes it out, full record or not,
\* unless the connection ends or hangs (SSLClient.cpp:157, 508-548).
WrittenIsSent == Live /\ Queued # << >> ~> Queued = << >> \/ ~Live \/ Hangs

\* Every call returns, but for the flush of a socket the server has closed, which the watchdog
\* must end (EthernetClient.cpp:132-149, SSLClient.cpp:489).  This is about the client over a
\* socket that takes a record or refuses it and whose stop returns: the waits in
\* socketDisconnect and, for room, in socketSend have no limit in the software either
\* (socket.cpp:356, 675).
CallsReturn == pc # "idle" ~> pc = "idle" \/ Hangs

Channels ==
  INSTANCE Channel WITH
    Bytes <- 1..MaxWritten \cup 1..MaxSupplied,
    open <- Live,
    out <- IF Live THEN Queued ELSE << >>, delivered <- served,
    in <- Unread, taken <- got

\* The client with its engine and its socket is a channel.
IsChannel == Channels!ChannelSpec
=============================================================================
