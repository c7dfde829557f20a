------------------------------ MODULE Sockets ------------------------------
(***************************************************************************)
(* Who uses the sockets of the W5300: the clock (one UDP socket, opened    *)
(* once and kept), the name lookups (a UDP socket each, closed at the end) *)
(* and the connection of the chat (TCP).  Everything is called from one    *)
(* thread and waits for its result; the peers and the network answer late, *)
(* twice or not at all, and keep a connection half open as long as they    *)
(* like.                                                                   *)
(*                                                                         *)
(* An address is the host it belongs to.  Lengths are counted in pieces:   *)
(* one for a DNS query, two for an NTP request.                            *)
(***************************************************************************)
EXTENDS Integers, Sequences, FiniteSets, FiniteSetsExt

CONSTANTS
  MAX_SOCK_NUM,
  Ports,        \* local ports of lookups: 1024 + (millis() & 0xF)
  MaxLength,    \* bound: where the count of pieces stays (the code counts on)
  MaxWaiting    \* bound: datagrams waiting in a socket

\* The configuration has four sockets; the clock keeps one, so that a lookup needs a second.
\* The bound on the count leaves room for a whole datagram.
ASSUME SocketsAssumption ==
  /\ MAX_SOCK_NUM \in Nat /\ MAX_SOCK_NUM >= 2
  /\ MaxLength \in Nat /\ MaxLength >= 2
  /\ MaxWaiting \in Nat /\ 123 \notin Ports

VARIABLES
  pc,      \* where the caller is: "boot", "idle", or waiting
  task,    \* what the caller is busy with: "clock", "chat" or "stop"
  status,  \* of each socket; "TIMEOUT" when the chip has given up but not closed it yet
  port,    \* local port of each UDP socket
  rx,      \* datagrams waiting in each
  Udp, iUdp, client, \* the socket the clock, the lookup and the chat hold; 0 is MAX_SOCK_NUM
  dnsServer, \* the lease named a DNS server
  address, \* what the lookup gave: a host, or "none" (0.0.0.0)
  udp_send_packet_len, \* one counter for all sockets
  late,    \* external: answers on their way, each with the port it goes to
  asked,   \* history: the hosts asked for, each with the local port of its query
  asking,  \* history: local port of the present lookup, or of the last
  sent,    \* history: pieces counted and pieces written of the last datagram sent
  timedOut \* history: a send has timed out

callVars == <<pc, task>>
tableVars == <<status, port, rx>>
holders == <<Udp, iUdp, client, dnsServer>>
lengthVars == <<udp_send_packet_len, sent, timedOut>>
asks == <<asked, asking>>
vars == <<callVars, tableVars, holders, address, lengthVars, late, asks>>

Sn == 1..MAX_SOCK_NUM
HostOf(t) == IF t = "clock" THEN "ntp" ELSE "openai"
Stray == "stray"

SocketsInit ==
  /\ pc = "boot" /\ task = "clock"
  /\ status = [s \in Sn |-> "CLOSED"] /\ port = [s \in Sn |-> 0]
  /\ rx = [s \in Sn |-> << >>]
  /\ Udp = 0 /\ iUdp = 0 /\ client = 0 /\ dnsServer \in BOOLEAN
  /\ address = "none" /\ udp_send_packet_len = 0 /\ late = {} /\ asked = {} /\ asking = 0
  /\ sent = [counted |-> 0, written |-> 0] /\ timedOut = FALSE

-----------------------------------------------------------------------------
(* The table *)

Closed == {s \in Sn : status[s] = "CLOSED"}

\* socketBegin takes the first closed socket.  It would take a closing one before it fails,
\* but no caller leaves one: a disconnect waits until the socket is closed.
socketBegin == Min(Closed)

Opened(s, kind, p) ==
  /\ status' = [status EXCEPT ![s] = kind]
  /\ port' = [port EXCEPT ![s] = p]
  /\ rx' = [rx EXCEPT ![s] = << >>]

\* socketClose, and socketDisconnect, which waits for the end.
Closes(s) ==
  /\ status' = [status EXCEPT ![s] = "CLOSED"]
  /\ port' = [port EXCEPT ![s] = 0]
  /\ rx' = [rx EXCEPT ![s] = << >>]

-----------------------------------------------------------------------------
(* A lookup (getHostByName) *)

\* Pieces written into a transmit buffer are counted, for whatever socket.
Written(n) ==
  udp_send_packet_len' = IF udp_send_packet_len + n <= MaxLength THEN udp_send_packet_len + n
                         ELSE MaxLength

\* The query is written.
LookupBegins ==
  /\ pc = "lookup" /\ dnsServer /\ Closed # {}
  /\ \E p \in Ports : Opened(socketBegin, "UDP", p) /\ asking' = p
  /\ iUdp' = socketBegin
  /\ Written(1)
  /\ pc' = "query"
  /\ UNCHANGED <<task, Udp, client, dnsServer, address, late, asked, sent, timedOut>>

\* A datagram is sent; only then is the counter reset.  (Mutant: it never is.)
ResetNever == UNCHANGED udp_send_packet_len
Reset == udp_send_packet_len' = 0

SendOk(written) ==
  /\ sent' = [counted |-> udp_send_packet_len, written |-> written]
  /\ Reset
  /\ UNCHANGED timedOut

SendTimesOut == timedOut' = TRUE /\ UNCHANGED <<udp_send_packet_len, sent>>

\* (Mutant: the socket of the lookup stays open.)
StopForgotten == iUdp' = 0 /\ UNCHANGED tableVars
Stop == iUdp' = 0 /\ Closes(iUdp)

\* Only a query that could not be sent gives 0.  Whatever went wrong later does not: the
\* result of ProcessResponse is a uint16_t, in which TIMED_OUT is 65535, and a missing server
\* is INVALID_SERVER.
INVALID_SERVER == -2
AsUint16(n) == IF n < 0 THEN n + 65536 ELSE n

\* What the caller does after the lookup: the chat goes on unless it got 0, the clock sends its
\* request all the same.
After(t, ret) ==
  IF t = "clock" THEN "clock" ELSE IF ret # 0 THEN "connect" ELSE "idle"

LookupEnds(ret) == Stop /\ pc' = After(task, ret)

\* Without a server there is no lookup.
LookupRefused ==
  /\ pc = "lookup" /\ ~dnsServer
  /\ pc' = After(task, INVALID_SERVER) /\ address' = "none"
  /\ UNCHANGED <<task, tableVars, holders, lengthVars, late, asks>>

QuerySent ==
  /\ pc = "query" /\ SendOk(1)
  /\ late' = late \cup {[host |-> HostOf(task), port |-> port[iUdp]]}
  /\ asked' = asked \cup {[host |-> HostOf(task), port |-> port[iUdp]]}
  /\ pc' = "answer"
  /\ UNCHANGED <<task, tableVars, holders, address, asking>>

QueryTimesOut ==
  /\ pc = "query" /\ SendTimesOut
  /\ LookupEnds(0) /\ address' = "none"
  /\ UNCHANGED <<task, Udp, client, dnsServer, late, asks>>

\* The check of server and request number: every request has the same number, since
\* DNS_init sets it back.  (Mutant: no check.)
AcceptsAll(d) == TRUE
Accepts(d) == d # Stray

\* An answer that is not accepted ends the lookup.  (Mutant: the wait begins again.)
AnswerReadsOn ==
  /\ pc = "answer" /\ rx[iUdp] # << >>
  /\ LET d == Head(rx[iUdp]) IN
     IF Accepts(d) THEN address' = d /\ LookupEnds(1)
     ELSE rx' = [rx EXCEPT ![iUdp] = Tail(@)] /\ UNCHANGED <<pc, status, port, iUdp, address>>
  /\ UNCHANGED <<task, Udp, client, dnsServer, lengthVars, late, asks>>

AnswerRead ==
  /\ pc = "answer" /\ rx[iUdp] # << >>
  /\ LET d == Head(rx[iUdp]) IN
     /\ address' = IF Accepts(d) THEN d ELSE "none"
     /\ LookupEnds(AsUint16(IF Accepts(d) THEN 1 ELSE INVALID_SERVER))
  /\ UNCHANGED <<task, Udp, client, dnsServer, lengthVars, late, asks>>

\* The loop "while ret == TIMED_OUT" ends after its first wait: 65535 is not TIMED_OUT.
TIMED_OUT == -1

AnswerWaitEnds ==
  /\ pc = "answer" /\ rx[iUdp] = << >>
  /\ LookupEnds(AsUint16(TIMED_OUT)) /\ address' = "none"
  /\ UNCHANGED <<task, Udp, client, dnsServer, lengthVars, late, asks>>

-----------------------------------------------------------------------------
(* The clock (initInternetClock), once *)

ClockBegins ==
  /\ pc = "boot" /\ Closed # {}
  /\ Udp' = socketBegin /\ Opened(socketBegin, "UDP", 123)
  /\ task' = "clock" /\ pc' = "lookup"
  /\ UNCHANGED <<iUdp, client, dnsServer, address, lengthVars, late, asks>>

\* The result of the lookup is not looked at, nor is that of the send.
ClockWrites ==
  /\ pc = "clock" /\ Written(2)
  /\ pc' = "clocksend"
  /\ UNCHANGED <<task, tableVars, holders, address, late, asks, sent,
                 timedOut>>

ClockSends ==
  /\ pc = "clocksend"
  /\ \/ SendOk(2) /\ late' = late \cup {[host |-> "ntp", port |-> 123]}
     \/ SendTimesOut /\ UNCHANGED late
  /\ pc' = "clockwait"
  /\ UNCHANGED <<task, tableVars, holders, address, asks>>

\* Any datagram sets the clock; or three seconds pass.
ClockEnds ==
  /\ pc = "clockwait" /\ pc' = "idle"
  /\ \/ rx[Udp] # << >> /\ rx' = [rx EXCEPT ![Udp] = Tail(@)]
     \/ rx[Udp] = << >> /\ UNCHANGED rx
  /\ UNCHANGED <<task, status, port, holders, address, lengthVars, late, asks>>

-----------------------------------------------------------------------------
(* The connection of the chat (EthernetClient) *)

\* socketDisconnect sends a FIN, the first of the connection or the answer to the peer's.
Disconnects(s) ==
  status' = [status EXCEPT ![s] = CASE @ = "ESTABLISHED" -> "FIN_WAIT"
                                    [] @ = "CLOSE_WAIT" -> "LAST_ACK"
                                    [] OTHER -> @]

\* What is left of the last connection is given back before the lookup.  (Mutant: only
\* after it.)
ReleaseLate == pc' = "lookup" /\ UNCHANGED <<tableVars, client>>
Release ==
  IF client # 0 /\ status[client] # "CLOSED"
  THEN pc' = "releasing" /\ Disconnects(client) /\ UNCHANGED <<port, rx, client>>
  ELSE pc' = "lookup" /\ client' = 0 /\ UNCHANGED tableVars

ChatConnects ==
  /\ pc = "idle" /\ Release
  /\ task' = "chat"
  /\ UNCHANGED <<Udp, iUdp, dnsServer, address, lengthVars, late, asks>>

ChatStops ==
  /\ pc = "idle" /\ client # 0
  /\ Disconnects(client)
  /\ task' = "stop" /\ pc' = "releasing"
  /\ UNCHANGED <<port, rx, holders, address, lengthVars, late, asks>>

\* The wait of socketDisconnect ends with the socket closed or the chip's timeout, no other way.
Released ==
  /\ pc = "releasing" /\ status[client] \in {"CLOSED", "TIMEOUT"}
  /\ Closes(client) /\ client' = 0
  /\ pc' = IF task = "stop" THEN "idle" ELSE "lookup"
  /\ UNCHANGED <<task, Udp, iUdp, dnsServer, address, lengthVars, late, asks>>

\* 0.0.0.0 is refused here, and no sooner.
ConnectRefused ==
  /\ pc = "connect" /\ address = "none"
  /\ pc' = "idle"
  /\ UNCHANGED <<task, tableVars, holders, address, lengthVars, late, asks>>

ConnectBegins ==
  /\ pc = "connect" /\ address # "none" /\ Closed # {}
  /\ client' = socketBegin /\ Opened(socketBegin, "SYNSENT", 0)
  /\ pc' = "connecting"
  /\ UNCHANGED <<task, Udp, iUdp, dnsServer, address, lengthVars, late, asks>>

\* What ends the wait of socketConnect.  A connection that the peer has ended before it is
\* looked at does not.
ConnectOver(st) == st \in {"ESTABLISHED", "TIMEOUT", "CLOSED"}

ConnectWaitEnds ==
  /\ pc = "connecting" /\ ConnectOver(status[client])
  /\ pc' = "polling"
  /\ UNCHANGED <<task, tableVars, holders, address, lengthVars, late, asks>>

\* Connected, if only for a moment; refused, when the client keeps a closed socket; or still
\* neither after the client's own timeout.
Connects ==
  /\ pc = "polling"
  /\ IF status[client] = "TIMEOUT" THEN Closes(client) /\ client' = 0
     ELSE UNCHANGED <<tableVars, client>>
  /\ pc' = "idle"
  /\ UNCHANGED <<task, Udp, iUdp, dnsServer, address, lengthVars, late, asks>>

Caller ==
  \/ ClockBegins \/ LookupBegins \/ LookupRefused \/ QuerySent \/ QueryTimesOut \/ AnswerRead
  \/ AnswerWaitEnds \/ ClockWrites \/ ClockSends \/ ClockEnds \/ Released \/ ConnectRefused
  \/ ConnectBegins \/ ConnectWaitEnds \/ Connects

-----------------------------------------------------------------------------
(* External: the peers and the network *)

Becomes(st) ==
  /\ status' = [status EXCEPT ![client] = st]
  /\ UNCHANGED <<callVars, port, rx, holders, address, lengthVars, late, asks>>

\* The chip repeats a SYN, or the last FIN, a limited number of times.
ChipEnds ==
  /\ client # 0
  /\ \/ status[client] = "SYNSENT" /\ \E st \in {"ESTABLISHED", "CLOSED", "TIMEOUT"} : Becomes(st)
     \/ status[client] = "LAST_ACK" /\ \E st \in {"CLOSED", "TIMEOUT"} : Becomes(st)
     \/ status[client] = "TIMEOUT" /\ Becomes("CLOSED")

\* The peer ends or resets a connection, or answers our FIN, or nobody acknowledges it.
PeerEnds ==
  /\ client # 0
  /\ \/ status[client] = "ESTABLISHED" /\ \E st \in {"CLOSE_WAIT", "CLOSED"} : Becomes(st)
     \/ status[client] = "CLOSE_WAIT" /\ Becomes("CLOSED")
     \/ status[client] = "FIN_WAIT" /\ \E st \in {"CLOSED", "TIMEOUT"} : Becomes(st)

Delivers(d, p) ==
  \E s \in Sn : /\ status[s] = "UDP" /\ port[s] = p /\ Len(rx[s]) < MaxWaiting
                /\ rx' = [rx EXCEPT ![s] = Append(@, d)]

\* An answer comes, to whoever has the port now, and may come again; or is lost.
AnswerComes ==
  \E a \in late :
    /\ late' \in {late, late \ {a}}
    /\ Delivers(a.host, a.port) \/ UNCHANGED rx
    /\ UNCHANGED <<callVars, status, port, holders, address, lengthVars, asks>>

StrayComes ==
  \E p \in Ports \cup {123} :
    /\ Delivers(Stray, p)
    /\ UNCHANGED <<callVars, status, port, holders, address, lengthVars, late, asks>>

SocketsNext ==
  \/ Caller \/ ChatConnects \/ ChatStops
  \/ ChipEnds \/ PeerEnds \/ AnswerComes \/ StrayComes

SocketsSpec == SocketsInit /\ [][SocketsNext]_vars

\* The caller goes on when it can, and the chip's repetitions are limited; no peer is fair.
SocketsFairSpec == SocketsSpec /\ WF_vars(Caller) /\ WF_vars(ChipEnds)

-----------------------------------------------------------------------------
(* Properties *)

\* Every open socket is held by just one user, and no user holds a socket that another has
\* opened: a chat that was refused keeps the number of a closed socket, which the next
\* lookup takes (EthernetClient.cpp:32-37, 65; Dns.cpp:147).
OneHolder ==
  /\ \A s \in Sn : status[s] # "CLOSED" =>
       Cardinality({u \in {"Udp", "iUdp", "client"} :
                      (u = "Udp" /\ Udp = s) \/ (u = "iUdp" /\ iUdp = s)
                        \/ (u = "client" /\ client = s)}) = 1
  /\ Udp # 0 => status[Udp] = "UDP" /\ port[Udp] = 123
  /\ iUdp # 0 => status[iUdp] = "UDP" /\ port[iUdp] \in Ports

\* A socket is there whenever one is opened: the code has no answer for a full table, and
\* would go on with a number that is no socket's (socket.cpp:145-158).
SocketIsFree == pc \in {"boot", "lookup", "connect"} => Closed # {}

\* A datagram is as long as what was written into it, until a send times out: from then on
\* the counter is off by what was not sent (socket.cpp:741-763).
DatagramExact == timedOut \/ sent.counted = sent.written

\* The chat connects to an address it was given for a host that was asked for from the port of
\* this lookup: all requests have the same number, so an answer that comes again, or late, can
\* pass for the present one, but only where the port is the same (Dns.cpp:163-168, 299-309).
AnswerOfALookup ==
  pc = "connect" /\ address # "none" => [host |-> address, port |-> asking] \in asked

\* The two waits that only the peer ends: socketConnect's for a connection the peer has ended
\* before it was looked at, and socketDisconnect's for the FIN of the peer.
PeerHolds ==
  \/ pc = "connecting" /\ status[client] = "CLOSE_WAIT"
  \/ pc = "releasing" /\ status[client] = "FIN_WAIT"

\* Every connection attempt and every stop ends, unless the peer holds it for ever
\* (socket.cpp:332-342, 356-363; Dns.cpp:134-139).
ConnectEnds == <>[]PeerHolds \/ (pc # "idle" ~> pc = "idle")
=============================================================================
