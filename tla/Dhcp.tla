-------------------------------- MODULE Dhcp --------------------------------
(***************************************************************************)
(* How the keyboard gets its address at power-up (Ethernet.begin and       *)
(* DhcpClass).  There is one request per boot: the firmware never calls    *)
(* Ethernet.maintain(), so that checkLease does not run.                   *)
(*                                                                         *)
(* External: the servers, each with one address to give, named like the    *)
(* server; the network.  A broadcast reaches a server at once or never; an *)
(* answer may arrive any time later, any number of times, or never.  The   *)
(* watchdog and the power switch restart the keyboard at any time, and the *)
(* servers do not notice.  A lease ends when its time is over, which the   *)
(* keyboard does not notice.                                               *)
(***************************************************************************)
EXTENDS Naturals

CONSTANTS
  Server, None,
  Timeout, ResponseTimeout, \* of initEthernetDHCP, in seconds
  MaxBoots,       \* bound: boots
  MaxTransactions \* bound: transactions of a boot

ASSUME DhcpAssumption ==
  /\ None \notin Server
  /\ Timeout \in Nat /\ ResponseTimeout \in Nat
  /\ MaxBoots \in Nat /\ MaxTransactions \in Nat

VARIABLES
  pc,          \* "off" before the first boot, "loop" or "done"
  dhcp_state,
  transactionId, \* _dhcpTransactionId - _dhcpInitialTransactionId
  localIp, serverIp, \* _dhcpLocalIp and _dhcpDhcpServerIp
  elapsed, wait, \* seconds since the request, and the wait for an answer, began
  chipIp,      \* the address the W5300 uses
  replies,     \* external: answers sent
  bound,       \* external: whether the server holds its address for the keyboard
  acked,       \* history: the servers that granted a request of this boot
  expired,     \* history: those of them whose lease has ended since
  boots        \* boots so far

clientVars == <<pc, dhcp_state, transactionId, localIp, serverIp, elapsed, wait, chipIp>>
serverVars == <<replies, bound, acked, expired>>
dhcpVars == <<clientVars, serverVars, boots>>

DhcpInit ==
  /\ pc = "off" /\ dhcp_state = "START" /\ transactionId = 0
  /\ localIp = None /\ serverIp = None
  /\ elapsed = 0 /\ wait = 0 /\ chipIp = None
  /\ replies = {} /\ bound = [s \in Server |-> FALSE]
  /\ acked = {} /\ expired = {} /\ boots = 0

-----------------------------------------------------------------------------
(* External: the servers *)

\* What a server that gets the message does: whether it holds its address afterwards, and
\* its answer.  A DISCOVER is answered or not.  A request that names the server is granted,
\* or refused unless it was granted before; one for an address that is not its own is
\* refused or ignored.  A request that names another server frees the address.
Served(s, m) ==
  IF m.type = "DISCOVER" THEN {[holds |-> bound[s], answer |-> {"OFFER"}]}
  ELSE IF m.server # s THEN {[holds |-> FALSE, answer |-> {}]}
  ELSE IF m.ip # s THEN {[holds |-> bound[s], answer |-> {"NAK"}]}
  ELSE {[holds |-> TRUE, answer |-> {"ACK"}]}
       \cup {o \in {[holds |-> FALSE, answer |-> {"NAK"}]} : ~bound[s]}

Ignored(s) == {[holds |-> bound[s], answer |-> {}]}

Answers(s, m, types) == {[type |-> t, id |-> m.id, server |-> s] : t \in types}

\* send_DHCP_MESSAGE: a broadcast.
send_DHCP_MESSAGE(m) ==
  \E o \in [Server -> UNION {Served(s, m) \cup Ignored(s) : s \in Server}] :
    /\ \A s \in Server : o[s] \in Served(s, m) \cup Ignored(s)
    /\ bound' = [s \in Server |-> o[s].holds]
    /\ replies' = replies \cup UNION {Answers(s, m, o[s].answer) : s \in Server}
    /\ acked' = acked \cup {s \in Server : "ACK" \in o[s].answer}
    /\ expired' = expired \ {s \in Server : "ACK" \in o[s].answer}

\* The time of a lease is over: checkLease, which would renew it, is never called.
LeaseEnds ==
  \E s \in Server :
    /\ bound[s]
    /\ bound' = [bound EXCEPT ![s] = FALSE]
    /\ expired' = expired \cup ({s} \cap acked)
    /\ UNCHANGED <<clientVars, replies, acked, boots>>

-----------------------------------------------------------------------------
(* The keyboard *)

\* Power on, or a restart by the watchdog at any time: Ethernet.begin, beginWithDHCP and the
\* start of request_DHCP_lease.  The first transaction number is the same at every boot, as
\* random() is never seeded.
begin ==
  /\ boots < MaxBoots /\ boots' = boots + 1
  /\ pc' = "loop" /\ dhcp_state' = "START" /\ transactionId' = 0
  /\ localIp' = None /\ serverIp' = None
  /\ elapsed' = 0 /\ wait' = 0 /\ chipIp' = None
  /\ acked' = {} /\ expired' = {}
  /\ UNCHANGED <<replies, bound>>

\* The end of a turn of the loop.  (Mutant: time is only checked before a new start.)
BreakAtStart == elapsed > Timeout /\ dhcp_state' = "START"
Break == elapsed > Timeout

TurnEnds ==
  /\ pc' = IF dhcp_state' = "LEASED" \/ Break THEN "done" ELSE "loop"
  /\ wait' = 0
  /\ UNCHANGED <<elapsed, boots>>

Discover ==
  /\ pc = "loop" /\ dhcp_state = "START" /\ transactionId < MaxTransactions
  /\ dhcp_state' = "DISCOVER"
  /\ transactionId' = transactionId + 1
  /\ send_DHCP_MESSAGE([type |-> "DISCOVER", id |-> transactionId + 1])
  /\ TurnEnds
  /\ UNCHANGED <<localIp, serverIp, chipIp>>

Waiting == pc = "loop" /\ dhcp_state \in {"DISCOVER", "REQUEST"}

\* parseDHCPResponse keeps the first server that named itself, until the next boot.
\* (Mutant: the last one.)
ServerOfLast(m) == m.server
ServerOf(m) == IF serverIp = None THEN m.server ELSE serverIp

\* The address of an answer is taken whatever the answer is.
Answered(m) ==
  /\ m.id <= transactionId
  /\ localIp' = IF m.type = "NAK" THEN None ELSE m.server
  /\ serverIp' = ServerOf(m)

Offered(m) ==
  /\ dhcp_state = "DISCOVER" /\ m.type = "OFFER"
  /\ transactionId' = m.id
  /\ send_DHCP_MESSAGE([type |-> "REQUEST", id |-> m.id, ip |-> localIp', server |-> serverIp'])
  /\ dhcp_state' = "REQUEST"
  /\ UNCHANGED <<chipIp>>

\* The address is given to the chip.
Leased(m) ==
  /\ dhcp_state = "REQUEST" /\ m.type = "ACK"
  /\ dhcp_state' = "LEASED"
  /\ transactionId' = transactionId + 1
  /\ chipIp' = localIp'
  /\ UNCHANGED serverVars

Refused(m) ==
  /\ dhcp_state = "REQUEST" /\ m.type = "NAK"
  /\ dhcp_state' = "START"
  /\ UNCHANGED <<transactionId, serverVars, chipIp>>

\* Any other answer leaves the state as it is.
OutOfPlace(m) ==
  /\ <<dhcp_state, m.type>> \notin 
       {<<"DISCOVER", "OFFER">>, <<"REQUEST", "ACK">>, <<"REQUEST", "NAK">>}
  /\ UNCHANGED <<dhcp_state, transactionId, serverVars, chipIp>>

Receive ==
  \E m \in replies :
    /\ Waiting /\ Answered(m)
    /\ Offered(m) \/ Leased(m) \/ Refused(m) \/ OutOfPlace(m)
    /\ TurnEnds

\* An answer to another keyboard, from another port, or with a number this boot has not used.
ReceiveForeign ==
  /\ Waiting
  /\ UNCHANGED <<dhcp_state, transactionId, localIp, serverIp, chipIp, serverVars>>
  /\ TurnEnds

\* A second passes without an answer.
Tick ==
  /\ Waiting /\ wait <= ResponseTimeout
  /\ elapsed' = elapsed + 1 /\ wait' = wait + 1
  /\ UNCHANGED <<pc, dhcp_state, transactionId, localIp, serverIp, chipIp, serverVars, boots>>

ResponseTimesOut ==
  /\ Waiting /\ wait > ResponseTimeout
  /\ dhcp_state' = "START"
  /\ TurnEnds
  /\ UNCHANGED <<transactionId, localIp, serverIp, chipIp, serverVars>>

DhcpNext == begin \/ Discover \/ Receive \/ ReceiveForeign \/ Tick \/ ResponseTimesOut \/ LeaseEnds

DhcpSpec == DhcpInit /\ [][DhcpNext]_dhcpVars

-----------------------------------------------------------------------------
(* Properties *)

\* Nothing but the end of its time takes a lease granted in this boot from the keyboard that
\* uses it, although every answer overwrites the address before its type is known, offers
\* come late, and each request frees the addresses of the servers it does not name.  An ACK of
\* an earlier boot, which has the same numbers, is not covered (Dhcp.cpp:39, 271, 306-315).
LeaseIsGranted == \A s \in acked \ expired : chipIp = s => bound[s]

\* However many answers come that are not for this request: it takes no longer than both
\* timeouts, which is far from the 30 s of the watchdog (Dhcp.cpp:102).
RequestIsShort == elapsed <= Timeout + ResponseTimeout + 1
=============================================================================
