--------------------------- MODULE SocketsProofs ---------------------------
(***************************************************************************)
(* Theorems about Sockets, for any number of sockets (two or more), any    *)
(* set of local ports, and any number of lookups, answers and connections. *)
(***************************************************************************)
EXTENDS Sockets, FiniteSetTheorems, SequenceTheorems, TLAPS

-----------------------------------------------------------------------------
(* The inductive invariants *)

Places == {"boot", "lookup", "query", "answer", "clock", "clocksend", "clockwait", "idle",
           "releasing", "connect", "connecting", "polling"}
Statuses == {"CLOSED", "UDP", "SYNSENT", "ESTABLISHED", "CLOSE_WAIT", "FIN_WAIT", "LAST_ACK",
             "TIMEOUT"}
Datagrams == {"ntp", "openai", Stray}

TableTypes ==
  /\ pc \in Places /\ task \in {"clock", "chat", "stop"}
  /\ status \in [Sn -> Statuses]
  /\ port \in [Sn -> Ports \cup {0, 123}]
  /\ Udp \in {0} \cup Sn /\ iUdp \in {0} \cup Sn /\ client \in {0} \cup Sn

\* Which of the three users has a socket follows from where the caller is: the clock from
\* its beginning on, the lookup while it runs, the chat between two calls and while a
\* connection is made or ended.
WhoHolds ==
  /\ Udp # 0 <=> pc # "boot"
  /\ iUdp # 0 <=> pc \in {"query", "answer"}
  /\ client # 0 => pc \in {"idle", "releasing", "connecting", "polling"}

\* What they have is theirs, and nothing else is open.
WhatIsOpen ==
  /\ Udp # 0 => status[Udp] = "UDP" /\ port[Udp] = 123
  /\ iUdp # 0 => status[iUdp] = "UDP" /\ port[iUdp] \in Ports
  /\ client # 0 => status[client] # "UDP"
  /\ \A s \in Sn : status[s] # "CLOSED" => s \in {Udp, iUdp, client}

TableInv == TableTypes /\ WhoHolds /\ WhatIsOpen

\* Until a send times out, the counter holds what was written since the last send.
LengthInv ==
  ~timedOut =>
    /\ sent.counted = sent.written
    /\ udp_send_packet_len = CASE pc = "query" -> 1 [] pc = "clocksend" -> 2 [] OTHER -> 0

AnswerTypes ==
  /\ rx \in [Sn -> Seq(Datagrams)]
  /\ late \subseteq [host : {"ntp", "openai"}, port : Ports \cup {123}]

\* An answer on its way to the port of a lookup was asked for from there; so was what waits in
\* the socket of the present lookup, and the address it gave.
OnTheWay == \A a \in late : a.port # 123 => a \in asked
HasArrived ==
  iUdp # 0 => \A i \in 1..Len(rx[iUdp]) :
                rx[iUdp][i] = Stray \/ [host |-> rx[iUdp][i], port |-> asking] \in asked

AnswerInv ==
  /\ OnTheWay /\ HasArrived
  /\ iUdp # 0 => port[iUdp] = asking
  /\ AnswerOfALookup

-----------------------------------------------------------------------------
(* The table *)

\* A set of numbers that is not empty has a least one, so that socketBegin gives a socket
\* that is closed.
LEMMA LeastNumber ==
  ASSUME NEW S \in SUBSET Nat, S # {}
  PROVE  \E x \in S : \A y \in S : x <= y
<1>1. PICK x \in S : \A y \in S : ~ (<<y, x>> \in OpToRel(<, Nat))
  BY NatLessThanWellFounded, WFMin
<1>2. \A y \in S : y < x => <<y, x>> \in OpToRel(<, Nat)
  BY DEF OpToRel
<1>3. \A y \in S : ~ (y < x)
  BY <1>1, <1>2
<1> QED
  BY <1>3

LEMMA FirstClosed == Closed # {} => socketBegin \in Sn /\ status[socketBegin] = "CLOSED"
<1> SUFFICES ASSUME Closed # {} PROVE socketBegin \in Closed
  BY DEF Closed
<1>1. Closed \in SUBSET Nat
  BY SocketsAssumption DEF Closed, Sn
<1>2. \E x \in Closed : \A y \in Closed : x <= y
  BY <1>1, LeastNumber
<1> QED
  BY <1>2 DEF socketBegin, Min

LEMMA TableInit == SocketsInit => TableInv
BY SocketsAssumption
   DEF SocketsInit, TableInv, TableTypes, WhoHolds, WhatIsOpen, Places, Statuses, Sn

\* The socket of a lookup is given back.
LEMMA LookupEndKeepsTable ==
  ASSUME TableInv, pc \in {"query", "answer"}, NEW ret \in Int, LookupEnds(ret),
         UNCHANGED <<task, Udp, client>>
  PROVE  TableInv'
BY SocketsAssumption
   DEF TableInv, TableTypes, WhoHolds, WhatIsOpen, Places, Statuses, Sn, LookupEnds, Stop, Closes,
       After

LEMMA TableStep == TableInv /\ [SocketsNext]_vars => TableInv'
<1> SUFFICES ASSUME TableInv, [SocketsNext]_vars PROVE TableInv'
  OBVIOUS
<1> USE SocketsAssumption DEF TableInv, TableTypes, WhoHolds, WhatIsOpen, Places, Sn
<1>0. /\ AsUint16(TIMED_OUT) \in Int /\ \A b \in BOOLEAN :
           AsUint16(IF b THEN 1 ELSE INVALID_SERVER) \in Int
  BY DEF AsUint16, TIMED_OUT, INVALID_SERVER
<1>1. CASE ClockBegins
  BY <1>1, FirstClosed DEF ClockBegins, Opened, Statuses
<1>2. CASE LookupBegins
  BY <1>2, FirstClosed DEF LookupBegins, Opened, Statuses
<1>3. CASE LookupRefused
  BY <1>3 DEF LookupRefused, After, tableVars, holders
<1>4. CASE QuerySent
  BY <1>4 DEF QuerySent, tableVars, holders
<1>5. CASE QueryTimesOut
  BY <1>5, LookupEndKeepsTable DEF QueryTimesOut
<1>6. CASE AnswerRead
  BY <1>0, <1>6, LookupEndKeepsTable DEF AnswerRead, Accepts
<1>7. CASE AnswerWaitEnds
  BY <1>0, <1>7, LookupEndKeepsTable DEF AnswerWaitEnds
<1>8. CASE ClockWrites \/ ClockSends
  BY <1>8 DEF ClockWrites, ClockSends, tableVars, holders
<1>9. CASE ClockEnds
  BY <1>9 DEF ClockEnds, holders
<1>10. CASE ChatConnects
  BY <1>10 DEF ChatConnects, Release, Disconnects, tableVars, Statuses
<1>11. CASE ConnectRefused \/ ConnectWaitEnds
  BY <1>11 DEF ConnectRefused, ConnectWaitEnds, tableVars, holders
<1>12. CASE ConnectBegins
  BY <1>12, FirstClosed DEF ConnectBegins, Opened, Statuses
<1>13. CASE Connects
  BY <1>13 DEF Connects, Closes, tableVars, Statuses
<1>14. CASE ChatStops
  BY <1>14 DEF ChatStops, Disconnects, holders, Statuses
<1>15. CASE Released
  <2>1. /\ pc = "releasing" /\ pc' \in {"idle", "lookup"} /\ client' = 0
        /\ UNCHANGED <<task, Udp, iUdp>>
    BY <1>15 DEF Released
  <2>2. /\ status' = [status EXCEPT ![client] = "CLOSED"]
        /\ port' = [port EXCEPT ![client] = 0]
    BY <1>15 DEF Released, Closes
  <2>3. TableTypes'
    BY <2>1, <2>2 DEF Statuses
  <2>4. iUdp = 0 /\ Udp # client
    BY <2>1
  <2>5. WhatIsOpen'
    BY <2>1, <2>2, <2>4
  <2> QED
    BY <2>1, <2>3, <2>5
<1>16. CASE ChipEnds \/ PeerEnds
  BY <1>16 DEF ChipEnds, PeerEnds, Becomes, callVars, holders, Statuses
<1>17. CASE AnswerComes \/ StrayComes
  BY <1>17 DEF AnswerComes, StrayComes, callVars, holders
<1>18. CASE UNCHANGED vars
  BY <1>18 DEF vars, callVars, tableVars, holders
<1> QED
  BY <1>1, <1>2, <1>3, <1>4, <1>5, <1>6, <1>7, <1>8, <1>9, <1>10, <1>11, <1>12, <1>13, <1>14,
     <1>15, <1>16, <1>17, <1>18 DEF SocketsNext, Caller

LEMMA TableAlways == SocketsSpec => []TableInv
BY TableInit, TableStep, PTL DEF SocketsSpec

\* OneHolder for any number of sockets, lookups and connections: an open socket is held by
\* one user, who opened it (EthernetClient.cpp:32-37, 65; Dns.cpp:147).
THEOREM SocketHasOneHolder == SocketsSpec => []OneHolder
<1>1. TableInv => OneHolder
  <2> SUFFICES ASSUME TableInv PROVE OneHolder
    OBVIOUS
  <2> USE DEF TableInv, TableTypes, WhoHolds, WhatIsOpen, Sn
  <2>1. ASSUME NEW s \in Sn, status[s] # "CLOSED"
        PROVE  Cardinality({u \in {"Udp", "iUdp", "client"} :
                              (u = "Udp" /\ Udp = s) \/ (u = "iUdp" /\ iUdp = s)
                                \/ (u = "client" /\ client = s)}) = 1
    <3> DEFINE users == {u \in {"Udp", "iUdp", "client"} :
                           (u = "Udp" /\ Udp = s) \/ (u = "iUdp" /\ iUdp = s)
                             \/ (u = "client" /\ client = s)}
    <3>1. CASE Udp = s
      <4>1. iUdp # s /\ client # s
        BY <2>1, <3>1, SocketsAssumption
      <4>2. users = {"Udp"} /\ Cardinality({"Udp"}) = 1
        BY FS_Singleton, <3>1, <4>1
      <4> QED
        BY <4>2
    <3>2. CASE iUdp = s
      <4>1. Udp # s /\ client # s
        BY <2>1, <3>2, SocketsAssumption
      <4>2. users = {"iUdp"} /\ Cardinality({"iUdp"}) = 1
        BY FS_Singleton, <3>2, <4>1
      <4> QED
        BY <4>2
    <3>3. CASE client = s
      <4>1. Udp # s /\ iUdp # s
        BY <2>1, <3>3, SocketsAssumption
      <4>2. users = {"client"} /\ Cardinality({"client"}) = 1
        BY FS_Singleton, <3>3, <4>1
      <4> QED
        BY <4>2
    <3> QED
      BY <2>1, <3>1, <3>2, <3>3
  <2> QED
    BY <2>1 DEF OneHolder
<1> QED
  BY <1>1, TableAlways, PTL

\* SocketIsFree for any number of sockets from two on: where a socket is opened, only the
\* clock can have one (socket.cpp:145-158).
THEOREM SocketIsAlwaysFree == SocketsSpec => []SocketIsFree
<1>1. TableInv => SocketIsFree
  <2> SUFFICES ASSUME TableInv, pc \in {"boot", "lookup", "connect"}
               PROVE  \E s \in Sn : status[s] = "CLOSED"
    BY DEF SocketIsFree, Closed
  <2>1. {1, 2} \subseteq Sn
    BY SocketsAssumption DEF Sn
  <2>2. iUdp = 0 /\ client = 0
    BY DEF TableInv, WhoHolds
  <2>3. \A s \in {1, 2} : s # Udp => status[s] = "CLOSED"
    BY <2>1, <2>2 DEF TableInv, WhatIsOpen
  <2> QED
    BY <2>1, <2>3
<1> QED
  BY <1>1, TableAlways, PTL

-----------------------------------------------------------------------------
(* The count of what was written *)

LEMMA LengthStep == TableInv /\ LengthInv /\ [SocketsNext]_vars => LengthInv'
<1> SUFFICES ASSUME TableInv, LengthInv, [SocketsNext]_vars PROVE LengthInv'
  OBVIOUS
<1> USE DEF LengthInv
<1>1. CASE LookupBegins
  BY <1>1, SocketsAssumption DEF LookupBegins, Written
<1>2. CASE ClockWrites
  BY <1>2, SocketsAssumption DEF ClockWrites, Written
<1>3. CASE QuerySent
  BY <1>3 DEF QuerySent, SendOk, Reset
<1>4. CASE ClockSends
  BY <1>4 DEF ClockSends, SendOk, SendTimesOut, Reset
<1>5. CASE QueryTimesOut
  BY <1>5 DEF QueryTimesOut, SendTimesOut
<1>6. CASE LookupRefused \/ AnswerRead \/ AnswerWaitEnds
  BY <1>6 DEF LookupRefused, AnswerRead, AnswerWaitEnds, LookupEnds, After, lengthVars
<1>7. CASE ClockBegins \/ ClockEnds \/ ChatConnects \/ Connects
  BY <1>7 DEF ClockBegins, ClockEnds, ChatConnects, Release, Connects, lengthVars
<1>8. CASE ChatStops \/ ChipEnds \/ PeerEnds \/ AnswerComes \/ StrayComes \/ UNCHANGED vars
  BY <1>8 DEF ChatStops, ChipEnds, PeerEnds, Becomes, AnswerComes, StrayComes, vars, callVars,
              lengthVars
<1>9. CASE Released \/ ConnectRefused \/ ConnectBegins \/ ConnectWaitEnds
  BY <1>9 DEF Released, ConnectRefused, ConnectBegins, ConnectWaitEnds, lengthVars
<1> QED
  BY <1>1, <1>2, <1>3, <1>4, <1>5, <1>6, <1>7, <1>8, <1>9 DEF SocketsNext, Caller

\* DatagramExact for any lengths and any order of lookups and requests of the clock: one
\* counter serves all sockets, and is right as long as every send ends (socket.cpp:741-763).
THEOREM DatagramIsExact == SocketsSpec => []DatagramExact
<1>1. SocketsInit => LengthInv
  BY DEF SocketsInit, LengthInv
<1>2. LengthInv => DatagramExact
  BY DEF LengthInv, DatagramExact
<1> QED
  BY <1>1, <1>2, TableAlways, LengthStep, PTL DEF SocketsSpec

-----------------------------------------------------------------------------
(* The answer of a lookup *)

\* A datagram delivered joins what waits in the socket of its port.
LEMMA Delivered ==
  ASSUME TableInv, AnswerTypes, NEW d \in Datagrams, NEW p, Delivers(d, p)
  PROVE  /\ rx' \in [Sn -> Seq(Datagrams)]
         /\ iUdp # 0 => \A i \in 1..Len(rx'[iUdp]) :
              \/ i \in 1..Len(rx[iUdp]) /\ rx'[iUdp][i] = rx[iUdp][i]
              \/ rx'[iUdp][i] = d /\ port[iUdp] = p
<1>1. PICK s \in Sn : port[s] = p /\ rx' = [rx EXCEPT ![s] = Append(@, d)]
  BY DEF Delivers
<1>2. rx[s] \in Seq(Datagrams)
  BY DEF AnswerTypes
<1>3. /\ Append(rx[s], d) \in Seq(Datagrams) /\ Len(Append(rx[s], d)) = Len(rx[s]) + 1
      /\ \A i \in 1..Len(rx[s]) : Append(rx[s], d)[i] = rx[s][i]
      /\ Append(rx[s], d)[Len(rx[s]) + 1] = d
  BY <1>2, AppendProperties
<1>4. rx' \in [Sn -> Seq(Datagrams)]
  BY <1>1, <1>3 DEF AnswerTypes
<1>5. ASSUME iUdp # 0, NEW i \in 1..Len(rx'[iUdp])
      PROVE  \/ i \in 1..Len(rx[iUdp]) /\ rx'[iUdp][i] = rx[iUdp][i]
             \/ rx'[iUdp][i] = d /\ port[iUdp] = p
  <2>1. iUdp \in Sn
    BY <1>5 DEF TableInv, TableTypes
  <2>2. CASE iUdp # s
    BY <1>1, <1>5, <2>1, <2>2 DEF AnswerTypes
  <2>3. CASE iUdp = s
    <3>1. rx'[iUdp] = Append(rx[s], d) /\ Len(rx[s]) \in Nat
      BY <1>1, <1>2, <2>1, <2>3 DEF AnswerTypes
    <3>2. i \in 1..Len(rx[s]) \/ i = Len(rx[s]) + 1
      BY <1>3, <1>5, <3>1
    <3> QED
      BY <1>1, <1>3, <2>3, <3>1, <3>2
  <2> QED
    BY <2>2, <2>3
<1> QED
  BY <1>4, <1>5

\* The end of a lookup closes its socket; only an answer that waited there, asked for from the
\* same port, is an address.
LEMMA LookupEndKeepsAnswers ==
  ASSUME TableInv, AnswerTypes, AnswerInv, pc \in {"query", "answer"}, NEW ret,
         LookupEnds(ret), UNCHANGED <<late, asks>>,
         address' # "none" => [host |-> address', port |-> asking] \in asked
  PROVE  AnswerTypes' /\ AnswerInv'
<1>1. iUdp' = 0 /\ rx' = [rx EXCEPT ![iUdp] = << >>]
  BY DEF LookupEnds, Stop, Closes
<1>2. AnswerTypes'
  BY <1>1, EmptySeq DEF AnswerTypes, Datagrams
<1> QED
  BY <1>1, <1>2 DEF AnswerInv, OnTheWay, HasArrived, AnswerOfALookup, asks

\* A step that leaves the socket of the lookup and the answers alone.
LEMMA AnswersUntouched ==
  ASSUME AnswerInv, UNCHANGED <<iUdp, late, asks, address>>, pc' = "connect" => pc = "connect",
         iUdp # 0 => rx'[iUdp] = rx[iUdp] /\ port'[iUdp] = port[iUdp]
  PROVE  AnswerInv'
BY DEF AnswerInv, OnTheWay, HasArrived, AnswerOfALookup, asks

LEMMA AnswerStep ==
  TableInv /\ AnswerTypes /\ AnswerInv /\ [SocketsNext]_vars => AnswerTypes' /\ AnswerInv'
<1> SUFFICES ASSUME TableInv, AnswerTypes, AnswerInv, [SocketsNext]_vars
             PROVE  AnswerTypes' /\ AnswerInv'
  OBVIOUS
<1>0. iUdp # 0 => pc \in {"query", "answer"}
  BY DEF TableInv, WhoHolds
<1>1. CASE ClockBegins
  <2>1. iUdp = 0
    BY <1>0, <1>1 DEF ClockBegins
  <2>2. AnswerTypes'
    BY <1>1, FirstClosed, EmptySeq DEF ClockBegins, Opened, AnswerTypes
  <2> QED
    BY <1>1, <2>1, <2>2, AnswersUntouched DEF ClockBegins
<1>2. CASE LookupBegins
  <2>1. /\ socketBegin \in Sn /\ iUdp' = socketBegin
        /\ port' = [port EXCEPT ![socketBegin] = asking']
        /\ rx' = [rx EXCEPT ![socketBegin] = << >>]
    BY <1>2, FirstClosed DEF LookupBegins, Opened
  <2>2. rx'[iUdp'] = << >> /\ port'[iUdp'] = asking'
    BY <2>1 DEF AnswerTypes, TableInv, TableTypes
  <2>3. AnswerTypes'
    BY <1>2, <2>1, EmptySeq DEF LookupBegins, AnswerTypes
  <2> QED
    BY <1>2, <2>2, <2>3, EmptySeq
       DEF LookupBegins, AnswerInv, OnTheWay, HasArrived, AnswerOfALookup
<1>3. CASE LookupRefused
  <2>1. iUdp = 0 /\ iUdp' = 0
    BY <1>0, <1>3 DEF LookupRefused, holders
  <2> QED
    BY <1>3, <2>1 DEF LookupRefused, tableVars, asks, AnswerTypes, AnswerInv, OnTheWay,
                      HasArrived, AnswerOfALookup
<1>4. CASE QuerySent
  <2> DEFINE q == [host |-> HostOf(task), port |-> port[iUdp]]
  <2>1. q \in [host : {"ntp", "openai"}, port : Ports \cup {123}]
    BY <1>4 DEF QuerySent, TableInv, WhoHolds, WhatIsOpen, HostOf
  <2>2. late' = late \cup {q} /\ asked' = asked \cup {q}
        /\ UNCHANGED <<rx, port, iUdp, asking>> /\ pc' = "answer"
    BY <1>4 DEF QuerySent, tableVars, holders
  <2> HIDE DEF q
  <2>3. AnswerTypes'
    BY <2>1, <2>2 DEF AnswerTypes
  <2> QED
    BY <2>2, <2>3 DEF AnswerInv, OnTheWay, HasArrived, AnswerOfALookup
<1>5. CASE QueryTimesOut
  BY <1>5, LookupEndKeepsAnswers DEF QueryTimesOut
<1>6. CASE AnswerRead
  <2> DEFINE d == Head(rx[iUdp])
             ret == AsUint16(IF Accepts(d) THEN 1 ELSE INVALID_SERVER)
  <2>1. iUdp \in Sn /\ iUdp # 0 /\ rx[iUdp] \in Seq(Datagrams)
    BY <1>6 DEF AnswerRead, TableInv, TableTypes, WhoHolds, AnswerTypes
  <2>2. d = rx[iUdp][1] /\ 1 \in 1..Len(rx[iUdp])
    BY <1>6, <2>1, EmptySeq, HeadTailProperties DEF AnswerRead
  <2>3. d = Stray \/ [host |-> d, port |-> asking] \in asked
    BY <2>1, <2>2 DEF AnswerInv, HasArrived
  <2>4. /\ LookupEnds(ret) /\ address' = IF Accepts(d) THEN d ELSE "none"
        /\ pc = "answer" /\ UNCHANGED <<late, asks>>
    BY <1>6 DEF AnswerRead
  <2> HIDE DEF d, ret
  <2>5. address' # "none" => [host |-> address', port |-> asking] \in asked
    BY <2>3, <2>4 DEF Accepts
  <2> QED
    BY <2>4, <2>5, LookupEndKeepsAnswers
<1>7. CASE AnswerWaitEnds
  BY <1>7, LookupEndKeepsAnswers DEF AnswerWaitEnds
<1>8. CASE ClockWrites
  BY <1>8, AnswersUntouched DEF ClockWrites, tableVars, holders, AnswerTypes
<1>9. CASE ClockSends
  <2>1. AnswerTypes'
    BY <1>9 DEF ClockSends, tableVars, AnswerTypes
  <2>2. \A a \in late' : a \in late \/ a.port = 123
    BY <1>9 DEF ClockSends
  <2> QED
    BY <1>9, <2>1, <2>2 DEF ClockSends, tableVars, holders, asks, AnswerInv, OnTheWay,
                            HasArrived, AnswerOfALookup
<1>10. CASE ClockEnds
  <2>1. iUdp = 0
    BY <1>0, <1>10 DEF ClockEnds
  <2>2. Udp \in Sn /\ rx[Udp] \in Seq(Datagrams)
    BY <1>10 DEF ClockEnds, TableInv, TableTypes, WhoHolds, AnswerTypes
  <2>3. rx[Udp] # << >> => Tail(rx[Udp]) \in Seq(Datagrams)
    BY <2>2, HeadTailProperties
  <2>4. AnswerTypes'
    BY <1>10, <2>3 DEF ClockEnds, AnswerTypes
  <2> QED
    BY <1>10, <2>1, <2>4, AnswersUntouched DEF ClockEnds, holders
<1>11. CASE ChatConnects \/ ChatStops
  <2>1. iUdp = 0
    BY <1>0, <1>11 DEF ChatConnects, ChatStops
  <2>2. rx' = rx /\ pc' # "connect" /\ UNCHANGED <<iUdp, late, asks, address>>
    BY <1>11 DEF ChatConnects, ChatStops, Release, tableVars, holders
  <2> QED
    BY <2>1, <2>2, AnswersUntouched DEF AnswerTypes
<1>12. CASE Released \/ Connects
  <2>1. iUdp = 0
    BY <1>0, <1>12 DEF Released, Connects
  <2>2. rx' = rx \/ rx' = [rx EXCEPT ![client] = << >>]
    BY <1>12 DEF Released, Connects, Closes, tableVars
  <2>3. AnswerTypes'
    BY <1>12, <2>2, EmptySeq DEF Released, Connects, AnswerTypes
  <2> QED
    BY <1>12, <2>1, <2>3, AnswersUntouched DEF Released, Connects
<1>13. CASE ConnectRefused \/ ConnectWaitEnds
  BY <1>13, AnswersUntouched DEF ConnectRefused, ConnectWaitEnds, tableVars, holders, AnswerTypes
<1>14. CASE ConnectBegins
  <2>1. iUdp = 0
    BY <1>0, <1>14 DEF ConnectBegins
  <2>2. AnswerTypes'
    BY <1>14, FirstClosed, EmptySeq DEF ConnectBegins, Opened, AnswerTypes
  <2> QED
    BY <1>14, <2>1, <2>2, AnswersUntouched DEF ConnectBegins
<1>15. CASE ChipEnds \/ PeerEnds
  BY <1>15, AnswersUntouched DEF ChipEnds, PeerEnds, Becomes, callVars, holders, AnswerTypes
<1>16. CASE UNCHANGED vars
  BY <1>16, AnswersUntouched DEF vars, callVars, tableVars, holders, AnswerTypes
<1>17. CASE StrayComes
  <2>1. PICK p \in Ports \cup {123} : Delivers(Stray, p)
    BY <1>17 DEF StrayComes
  <2>2. /\ rx' \in [Sn -> Seq(Datagrams)]
        /\ iUdp # 0 => \A i \in 1..Len(rx'[iUdp]) :
             \/ i \in 1..Len(rx[iUdp]) /\ rx'[iUdp][i] = rx[iUdp][i]
             \/ rx'[iUdp][i] = Stray
    BY <2>1, Delivered DEF Datagrams
  <2>3. UNCHANGED <<pc, iUdp, port, address, late, asks>>
    BY <1>17 DEF StrayComes, holders, callVars
  <2> QED
    BY <2>2, <2>3 DEF AnswerTypes, AnswerInv, OnTheWay, HasArrived, AnswerOfALookup, asks
<1>18. CASE AnswerComes
  <2>1. PICK a \in late : late' \in {late, late \ {a}} /\ (Delivers(a.host, a.port) \/ UNCHANGED rx)
    BY <1>18 DEF AnswerComes
  <2>2. UNCHANGED <<pc, iUdp, port, address, asks>>
    BY <1>18 DEF AnswerComes, holders, callVars
  <2>3. /\ a.host \in Datagrams /\ a = [host |-> a.host, port |-> a.port]
        /\ late' \subseteq late
    BY <2>1 DEF AnswerTypes, Datagrams
  <2>4. /\ rx' \in [Sn -> Seq(Datagrams)]
        /\ iUdp # 0 => \A i \in 1..Len(rx'[iUdp]) :
             \/ i \in 1..Len(rx[iUdp]) /\ rx'[iUdp][i] = rx[iUdp][i]
             \/ rx'[iUdp][i] = a.host /\ port[iUdp] = a.port
    BY <2>1, <2>3, Delivered DEF AnswerTypes
  <2>5. iUdp # 0 => port[iUdp] # 123 /\ port[iUdp] = asking
    BY SocketsAssumption DEF TableInv, WhatIsOpen, AnswerInv
  <2>6. iUdp # 0 /\ port[iUdp] = a.port => [host |-> a.host, port |-> asking] \in asked
    BY <2>1, <2>3, <2>5 DEF AnswerInv, OnTheWay
  <2>7. HasArrived'
    BY <2>2, <2>4, <2>6 DEF AnswerInv, HasArrived, asks
  <2> QED
    BY <2>2, <2>3, <2>4, <2>5, <2>7 DEF AnswerTypes, AnswerInv, OnTheWay, AnswerOfALookup, asks
<1> QED
  BY <1>1, <1>2, <1>3, <1>4, <1>5, <1>6, <1>7, <1>8, <1>9, <1>10, <1>11, <1>12, <1>13, <1>14,
     <1>15, <1>16, <1>17, <1>18 DEF SocketsNext, Caller

\* AnswerOfALookup for any ports, any number of lookups and of copies of their answers: what
\* the chat connects to was asked for from the port of its own lookup (Dns.cpp:163-168,
\* 299-309).
THEOREM AnswerIsOfALookup == SocketsSpec => []AnswerOfALookup
<1>1. SocketsInit => AnswerTypes /\ AnswerInv
  BY EmptySeq DEF SocketsInit, AnswerTypes, AnswerInv, OnTheWay, HasArrived, AnswerOfALookup
<1>2. AnswerInv => AnswerOfALookup
  BY DEF AnswerInv
<1> QED
  BY <1>1, <1>2, TableAlways, AnswerStep, PTL DEF SocketsSpec
=============================================================================
