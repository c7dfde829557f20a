--------------------------- MODULE EthernetProofs ---------------------------
(***************************************************************************)
(* Theorems about two parts of the Ethernet library that share nothing.    *)
(* Dhcp: the address in use is granted, and a request ends in time, for    *)
(* any servers, timeouts and number of boots.  RxFifo: the bytes that      *)
(* arrived are read, all of them and in order, for packets and reads of    *)
(* any length, odd or even.                                                *)
(***************************************************************************)
EXTENDS Dhcp, RxFifo, FoldTheorems, SequenceTheorems, TLAPS

-----------------------------------------------------------------------------
(* Dhcp: time *)

\* The wait for an answer is part of the request, and only a request within the timeout
\* goes on waiting.
TimeInv ==
  /\ elapsed \in Nat /\ wait \in 0..(ResponseTimeout + 1)
  /\ RequestIsShort
  /\ pc = "loop" => elapsed <= Timeout + wait

\* A turn that ends does so within the bound, or the loop is over.
LEMMA TurnKeepsTime ==
  ASSUME TimeInv, TurnEnds
  PROVE  TimeInv'
<1>1. wait' = 0 /\ elapsed' = elapsed
  BY DEF TurnEnds
<1>2. pc' = "loop" => elapsed <= Timeout
  BY DhcpAssumption DEF TurnEnds, Break, TimeInv
<1> QED
  BY <1>1, <1>2, DhcpAssumption DEF TimeInv, RequestIsShort

LEMMA TimeStep == TimeInv /\ [DhcpNext]_dhcpVars => TimeInv'
<1> SUFFICES ASSUME TimeInv, [DhcpNext]_dhcpVars PROVE TimeInv'
  OBVIOUS
<1>1. CASE begin
  BY <1>1, DhcpAssumption DEF begin, TimeInv, RequestIsShort
<1>2. CASE Discover
  BY <1>2, TurnKeepsTime DEF Discover
<1>3. CASE Receive
  BY <1>3, TurnKeepsTime DEF Receive
<1>4. CASE ReceiveForeign
  BY <1>4, TurnKeepsTime DEF ReceiveForeign
<1>5. CASE Tick
  BY <1>5, DhcpAssumption DEF Tick, Waiting, TimeInv, RequestIsShort
<1>6. CASE ResponseTimesOut
  BY <1>6, TurnKeepsTime DEF ResponseTimesOut
<1>7. CASE LeaseEnds \/ UNCHANGED dhcpVars
  BY <1>7 DEF LeaseEnds, dhcpVars, clientVars, TimeInv, RequestIsShort
<1> QED
  BY <1>1, <1>2, <1>3, <1>4, <1>5, <1>6, <1>7 DEF DhcpNext

\* RequestIsShort for any timeouts, servers and answers: a request takes no longer than both
\* timeouts (Dhcp.cpp:104).
THEOREM RequestEndsInTime == DhcpSpec => []RequestIsShort
<1>1. DhcpInit => TimeInv
  BY DhcpAssumption DEF DhcpInit, TimeInv, RequestIsShort
<1>2. TimeInv => RequestIsShort
  BY DEF TimeInv
<1> QED
  BY <1>1, <1>2, TimeStep, PTL DEF DhcpSpec

-----------------------------------------------------------------------------
(* Dhcp: the lease *)

\* A server that granted a request of this boot is the one the keyboard took, and the only
\* one it names from then on; so that its address stays bound until the lease ends.
Kept(s) == s \in expired \/ bound[s]

LeaseInv ==
  /\ \A m \in replies : m.server \in Server
  /\ serverIp \in Server \cup {None}
  /\ bound \in [Server -> BOOLEAN]
  /\ acked \subseteq Server
  /\ \A s \in acked : serverIp = s /\ Kept(s)

\* What a broadcast does: no server that granted the address frees it, as long as the
\* message names no other one; and only the server it names grants.
LEMMA BroadcastKeepsGrants ==
  ASSUME NEW m, send_DHCP_MESSAGE(m),
         bound \in [Server -> BOOLEAN], acked \subseteq Server,
         \A s \in acked : Kept(s) /\ (m.type = "DISCOVER" \/ m.server = s)
  PROVE  /\ bound' \in [Server -> BOOLEAN] /\ acked' \subseteq Server
         /\ \A s \in acked' : Kept(s)' /\ (s \in acked \/ (m.type # "DISCOVER" /\ m.server = s))
         /\ \A r \in replies' : r \in replies \/ r.server \in Server
<1>1. PICK o \in [Server -> UNION {Served(s, m) \cup Ignored(s) : s \in Server}] :
        /\ \A s \in Server : o[s] \in Served(s, m) \cup Ignored(s)
        /\ bound' = [s \in Server |-> o[s].holds]
        /\ replies' = replies \cup UNION {Answers(s, m, o[s].answer) : s \in Server}
        /\ acked' = acked \cup {s \in Server : "ACK" \in o[s].answer}
        /\ expired' = expired \ {s \in Server : "ACK" \in o[s].answer}
  BY DEF send_DHCP_MESSAGE
<1>2. ASSUME NEW s \in Server PROVE bound'[s] = o[s].holds
  BY <1>1
<1>3. ASSUME NEW s \in Server PROVE o[s].holds \in BOOLEAN
  <2>1. o[s] \in Served(s, m) \cup Ignored(s) /\ bound[s] \in BOOLEAN
    BY <1>1
  <2>2. o[s].holds = bound[s] \/ o[s].holds = TRUE \/ o[s].holds = FALSE
    BY <2>1 DEF Served, Ignored
  <2> QED
    BY <2>1, <2>2
<1>4. ASSUME NEW s \in acked, s \notin expired PROVE o[s].holds
  <2>1. o[s] \in Served(s, m) \cup Ignored(s) /\ bound[s] = TRUE
    BY <1>1, <1>4 DEF Kept
  <2>2. m.type = "DISCOVER" \/ m.server = s
    OBVIOUS
  <2> QED
    BY <2>1, <2>2 DEF Served, Ignored
<1>5. ASSUME NEW s \in Server, "ACK" \in o[s].answer
      PROVE  o[s].holds /\ m.type # "DISCOVER" /\ m.server = s
  <2>1. o[s] \in Served(s, m) \cup Ignored(s)
    BY <1>1
  <2> QED
    BY <1>5, <2>1 DEF Served, Ignored
<1>6. ASSUME NEW r \in replies' PROVE r \in replies \/ r.server \in Server
  BY <1>1 DEF Answers
<1>7. bound' \in [Server -> BOOLEAN]
  BY <1>1, <1>3
<1>8. acked' \subseteq Server
  BY <1>1
<1>9. ASSUME NEW s \in acked'
      PROVE  Kept(s)' /\ (s \in acked \/ (m.type # "DISCOVER" /\ m.server = s))
  <2>1. CASE "ACK" \in o[s].answer
    BY <1>1, <1>2, <1>5, <2>1 DEF Kept
  <2>2. CASE "ACK" \notin o[s].answer
    BY <1>1, <1>2, <1>4, <2>2 DEF Kept
  <2> QED
    BY <2>1, <2>2
<1> QED
  BY <1>6, <1>7, <1>8, <1>9

LEMMA LeaseReceive == ASSUME LeaseInv, Receive PROVE LeaseInv'
<1>1. PICK m \in replies :
        Answered(m) /\ (Offered(m) \/ Leased(m) \/ Refused(m) \/ OutOfPlace(m))
  BY DEF Receive
<1>2. /\ serverIp' \in Server
      /\ serverIp \in Server => serverIp' = serverIp
  BY <1>1, DhcpAssumption DEF Answered, ServerOf, LeaseInv
<1>3. \A s \in acked : serverIp' = s
  BY <1>2 DEF LeaseInv
<1>4. CASE Offered(m)
  <2> DEFINE request == [type |-> "REQUEST", id |-> m.id, ip |-> localIp', server |-> serverIp']
  <2>1. send_DHCP_MESSAGE(request)
    BY <1>4 DEF Offered
  <2>2. request.type = "REQUEST" /\ request.server = serverIp'
    OBVIOUS
  <2> HIDE DEF request
  <2>3. \A s \in acked : Kept(s) /\ (request.type = "DISCOVER" \/ request.server = s)
    BY <1>3, <2>2 DEF LeaseInv
  <2>4. /\ bound' \in [Server -> BOOLEAN] /\ acked' \subseteq Server
        /\ \A s \in acked' : Kept(s)' /\ (s \in acked \/ request.server = s)
        /\ \A r \in replies' : r \in replies \/ r.server \in Server
    BY <2>1, <2>3, BroadcastKeepsGrants DEF LeaseInv
  <2> QED
    BY <1>2, <1>3, <2>2, <2>4 DEF LeaseInv
<1>5. CASE Leased(m) \/ Refused(m) \/ OutOfPlace(m)
  <2>1. UNCHANGED serverVars
    BY <1>5 DEF Leased, Refused, OutOfPlace, serverVars
  <2> QED
    BY <1>2, <1>3, <2>1 DEF LeaseInv, Kept, serverVars
<1> QED
  BY <1>1, <1>4, <1>5

LEMMA LeaseDiscover == ASSUME LeaseInv, Discover PROVE LeaseInv'
<1> DEFINE hello == [type |-> "DISCOVER", id |-> transactionId + 1]
<1>1. send_DHCP_MESSAGE(hello) /\ serverIp' = serverIp
  BY DEF Discover
<1>2. hello.type = "DISCOVER"
  OBVIOUS
<1> HIDE DEF hello
<1>3. /\ bound' \in [Server -> BOOLEAN] /\ acked' \subseteq Server
      /\ \A s \in acked' : Kept(s)' /\ s \in acked
      /\ \A r \in replies' : r \in replies \/ r.server \in Server
  BY <1>1, <1>2, BroadcastKeepsGrants DEF LeaseInv
<1> QED
  BY <1>1, <1>3 DEF LeaseInv

LEMMA LeaseStep == LeaseInv /\ [DhcpNext]_dhcpVars => LeaseInv'
<1> SUFFICES ASSUME LeaseInv, [DhcpNext]_dhcpVars PROVE LeaseInv'
  OBVIOUS
<1>1. CASE begin
  BY <1>1 DEF begin, LeaseInv
<1>2. CASE Discover
  BY <1>2, LeaseDiscover
<1>3. CASE Receive
  BY <1>3, LeaseReceive
<1>4. CASE ReceiveForeign \/ Tick \/ ResponseTimesOut \/ UNCHANGED dhcpVars
  <2>1. UNCHANGED <<serverIp, replies, bound, acked, expired>>
    BY <1>4 DEF ReceiveForeign, Tick, ResponseTimesOut, dhcpVars, clientVars, serverVars
  <2> QED
    BY <2>1 DEF LeaseInv, Kept
<1>5. CASE LeaseEnds
  BY <1>5 DEF LeaseEnds, LeaseInv, Kept, clientVars
<1> QED
  BY <1>1, <1>2, <1>3, <1>4, <1>5 DEF DhcpNext

\* LeaseIsGranted for any servers and any number of boots and transactions: no message of the
\* keyboard frees a lease that was granted in this boot, only its time does, and then the
\* keyboard goes on using the address (Dhcp.cpp:271, 306-315, 360-404).
THEOREM GrantHolds == DhcpSpec => []LeaseIsGranted
<1>1. DhcpInit => LeaseInv
  BY DEF DhcpInit, LeaseInv
<1>2. LeaseInv => LeaseIsGranted
  BY DEF LeaseInv, Kept, LeaseIsGranted
<1> QED
  BY <1>1, <1>2, LeaseStep, PTL DEF DhcpSpec

-----------------------------------------------------------------------------
(* RxFifo: words of the chip and the data in them *)

Word == [kind : {"size", "address", "data"}, data : Seq(Nat)]
Full == {w \in Word : w.kind = "data" /\ Len(w.data) = 2}
Half == {w \in Word : w.kind = "data" /\ Len(w.data) = 1}
Other == {w \in Word : w.kind # "data"}

DataOf(w) == IF w.kind = "data" THEN w.data ELSE << >>
Datas(words) == [i \in DOMAIN words |-> DataOf(words[i])]

\* The data of words are what FlattenSeq puts together.
LEMMA DataInWords ==
  ASSUME NEW u \in Seq(Word)
  PROVE  /\ Datas(u) \in Seq(Seq(Nat)) /\ Len(Datas(u)) = Len(u)
         /\ DataIn(u) = FlattenSeq(Datas(u)) /\ DataIn(u) \in Seq(Nat)
<1>1. \A i \in DOMAIN u : DataOf(u[i]) \in Seq(Nat)
  <2>1. \A w \in Word : DataOf(w) \in Seq(Nat)
    BY DEF Word, DataOf
  <2> QED
    BY <2>1
<1>2. Datas(u) \in Seq(Seq(Nat)) /\ Len(Datas(u)) = Len(u)
  BY <1>1 DEF Datas
<1>3. DataIn(u) = FlattenSeq(Datas(u))
  BY DEF DataIn, Datas, DataOf
<1> QED
  BY <1>2, <1>3, FlattenIsFold

LEMMA PartsAt ==
  ASSUME NEW T, NEW x \in Seq(T), NEW y \in Seq(T)
  PROVE  /\ x \o y \in Seq(T) /\ Len(x \o y) = Len(x) + Len(y)
         /\ \A i \in 1 .. (Len(x) + Len(y)) :
              (x \o y)[i] = IF i <= Len(x) THEN x[i] ELSE y[i - Len(x)]
  OBVIOUS

\* The data in two pieces of the chip, one behind the other.
LEMMA DataInConcat ==
  ASSUME NEW u \in Seq(Word), NEW v \in Seq(Word)
  PROVE  u \o v \in Seq(Word) /\ DataIn(u \o v) = DataIn(u) \o DataIn(v)
<1>1. u \o v \in Seq(Word)
  OBVIOUS
<1>2. Datas(u \o v) = Datas(u) \o Datas(v)
  <2> DEFINE x == Datas(u)
             y == Datas(v)
             z == Datas(u \o v)
  <2>1. x \in Seq(Seq(Nat)) /\ Len(x) = Len(u) /\ y \in Seq(Seq(Nat)) /\ Len(y) = Len(v)
    BY DataInWords
  <2>2. z \in Seq(Seq(Nat)) /\ Len(z) = Len(u \o v)
    BY <1>1, DataInWords
  <2>3. Len(u \o v) = Len(u) + Len(v) /\ Len(u) \in Nat /\ Len(v) \in Nat
    OBVIOUS
  <2>4. ASSUME NEW i \in 1 .. (Len(u) + Len(v))
        PROVE  z[i] = IF i <= Len(u) THEN x[i] ELSE y[i - Len(u)]
    <3>1. z[i] = DataOf((u \o v)[i])
      BY <1>1 DEF Datas
    <3>2. CASE i <= Len(u)
      <4>1. (u \o v)[i] = u[i] /\ x[i] = DataOf(u[i])
        BY <3>2 DEF Datas
      <4> QED
        BY <3>1, <3>2, <4>1
    <3>3. CASE i > Len(u)
      <4>1. (u \o v)[i] = v[i - Len(u)] /\ i - Len(u) \in DOMAIN v
        BY <3>3
      <4>2. y[i - Len(u)] = DataOf(v[i - Len(u)])
        BY <4>1 DEF Datas
      <4>3. ~(i <= Len(u))
        BY <2>3, <3>3
      <4> QED
        BY <3>1, <4>1, <4>2, <4>3
    <3> QED
      BY <2>3, <3>2, <3>3
  <2> HIDE DEF x, y, z
  <2>5. /\ x \o y \in Seq(Seq(Nat)) /\ Len(x \o y) = Len(u) + Len(v)
        /\ \A i \in 1 .. (Len(u) + Len(v)) :
             (x \o y)[i] = IF i <= Len(u) THEN x[i] ELSE y[i - Len(u)]
    <3>1. /\ x \o y \in Seq(Seq(Nat)) /\ Len(x \o y) = Len(x) + Len(y)
          /\ \A i \in 1 .. (Len(x) + Len(y)) :
               (x \o y)[i] = IF i <= Len(x) THEN x[i] ELSE y[i - Len(x)]
      BY <2>1, PartsAt
    <3>2. Len(x) = Len(u) /\ Len(y) = Len(v)
      BY <2>1
    <3> QED
      BY <3>1, <3>2
  <2>6. z = x \o y
    BY <2>2, <2>3, <2>4, <2>5, SeqEqual
  <2> QED
    BY <2>6 DEF x, y, z
<1>3. FlattenSeq(Datas(u) \o Datas(v)) = FlattenSeq(Datas(u)) \o FlattenSeq(Datas(v))
  BY DataInWords, FlattenConcat
<1> QED
  BY <1>1, <1>2, <1>3, DataInWords

\* Headers hold no data.
LEMMA NothingInHeaders ==
  ASSUME NEW u \in Seq(Other)
  PROVE  u \in Seq(Word) /\ DataIn(u) = << >>
<1>1. u \in Seq(Word)
  BY SeqMonotonic DEF Other
<1>2. Datas(u) \in Seq({<< >>})
  <2>1. \A w \in Other : DataOf(w) = << >>
    BY DEF Other, DataOf
  <2> QED
    BY <2>1 DEF Datas
<1>3. FlattenSeq(Datas(u)) = << >>
  BY <1>2, FlattenEmpties
<1> QED
  BY <1>1, <1>3, DataInWords

\* Full words hold two bytes each.
LEMMA TwoInEach ==
  ASSUME NEW u \in Seq(Full)
  PROVE  u \in Seq(Word) /\ DataIn(u) \in Seq(Nat) /\ Len(DataIn(u)) = 2 * Len(u)
<1>1. u \in Seq(Word)
  BY SeqMonotonic DEF Full
<1>2. Datas(u) \in Seq({s \in Seq(Nat) : Len(s) = 2})
  <2> DEFINE E == {s \in Seq(Nat) : Len(s) = 2}
  <2>1. \A w \in Full : DataOf(w) \in E
    BY DEF Full, DataOf, Word
  <2> HIDE DEF E
  <2>2. \A i \in DOMAIN u : DataOf(u[i]) \in E
    BY <2>1
  <2>3. Datas(u) \in Seq(E)
    BY <2>2 DEF Datas
  <2> QED
    BY <2>3 DEF E
<1>3. FlattenSeq(Datas(u)) \in Seq(Nat) /\ Len(FlattenSeq(Datas(u))) = 2 * Len(Datas(u))
  BY <1>2, FlattenPairs
<1> QED
  BY <1>1, <1>3, DataInWords

LEMMA DataInOne ==
  ASSUME NEW w \in Word
  PROVE  <<w>> \in Seq(Word) /\ DataIn(<<w>>) = DataOf(w)
<1>1. <<w>> \in Seq(Word) /\ DataOf(w) \in Seq(Nat)
  BY DEF Word, DataOf
<1>2. Datas(<<w>>) = <<DataOf(w)>>
  BY DEF Datas
<1> QED
  BY <1>1, <1>2, DataInWords, FlattenOne

-----------------------------------------------------------------------------
(* RxFifo: payloads *)

\* Words are counted by halves, and an odd byte takes one more.
LEMMA WordsForBytes ==
  ASSUME NEW n \in Nat
  PROVE  /\ WordsFor(n) \in Nat
         /\ \/ 2 * WordsFor(n) = n /\ n % 2 = 0
            \/ 2 * WordsFor(n) = n + 1 /\ n % 2 = 1
  BY DEF WordsFor

\* The words with the last n bytes of a packet.
Payload(n) ==
  {p \in Seq(Word) : /\ Len(p) = WordsFor(n)
                     /\ \A i \in 1 .. Len(p) : p[i] \in IF 2 * i <= n THEN Full ELSE Half}

\* A payload holds as many bytes as it is for.
LEMMA BytesInPayload ==
  ASSUME NEW n \in Nat, NEW p \in Payload(n)
  PROVE  /\ p \in Seq(Word) /\ Len(p) = WordsFor(n)
         /\ DataIn(p) \in Seq(Nat) /\ Len(DataIn(p)) = n
<1>1. p \in Seq(Word) /\ Len(p) = WordsFor(n) /\ Len(p) \in Nat
  BY DEF Payload
<1>2. CASE 2 * WordsFor(n) = n
  <2>1. \A i \in 1 .. Len(p) : p[i] \in Full
    <3> TAKE i \in 1 .. Len(p)
    <3>1. p[i] \in IF 2 * i <= n THEN Full ELSE Half
      BY DEF Payload
    <3>2. 2 * i <= n
      <4> DEFINE m == WordsFor(n)
      <4>1. m \in Nat /\ 2 * m = n /\ i \in 1 .. m
        BY <1>1, <1>2
      <4> HIDE DEF m
      <4> QED
        BY <4>1
    <3> QED
      BY <3>1, <3>2
  <2>2. p \in Seq(Full)
    BY <1>1, <2>1
  <2> QED
    BY <1>1, <1>2, <2>2, TwoInEach
<1>3. CASE 2 * WordsFor(n) = n + 1
  <2> DEFINE k == WordsFor(n) - 1
             a == SubSeq(p, 1, k)
             w == p[k + 1]
  <2>1. k \in Nat /\ k + 1 = Len(p) /\ 2 * k + 1 = n
    <3> DEFINE m == WordsFor(n)
    <3>1. m \in Nat /\ 2 * m = n + 1 /\ Len(p) = m
      BY <1>1, <1>3
    <3> HIDE DEF m
    <3>2. m - 1 \in Nat /\ (m - 1) + 1 = Len(p) /\ 2 * (m - 1) + 1 = n
      BY <3>1
    <3> QED
      BY <3>2 DEF m
  <2>2. a \in Seq(Word) /\ Len(a) = k /\ w \in Word /\ p = a \o <<w>>
    BY <1>1, <2>1
  <2>3. \A i \in 1 .. k : p[i] \in Full /\ a[i] = p[i]
    BY <1>1, <2>1 DEF Payload
  <2>4. w \in Half
    BY <1>1, <2>1 DEF Payload
  <2> HIDE DEF k, w, a
  <2>5. a \in Seq(Full)
    BY <2>2, <2>3, <2>1
  <2>6. DataIn(a) \in Seq(Nat) /\ Len(DataIn(a)) = 2 * k
    BY <2>2, <2>5, TwoInEach
  <2>7. DataOf(w) \in Seq(Nat) /\ Len(DataOf(w)) = 1
    BY <2>4 DEF Half, DataOf, Word
  <2>8. DataIn(p) = DataIn(a) \o DataOf(w)
    BY <2>2, DataInConcat, DataInOne
  <2> DEFINE x == DataIn(a)
             y == DataOf(w)
  <2>9. Len(x \o y) = 2 * k + 1 /\ x \o y \in Seq(Nat)
    <3>1. x \in Seq(Nat) /\ y \in Seq(Nat) /\ Len(x) = 2 * k /\ Len(y) = 1
      BY <2>6, <2>7
    <3> HIDE DEF x, y
    <3>2. x \o y \in Seq(Nat) /\ Len(x \o y) = Len(x) + Len(y)
      BY <3>1, ConcatProperties
    <3> QED
      BY <3>1, <3>2
  <2> QED
    BY <1>1, <2>1, <2>8, <2>9
<1> QED
  BY <1>2, <1>3, WordsForBytes

\* The words for the first n of m bytes, and for the others.
LEMMA WordsForMore ==
  ASSUME NEW n \in Nat, NEW m \in Nat, n <= m
  PROVE  LET k == WordsFor(n) IN
         /\ k \in Nat /\ k <= WordsFor(m)
         /\ WordsFor(2 * k) = k
         /\ 2 * k <= m => WordsFor(m - 2 * k) = WordsFor(m) - k
         /\ 2 * k > m => k = WordsFor(m) /\ n = m
<1> DEFINE k == WordsFor(n)
           l == WordsFor(m)
           a == WordsFor(2 * k)
           b == WordsFor(m - 2 * k)
<1>1. k \in Nat /\ (2 * k = n \/ 2 * k = n + 1)
  BY WordsForBytes
<1>2. l \in Nat /\ (2 * l = m \/ 2 * l = m + 1)
  BY WordsForBytes
<1> HIDE DEF k, l
<1>3. a \in Nat /\ (2 * a = 2 * k \/ 2 * a = 2 * k + 1)
  BY <1>1, WordsForBytes
<1>4. 2 * k <= m => b \in Nat /\ (2 * b = m - 2 * k \/ 2 * b = m - 2 * k + 1)
  <2>1. 2 * k <= m => m - 2 * k \in Nat
    BY <1>1
  <2> QED
    BY <2>1, WordsForBytes
<1> HIDE DEF a, b
<1>5. k <= l /\ a = k /\ (2 * k <= m => b = l - k) /\ (2 * k > m => k = l /\ n = m)
  BY <1>1, <1>2, <1>3, <1>4
<1> QED
  BY <1>1, <1>5 DEF k, l, a, b

\* The first k words of a payload and the others.
FirstWords(p, k) == SubSeq(p, 1, k)
RestWords(p, k) == SubSeq(p, k + 1, Len(p))

LEMMA Parted ==
  ASSUME NEW p \in Seq(Word), NEW r \in Seq(Word), NEW k \in Nat, k <= Len(p)
  PROVE  /\ FirstWords(p, k) \in Seq(Word) /\ Len(FirstWords(p, k)) = k
         /\ \A i \in 1 .. k : FirstWords(p, k)[i] = p[i]
         /\ RestWords(p, k) \in Seq(Word) /\ Len(RestWords(p, k)) = Len(p) - k
         /\ \A i \in 1 .. (Len(p) - k) : RestWords(p, k)[i] = p[k + i]
         /\ p = FirstWords(p, k) \o RestWords(p, k)
         /\ RestWords(p \o r, k) = RestWords(p, k) \o r
<1>1. Len(p) \in Nat /\ Len(r) \in Nat /\ p \o r \in Seq(Word) /\ Len(p \o r) = Len(p) + Len(r)
  OBVIOUS
<1>2. /\ FirstWords(p, k) \in Seq(Word) /\ Len(FirstWords(p, k)) = k
      /\ \A i \in 1 .. k : FirstWords(p, k)[i] = p[i]
  BY <1>1 DEF FirstWords
<1>3. /\ RestWords(p, k) \in Seq(Word) /\ Len(RestWords(p, k)) = Len(p) - k
      /\ \A i \in 1 .. (Len(p) - k) : RestWords(p, k)[i] = p[k + i]
  BY <1>1 DEF RestWords
<1>4. /\ RestWords(p \o r, k) \in Seq(Word) /\ Len(RestWords(p \o r, k)) = Len(p) + Len(r) - k
      /\ \A i \in 1 .. (Len(p) + Len(r) - k) : RestWords(p \o r, k)[i] = (p \o r)[k + i]
  BY <1>1 DEF RestWords
<1>5. p = FirstWords(p, k) \o RestWords(p, k)
  <2> DEFINE a == FirstWords(p, k)
             b == RestWords(p, k)
  <2>1. a \in Seq(Word) /\ Len(a) = k /\ \A i \in 1 .. k : a[i] = p[i]
    BY <1>2
  <2>2. /\ b \in Seq(Word) /\ Len(b) = Len(p) - k
        /\ \A i \in 1 .. (Len(p) - k) : b[i] = p[k + i]
    BY <1>3
  <2> HIDE DEF a, b
  <2>3. /\ a \o b \in Seq(Word) /\ Len(a \o b) = Len(p)
        /\ \A i \in 1 .. Len(p) : (a \o b)[i] = IF i <= k THEN a[i] ELSE b[i - k]
    BY <1>1, <2>1, <2>2, PartsAt
  <2>4. ASSUME NEW i \in 1 .. Len(p) PROVE (a \o b)[i] = p[i]
    <3>1. CASE i <= k
      BY <2>1, <2>3, <3>1
    <3>2. CASE ~(i <= k)
      <4>1. i - k \in 1 .. (Len(p) - k) /\ k + (i - k) = i
        BY <1>1, <3>2
      <4> QED
        BY <2>2, <2>3, <3>2, <4>1
    <3> QED
      BY <3>1, <3>2
  <2>5. p = a \o b
    BY <2>3, <2>4, SeqEqual
  <2> QED
    BY <2>5 DEF a, b
<1>6. RestWords(p \o r, k) = RestWords(p, k) \o r
  <2> DEFINE b == RestWords(p, k)
             z == RestWords(p \o r, k)
             n == Len(p) + Len(r) - k
  <2>1. b \in Seq(Word) /\ Len(b) = Len(p) - k /\ \A i \in 1 .. (Len(p) - k) : b[i] = p[k + i]
    BY <1>3
  <2>2. z \in Seq(Word) /\ Len(z) = n /\ \A i \in 1 .. n : z[i] = (p \o r)[k + i]
    BY <1>4
  <2>n. n \in Nat /\ (Len(p) - k) + Len(r) = n
    BY <1>1
  <2> HIDE DEF b, z
  <2>3. /\ b \o r \in Seq(Word) /\ Len(b \o r) = n
        /\ \A i \in 1 .. n : (b \o r)[i] = IF i <= Len(p) - k THEN b[i] ELSE r[i - (Len(p) - k)]
    <3>1. /\ b \o r \in Seq(Word) /\ Len(b \o r) = Len(b) + Len(r)
          /\ \A i \in 1 .. (Len(b) + Len(r)) :
               (b \o r)[i] = IF i <= Len(b) THEN b[i] ELSE r[i - Len(b)]
      BY <2>1, PartsAt
    <3>2. Len(b) = Len(p) - k /\ Len(b) + Len(r) = n
      BY <2>1, <2>n
    <3> HIDE DEF n
    <3> QED
      BY <3>1, <3>2
  <2>4. ASSUME NEW i \in 1 .. n PROVE (b \o r)[i] = z[i]
    <3>0. /\ k + i \in 1 .. (Len(p) + Len(r))
          /\ (p \o r)[k + i] = IF k + i <= Len(p) THEN p[k + i] ELSE r[k + i - Len(p)]
      BY <1>1, PartsAt
    <3>1. CASE i <= Len(p) - k
      <4>1. k + i <= Len(p) /\ i \in 1 .. (Len(p) - k)
        BY <1>1, <3>1
      <4> QED
        BY <2>1, <2>2, <2>3, <3>0, <3>1, <4>1
    <3>2. CASE ~(i <= Len(p) - k)
      <4>1. ~(k + i <= Len(p)) /\ i - (Len(p) - k) = k + i - Len(p)
        BY <1>1, <3>2
      <4> QED
        BY <2>2, <2>3, <3>0, <3>2, <4>1
    <3> QED
      BY <3>1, <3>2
  <2>5. z = b \o r
    BY <2>2, <2>3, <2>4, SeqEqual
  <2> QED
    BY <2>5 DEF b, z
<1> QED
  BY <1>2, <1>3, <1>5, <1>6

\* Words for the first n bytes are taken off: a payload is left.
LEMMA PayloadParts ==
  ASSUME NEW m \in Nat, NEW n \in Nat, n <= m, NEW p \in Payload(m)
  PROVE  LET k == WordsFor(n) IN
         /\ k \in Nat /\ k <= Len(p)
         /\ 2 * k <= m => FirstWords(p, k) \in Seq(Full) /\ RestWords(p, k) \in Payload(m - 2 * k)
         /\ 2 * k > m => RestWords(p, k) \in Payload(0) /\ FirstWords(p, k) = p /\ n = m
<1> DEFINE k == WordsFor(n)
<1>1. /\ p \in Seq(Word) /\ Len(p) = WordsFor(m) /\ Len(p) \in Nat
      /\ \A i \in 1 .. Len(p) : p[i] \in IF 2 * i <= m THEN Full ELSE Half
  BY DEF Payload
<1>2. /\ k \in Nat /\ k <= Len(p)
      /\ 2 * k <= m => WordsFor(m - 2 * k) = Len(p) - k
      /\ 2 * k > m => k = Len(p) /\ n = m
  BY <1>1, WordsForMore
<1> HIDE DEF k
<1>3. /\ FirstWords(p, k) \in Seq(Word) /\ Len(FirstWords(p, k)) = k
      /\ \A i \in 1 .. k : FirstWords(p, k)[i] = p[i]
      /\ RestWords(p, k) \in Seq(Word) /\ Len(RestWords(p, k)) = Len(p) - k
      /\ \A i \in 1 .. (Len(p) - k) : RestWords(p, k)[i] = p[k + i]
  BY <1>1, <1>2, Parted
<1>4. CASE 2 * k <= m
  <2>1. \A i \in 1 .. k : FirstWords(p, k)[i] \in Full
    <3> TAKE i \in 1 .. k
    <3>1. i \in 1 .. Len(p) /\ 2 * i <= m
      BY <1>1, <1>2, <1>4
    <3> QED
      BY <1>1, <1>3, <3>1
  <2>2. \A i \in 1 .. (Len(p) - k) :
          RestWords(p, k)[i] \in IF 2 * i <= m - 2 * k THEN Full ELSE Half
    <3> TAKE i \in 1 .. (Len(p) - k)
    <3>1. k + i \in 1 .. Len(p) /\ (2 * (k + i) <= m <=> 2 * i <= m - 2 * k)
      BY <1>1, <1>2
    <3> QED
      BY <1>1, <1>3, <3>1
  <2>3. FirstWords(p, k) \in Seq(Full)
    BY <1>2, <1>3, <2>1
  <2>4. RestWords(p, k) \in Payload(m - 2 * k)
    BY <1>2, <1>3, <1>4, <2>2 DEF Payload
  <2>5. ~(2 * k > m)
    BY <1>2, <1>4
  <2> QED
    BY <1>2, <2>3, <2>4, <2>5 DEF k
<1>5. CASE 2 * k > m
  <2>1. k = Len(p) /\ n = m /\ ~(2 * k <= m)
    BY <1>2, <1>5
  <2>2. FirstWords(p, k) = p
    BY <1>1, <1>3, <2>1, SeqEqual
  <2>3. Len(RestWords(p, k)) = 0
    BY <1>1, <1>3, <2>1
  <2>4. WordsFor(0) = 0
    BY DEF WordsFor
  <2>5. RestWords(p, k) \in Payload(0)
    BY <1>3, <2>3, <2>4 DEF Payload
  <2> QED
    BY <1>2, <2>1, <2>2, <2>5 DEF k
<1> QED
  BY <1>2, <1>4, <1>5

-----------------------------------------------------------------------------
(* RxFifo: what read_data gives *)

\* What a word gives: an odd byte comes with the pad.
LEMMA BytesOfWords ==
  /\ \A w \in Full : Bytes(w) = DataOf(w) /\ DataOf(w) \in Seq(Nat)
  /\ \A w \in Half : /\ Bytes(w) = DataOf(w) \o <<0>> /\ DataOf(w) \in Seq(Nat)
                     /\ Bytes(w) \in Seq(Nat)
<1>1. ASSUME NEW w \in Full PROVE Bytes(w) = DataOf(w) /\ DataOf(w) \in Seq(Nat)
  <2>1. w.kind = "data" /\ w.data \in Seq(Nat) /\ Len(w.data) = 2
    BY DEF Full, Word
  <2> QED
    BY <2>1 DEF Bytes, DataOf
<1>2. ASSUME NEW w \in Half
      PROVE  /\ Bytes(w) = DataOf(w) \o <<0>> /\ DataOf(w) \in Seq(Nat)
             /\ Bytes(w) \in Seq(Nat)
  <2>1. w.kind = "data" /\ w.data \in Seq(Nat) /\ Len(w.data) = 1
    BY DEF Half, Word
  <2>2. Bytes(w) = w.data \o <<0>> /\ DataOf(w) = w.data
    BY <2>1 DEF Bytes, DataOf
  <2>3. w.data \o <<0>> \in Seq(Nat)
    BY <2>1
  <2> QED
    BY <2>1, <2>2, <2>3
<1> QED
  BY <1>1, <1>2

\* The last byte of a packet of odd length comes with the pad.
LEMMA ReadGives ==
  ASSUME NEW m \in Nat, NEW n \in Nat, n <= m, NEW p \in Payload(m), NEW r \in Seq(Word)
  PROVE  LET k == WordsFor(n) IN
         read_data(p \o r, n)
           = IF 2 * k <= m THEN DataIn(FirstWords(p, k)) ELSE DataIn(p) \o <<0>>
<1> DEFINE k == WordsFor(n)
           words == p \o r
           read == [i \in 1 .. k |-> Bytes(WordAt(words, i))]
<1>1. /\ p \in Seq(Word) /\ Len(p) \in Nat /\ Len(r) \in Nat
      /\ \A i \in 1 .. Len(p) : p[i] \in IF 2 * i <= m THEN Full ELSE Half
  BY DEF Payload
<1>2. /\ k \in Nat /\ k <= Len(p)
      /\ 2 * k <= m => FirstWords(p, k) \in Seq(Full)
      /\ 2 * k > m => FirstWords(p, k) = p /\ n = m
      /\ 2 * k = n \/ 2 * k = n + 1
  BY PayloadParts, WordsForBytes
<1>3. read_data(words, n) = FlattenSeq(read)
  BY DEF read_data
<1> HIDE DEF k
<1>4. \A i \in 1 .. k : WordAt(words, i) = p[i]
  <2> TAKE i \in 1 .. k
  <2>1. i \in 1 .. Len(p) /\ i \in 1 .. (Len(p) + Len(r))
    BY <1>1, <1>2
  <2>2. i \in DOMAIN words /\ words[i] = p[i]
    BY <1>1, <2>1
  <2> QED
    BY <2>2 DEF WordAt
<1>5. /\ FirstWords(p, k) \in Seq(Word) /\ Len(FirstWords(p, k)) = k
      /\ \A i \in 1 .. k : FirstWords(p, k)[i] = p[i]
  BY <1>1, <1>2, Parted
<1>6. read = [i \in 1 .. k |-> Bytes(p[i])]
  BY <1>4
<1> HIDE DEF words, read
<1>7. CASE 2 * k <= m
  <2>1. DOMAIN FirstWords(p, k) = 1 .. k
    BY <1>2, <1>5
  <2>2. \A i \in 1 .. k : Bytes(p[i]) = DataOf(FirstWords(p, k)[i])
    <3> TAKE i \in 1 .. k
    <3>1. FirstWords(p, k)[i] \in Full
      BY <1>2, <1>7, <2>1
    <3> QED
      BY <1>5, <3>1, BytesOfWords
  <2>3. read = Datas(FirstWords(p, k))
    BY <1>6, <2>1, <2>2 DEF Datas
  <2>4. read_data(words, n) = DataIn(FirstWords(p, k))
    BY <1>3, <1>5, <2>3, DataInWords
  <2> QED
    BY <1>7, <2>4 DEF k, words
<1>8. CASE 2 * k > m
  <2> DEFINE j == k - 1
             f == FirstWords(p, j)
             w == p[k]
  <2>1. j \in Nat /\ j + 1 = k /\ 2 * j <= m /\ ~(2 * k <= m) /\ j <= Len(p) /\ k \in 1 .. Len(p)
    BY <1>2, <1>8
  <2>2. FirstWords(p, k) = p /\ Len(p) = k
    BY <1>2, <1>5, <1>8
  <2>3. /\ f \in Seq(Word) /\ Len(f) = j /\ \A i \in 1 .. j : f[i] = p[i]
        /\ RestWords(p, j) \in Seq(Word) /\ Len(RestWords(p, j)) = Len(p) - j
        /\ \A i \in 1 .. (Len(p) - j) : RestWords(p, j)[i] = p[j + i]
        /\ p = f \o RestWords(p, j)
    <3>1. p \in Seq(Word) /\ r \in Seq(Word) /\ j \in Nat /\ j <= Len(p)
      BY <1>1, <2>1
    <3> HIDE DEF j
    <3>2. /\ FirstWords(p, j) \in Seq(Word) /\ Len(FirstWords(p, j)) = j
          /\ \A i \in 1 .. j : FirstWords(p, j)[i] = p[i]
      BY <3>1, Parted
    <3>3. /\ RestWords(p, j) \in Seq(Word) /\ Len(RestWords(p, j)) = Len(p) - j
          /\ \A i \in 1 .. (Len(p) - j) : RestWords(p, j)[i] = p[j + i]
      BY <3>1, Parted
    <3>4. p = FirstWords(p, j) \o RestWords(p, j)
      BY <3>1, Parted
    <3> QED
      BY <3>2, <3>3, <3>4
  <2>4. w \in Half /\ w \in Word
    BY <1>1, <2>1 DEF Half
  <2>5. p = f \o <<w>>
    <3>1. Len(RestWords(p, j)) = 1
      BY <2>1, <2>2, <2>3
    <3>2. 1 \in 1 .. (Len(p) - j) /\ j + 1 = k
      BY <2>1, <2>2
    <3>3. RestWords(p, j)[1] = w
      BY <2>3, <3>2
    <3>4. RestWords(p, j) = <<w>>
      BY <2>3, <3>1, <3>3
    <3> QED
      BY <2>3, <3>4
  <2>6. \A i \in 1 .. j : f[i] \in Full
    <3> TAKE i \in 1 .. j
    <3>1. i \in 1 .. Len(p) /\ 2 * i <= m
      BY <2>1
    <3> QED
      BY <1>1, <2>3, <3>1
  <2> HIDE DEF j, f, w
  <2>7. Datas(f) \in Seq(Seq(Nat)) /\ Len(Datas(f)) = j /\ DataIn(f) = FlattenSeq(Datas(f))
        /\ DataIn(f) \in Seq(Nat)
    BY <2>3, DataInWords
  <2>8. Bytes(w) = DataOf(w) \o <<0>> /\ DataOf(w) \in Seq(Nat) /\ Bytes(w) \in Seq(Nat)
    BY <2>4, BytesOfWords
  <2>9. \A i \in 1 .. j : Bytes(p[i]) = Datas(f)[i]
    <3> TAKE i \in 1 .. j
    <3>1. i \in DOMAIN f
      BY <2>3
    <3>2. Datas(f)[i] = DataOf(f[i])
      BY <3>1 DEF Datas
    <3>3. Bytes(f[i]) = DataOf(f[i])
      BY <2>6, BytesOfWords
    <3> QED
      BY <2>3, <3>2, <3>3
  <2>10. read = Append(Datas(f), Bytes(w))
    <3> DEFINE a == Append(Datas(f), Bytes(w))
    <3>1. /\ a \in Seq(Seq(Nat)) /\ Len(a) = k /\ a[k] = Bytes(w)
          /\ \A i \in 1 .. j : a[i] = Datas(f)[i]
      <4> DEFINE d == Datas(f)
                 b == Bytes(w)
      <4>1. d \in Seq(Seq(Nat)) /\ Len(d) = j /\ b \in Seq(Nat)
        BY <2>7, <2>8
      <4> HIDE DEF d, b
      <4>2. /\ Append(d, b) \in Seq(Seq(Nat)) /\ Len(Append(d, b)) = Len(d) + 1
            /\ \A i \in 1 .. Len(d) : Append(d, b)[i] = d[i]
            /\ Append(d, b)[Len(d) + 1] = b
        BY <4>1, AppendProperties
      <4>3. Len(d) = j /\ Len(d) + 1 = k
        BY <4>1, <2>1
      <4> QED
        BY <4>2, <4>3 DEF d, b
    <3> HIDE DEF a
    <3>2. \A i \in 1 .. k : a[i] = Bytes(p[i])
      <4> TAKE i \in 1 .. k
      <4>1. CASE i = k
        BY <3>1, <4>1 DEF w
      <4>2. CASE i # k
        <5>1. i \in 1 .. j
          BY <2>1, <4>2
        <5> QED
          BY <2>9, <3>1, <5>1
      <4> QED
        BY <4>1, <4>2
    <3>3. a = [i \in 1 .. k |-> Bytes(p[i])]
      BY <3>1, <3>2
    <3> QED
      BY <1>6, <3>3 DEF a
  <2>11. FlattenSeq(read) = DataIn(f) \o Bytes(w)
    BY <2>7, <2>8, <2>10, FlattenAppend
  <2>12. DataIn(p) = DataIn(f) \o DataOf(w)
    <3>1. <<w>> \in Seq(Word) /\ DataIn(<<w>>) = DataOf(w)
      BY <2>4, DataInOne
    <3>2. DataIn(f \o <<w>>) = DataIn(f) \o DataIn(<<w>>)
      BY <2>3, <3>1, DataInConcat
    <3> QED
      BY <2>5, <3>1, <3>2
  <2>13. DataIn(f) \o (DataOf(w) \o <<0>>) = (DataIn(f) \o DataOf(w)) \o <<0>>
    <3> DEFINE x == DataIn(f)
               y == DataOf(w)
    <3>1. x \in Seq(Nat) /\ y \in Seq(Nat) /\ <<0>> \in Seq(Nat)
      BY <2>7, <2>8
    <3> HIDE DEF x, y
    <3>2. Groups(x, y, <<0>>)
      BY <3>1, Grouped
    <3>3. (x \o y) \o <<0>> = x \o (y \o <<0>>)
      BY <3>2, Zenon DEF Groups
    <3> QED
      BY <3>3 DEF x, y
  <2>14. read_data(words, n) = DataIn(p) \o <<0>>
    BY <1>3, <2>8, <2>11, <2>12, <2>13
  <2> QED
    BY <2>1, <2>14 DEF k, words
<1> QED
  BY <1>2, <1>7, <1>8

LEMMA Firsts ==
  ASSUME NEW T, NEW s \in Seq(T), NEW e \in T
  PROVE  /\ SubSeq(s, 1, Len(s)) = s /\ s \o << >> = s
         /\ SubSeq(s \o <<e>>, 1, Len(s)) = s
         /\ Len(s) > 0 => /\ SubSeq(s, 1, Len(s) - 1) \o <<Last(s)>> = s
                          /\ SubSeq(s, 1, Len(s) - 1) \in Seq(T)
                          /\ Last(s) \in T
<1>1. SubSeq(s, 1, Len(s)) = s /\ s \o << >> = s
  BY SubSeqFull
<1>2. SubSeq(s \o <<e>>, 1, Len(s)) = s
  OBVIOUS
<1>3. ASSUME Len(s) > 0
      PROVE  /\ SubSeq(s, 1, Len(s) - 1) \o <<Last(s)>> = s
             /\ SubSeq(s, 1, Len(s) - 1) \in Seq(T) /\ Last(s) \in T
  <2>1. Last(s) = s[Len(s)]
    BY DEF Last
  <2> QED
    BY <1>3, <2>1
<1> QED
  BY <1>1, <1>2, <1>3

\* The bytes of a payload of m of which n are read: those given, the one backed up and those
\* that are left, in this order.
Gives(m, n, p, r, read, left, backs) ==
  /\ SubSeq(read, 1, n) \in Seq(Nat)
  /\ n > 0 => Last(read) \in Nat
  /\ RestWords(p \o r, WordsFor(n)) = left \o r
  /\ left \in Payload(IF backs THEN m - n - 1 ELSE m - n)
  /\ DataIn(p) = (SubSeq(read, 1, n) \o (IF backs THEN <<Last(read)>> ELSE << >>))
                 \o DataIn(left)

LEMMA Taken ==
  ASSUME NEW m \in Nat, NEW n \in Nat, n <= m, NEW p \in Payload(m), NEW r \in Seq(Word)
  PROVE  Gives(m, n, p, r, read_data(p \o r, n), RestWords(p, WordsFor(n)), Backs(m - n, n))
<1> DEFINE k == WordsFor(n)
           read == read_data(p \o r, n)
           left == RestWords(p, k)
           front == FirstWords(p, k)
           backs == Backs(m - n, n)
<1>1. p \in Seq(Word) /\ Len(p) \in Nat /\ DataIn(p) \in Seq(Nat) /\ Len(DataIn(p)) = m
  BY BytesInPayload
<1>2. /\ k \in Nat /\ k <= Len(p)
      /\ 2 * k <= m => front \in Seq(Full) /\ left \in Payload(m - 2 * k)
      /\ 2 * k > m => left \in Payload(0) /\ front = p /\ n = m
  BY PayloadParts
<1>3. \/ 2 * k = n /\ n % 2 = 0
      \/ 2 * k = n + 1 /\ n % 2 = 1
  BY WordsForBytes
<1>4. read = IF 2 * k <= m THEN DataIn(front) ELSE DataIn(p) \o <<0>>
  BY ReadGives
<1> HIDE DEF k, read, left, front
<1>5. /\ front \in Seq(Word) /\ left \in Seq(Word) /\ p = front \o left
      /\ RestWords(p \o r, k) = left \o r
  <2>0. p \in Seq(Word) /\ r \in Seq(Word) /\ k \in Nat /\ k <= Len(p)
    BY <1>1, <1>2
  <2>1. FirstWords(p, k) \in Seq(Word)
    BY <2>0, Parted
  <2>2. RestWords(p, k) \in Seq(Word)
    BY <2>0, Parted
  <2>3. p = FirstWords(p, k) \o RestWords(p, k)
    BY <2>0, Parted
  <2>4. RestWords(p \o r, k) = RestWords(p, k) \o r
    BY <2>0, Parted
  <2> QED
    BY <2>1, <2>2, <2>3, <2>4 DEF front, left
<1>6. DataIn(p) = DataIn(front) \o DataIn(left) /\ DataIn(left) \in Seq(Nat)
  BY <1>5, DataInConcat, DataInWords
<1> DEFINE Goal == /\ SubSeq(read, 1, n) \in Seq(Nat)
                   /\ n > 0 => Last(read) \in Nat
                   /\ left \in Payload(IF backs THEN m - n - 1 ELSE m - n)
                   /\ DataIn(p)
                        = (SubSeq(read, 1, n) \o (IF backs THEN <<Last(read)>> ELSE << >>))
                          \o DataIn(left)
<1>7. CASE 2 * k <= m
  <2>1. DataIn(front) \in Seq(Nat) /\ Len(DataIn(front)) = 2 * k
    <3>1. Len(front) = k
      BY <1>1, <1>2, Parted DEF front
    <3> QED
      BY <1>2, <1>7, <3>1, TwoInEach
  <2>2. read = DataIn(front)
    BY <1>4, <1>7
  <2>3. read \in Seq(Nat) /\ Len(read) = 2 * k
    BY <2>1, <2>2
  <2>4. left \in Payload(m - 2 * k)
    BY <1>2, <1>7
  <2>5. /\ SubSeq(read, 1, Len(read)) = read /\ read \o << >> = read
        /\ Len(read) > 0 => /\ SubSeq(read, 1, Len(read) - 1) \o <<Last(read)>> = read
                            /\ SubSeq(read, 1, Len(read) - 1) \in Seq(Nat)
                            /\ Last(read) \in Nat
    <3>1. 0 \in Nat
      OBVIOUS
    <3> QED
      BY <2>3, <3>1, Firsts
  <2>6. ASSUME 2 * k = n /\ n % 2 = 0 PROVE Goal
    <3>1. ~backs
      BY <2>6 DEF Backs
    <3>2. SubSeq(read, 1, n) = read /\ (n > 0 => Last(read) \in Nat)
      BY <2>3, <2>5, <2>6
    <3>3. left \in Payload(m - n)
      BY <2>4, <2>6
    <3> HIDE DEF backs
    <3> QED
      BY <1>6, <2>2, <2>3, <2>5, <3>1, <3>2, <3>3
  <2>7. ASSUME 2 * k = n + 1 /\ n % 2 = 1 PROVE Goal
    <3>1. backs
      BY <1>7, <2>7 DEF Backs
    <3>2. Len(read) - 1 = n /\ Len(read) > 0
      BY <2>3, <2>7
    <3>3. m - n - 1 = m - 2 * k
      BY <1>2, <2>7
    <3> HIDE DEF backs
    <3>4. /\ SubSeq(read, 1, n) \in Seq(Nat) /\ Last(read) \in Nat
          /\ SubSeq(read, 1, n) \o <<Last(read)>> = read
      BY <2>5, <3>2
    <3>5. left \in Payload(m - n - 1)
      BY <2>4, <3>3
    <3> QED
      BY <1>6, <2>2, <3>1, <3>4, <3>5
  <2>8. Goal
    <3> HIDE DEF Goal, backs
    <3> QED
      BY <1>3, <2>6, <2>7
  <2> QED
    BY <1>5, <2>8 DEF Gives, k, read, left
<1>8. CASE 2 * k > m
  <2>1. n = m /\ ~(2 * k <= m) /\ left \in Payload(0)
    BY <1>2, <1>8
  <2>2. ~backs
    BY <2>1 DEF Backs
  <2>3. read = DataIn(p) \o <<0>>
    BY <1>4, <2>1
  <2>4. DataIn(left) = << >>
    <3>1. Len(DataIn(left)) = 0
      BY <2>1, BytesInPayload
    <3> QED
      BY <1>6, <3>1
  <2> DEFINE d == DataIn(p)
  <2>5. d \in Seq(Nat) /\ Len(d) = n /\ read = d \o <<0>>
    BY <1>1, <2>1, <2>3
  <2> HIDE DEF d, backs
  <2>6. SubSeq(read, 1, n) = d /\ d \o << >> = d
    BY <2>5, Firsts
  <2>7. Last(read) \in Nat
    <3>1. d \o <<0>> \in Seq(Nat) /\ Len(d \o <<0>>) = n + 1 /\ n + 1 > 0
      BY <2>5
    <3> QED
      BY <2>5, <3>1, Firsts
  <2>8. left \in Payload(m - n)
    <3>1. m - n = 0
      BY <2>1
    <3> QED
      BY <2>1, <3>1
  <2>9. Goal
    BY <2>2, <2>4, <2>5, <2>6, <2>7, <2>8 DEF d
  <2> QED
    BY <1>5, <2>9 DEF Gives, k, read, left, backs
<1> QED
  BY <1>2, <1>7, <1>8

-----------------------------------------------------------------------------
(* RxFifo: packets *)

Numbers(from, n) == [i \in 1 .. n |-> from + i]
Pairs(from, k) == [i \in 1 .. k |-> <<from + 2 * i - 1, from + 2 * i>>]

LEMMA IsNumbers ==
  ASSUME NEW from \in Nat, NEW n \in Nat, NEW z \in Seq(Nat), Len(z) = n,
         \A i \in 1 .. n : z[i] = from + i
  PROVE  z = Numbers(from, n)
  BY DEF Numbers

LEMMA NumbersConcat ==
  ASSUME NEW from \in Nat, NEW n \in Nat, NEW m \in Nat
  PROVE  /\ Numbers(from, n) \in Seq(Nat)
         /\ Numbers(from, n) \o Numbers(from + n, m) = Numbers(from, n + m)
<1> DEFINE s == Numbers(from, n)
           t == Numbers(from + n, m)
           z == s \o t
<1>1. s \in Seq(Nat) /\ Len(s) = n /\ \A i \in 1 .. n : s[i] = from + i
  BY DEF Numbers
<1>0. t \in Seq(Nat) /\ Len(t) = m /\ \A i \in 1 .. m : t[i] = from + n + i
  BY DEF Numbers
<1> HIDE DEF s, t
<1>2. z \in Seq(Nat) /\ Len(z) = n + m
  <2>1. s \o t \in Seq(Nat) /\ Len(s \o t) = Len(s) + Len(t)
    BY <1>0, <1>1, ConcatProperties
  <2> QED
    BY <1>0, <1>1, <2>1
<1>3. ASSUME NEW i \in 1 .. (n + m) PROVE z[i] = from + i
  <2>1. z[i] = IF i <= n THEN s[i] ELSE t[i - n]
    BY <1>0, <1>1, PartsAt
  <2>2. CASE i <= n
    <3>1. s[i] = from + i
      BY <1>1, <2>2
    <3> QED
      BY <2>1, <2>2, <3>1
  <2>3. CASE ~(i <= n)
    <3>1. i - n \in 1 .. m /\ from + n + (i - n) = from + i
      BY <2>3
    <3>2. t[i - n] = from + n + (i - n)
      BY <1>0, <3>1
    <3> QED
      BY <2>1, <2>3, <3>1, <3>2
  <2> QED
    BY <2>2, <2>3
<1> HIDE DEF z
<1>4. z = Numbers(from, n + m)
  <2>1. n + m \in Nat
    OBVIOUS
  <2> QED
    BY <1>2, <1>3, <2>1, IsNumbers
<1> QED
  BY <1>1, <1>4 DEF z, s, t

LEMMA OneAndTwo ==
  ASSUME NEW from \in Nat
  PROVE  /\ <<from + 1>> \in Seq(Nat) /\ <<from + 1>> = Numbers(from, 1)
         /\ <<from + 1, from + 2>> \in Seq(Nat) /\ <<from + 1, from + 2>> = Numbers(from, 2)
<1>1. <<from + 1>> \in Seq(Nat) /\ <<from + 1>> = Numbers(from, 1)
  <2> DEFINE z == <<from + 1>>
  <2>1. z \in Seq(Nat) /\ Len(z) = 1 /\ \A i \in 1 .. 1 : z[i] = from + i
    OBVIOUS
  <2> HIDE DEF z
  <2>2. z = Numbers(from, 1)
    BY <2>1, IsNumbers
  <2> QED
    BY <2>1, <2>2 DEF z
<1>2. <<from + 1, from + 2>> \in Seq(Nat) /\ <<from + 1, from + 2>> = Numbers(from, 2)
  <2> DEFINE z == <<from + 1, from + 2>>
  <2>1. z \in Seq(Nat) /\ Len(z) = 2 /\ \A i \in 1 .. 2 : z[i] = from + i
    <3>1. z[1] = from + 1 /\ z[2] = from + 2 /\ 1 .. 2 = {1, 2}
      OBVIOUS
    <3> QED
      BY <3>1
  <2> HIDE DEF z
  <2>2. z = Numbers(from, 2)
    BY <2>1, IsNumbers
  <2> QED
    BY <2>1, <2>2 DEF z
<1> QED
  BY <1>1, <1>2

LEMMA OnePairMore ==
  ASSUME NEW from \in Nat, NEW j \in Nat, NEW q \in Seq(Seq(Nat)), q = Pairs(from, j),
         NEW e \in Seq(Nat), e = <<from + 2 * j + 1, from + 2 * j + 2>>
  PROVE  Append(q, e) = Pairs(from, j + 1)
<1> DEFINE z == Append(q, e)
<1>1. Len(q) = j /\ \A i \in 1 .. j : q[i] = <<from + 2 * i - 1, from + 2 * i>>
  BY DEF Pairs
<1>2. from + 2 * (j + 1) - 1 = from + 2 * j + 1 /\ from + 2 * (j + 1) = from + 2 * j + 2
  OBVIOUS
<1>3. /\ z \in Seq(Seq(Nat)) /\ Len(z) = j + 1 /\ z[j + 1] = e
      /\ \A i \in 1 .. j : z[i] = q[i]
  BY <1>1
<1> HIDE DEF z
<1>4. ASSUME NEW i \in 1 .. (j + 1) PROVE z[i] = <<from + 2 * i - 1, from + 2 * i>>
  <2>1. CASE i = j + 1
    <3>1. from + 2 * i - 1 = from + 2 * j + 1 /\ from + 2 * i = from + 2 * j + 2
      BY <1>2, <2>1
    <3> QED
      BY <1>3, <2>1, <3>1
  <2>2. CASE i # j + 1
    <3>1. i \in 1 .. j
      BY <2>2
    <3> QED
      BY <1>1, <1>3, <3>1
  <2> QED
    BY <2>1, <2>2
<1>5. DOMAIN z = 1 .. (j + 1)
  BY <1>3
<1>6. z = [i \in 1 .. (j + 1) |-> z[i]]
  BY <1>3
<1>7. z = Pairs(from, j + 1)
  BY <1>4, <1>6 DEF Pairs
<1> QED
  BY <1>7 DEF z

\* Pairs of numbers one behind the other are the numbers in order.
LEMMA PairsInOrder ==
  ASSUME NEW from \in Nat, NEW k \in Nat
  PROVE  /\ Pairs(from, k) \in Seq(Seq(Nat)) /\ Len(Pairs(from, k)) = k
         /\ FlattenSeq(Pairs(from, k)) = Numbers(from, 2 * k)
<1> DEFINE S == {j \in Nat : FlattenSeq(Pairs(from, j)) = Numbers(from, 2 * j)}
<1>1. \A j \in Nat : Pairs(from, j) \in Seq(Seq(Nat)) /\ Len(Pairs(from, j)) = j
  <2> TAKE j \in Nat
  <2>1. \A i \in 1 .. j : <<from + 2 * i - 1, from + 2 * i>> \in Seq(Nat)
    OBVIOUS
  <2> QED
    BY <2>1 DEF Pairs
<1>2. 0 \in S
  <2>1. Pairs(from, 0) = << >> /\ Numbers(from, 2 * 0) = << >>
    BY DEF Pairs, Numbers
  <2> QED
    BY <2>1, FlattenNothing
<1>3. ASSUME NEW j \in Nat, j \in S PROVE j + 1 \in S
  <2> DEFINE e == <<from + 2 * j + 1, from + 2 * j + 2>>
             q == Pairs(from, j)
  <2>1. q \in Seq(Seq(Nat)) /\ Len(q) = j /\ e \in Seq(Nat)
    BY <1>1
  <2>2. Pairs(from, j + 1) = Append(q, e)
    BY <2>1, OnePairMore
  <2>3. FlattenSeq(Append(q, e)) = FlattenSeq(q) \o e
    <3> HIDE DEF q, e
    <3> QED
      BY <2>1, FlattenAppend
  <2>4. FlattenSeq(q) = Numbers(from, 2 * j)
    BY <1>3
  <2>5. FlattenSeq(q) \o e = Numbers(from, 2 * (j + 1))
    <3> DEFINE f == FlattenSeq(q)
    <3>1. f \in Seq(Nat)
      <4> HIDE DEF q
      <4> QED
        BY <2>1, FlattenIsFold
    <3> HIDE DEF f
    <3> DEFINE m == 2 * j
    <3>2. f = Numbers(from, m) /\ m \in Nat /\ 2 * (j + 1) = m + 2
      BY <2>4 DEF f
    <3>3. e = <<from + m + 1, from + m + 2>>
      OBVIOUS
    <3> HIDE DEF m, e
    <3>4. from + m \in Nat
      BY <3>2
    <3>5. e \in Seq(Nat) /\ e = Numbers(from + m, 2)
      BY <3>3, <3>4, OneAndTwo
    <3>6. f \o e = Numbers(from, m + 2)
      <4>1. Numbers(from, m) \o Numbers(from + m, 2) = Numbers(from, m + 2)
        <5>1. from \in Nat /\ m \in Nat /\ 2 \in Nat
          BY <3>2
        <5> QED
          BY <5>1, NumbersConcat, Zenon
      <4> QED
        BY <3>2, <3>5, <4>1
    <3> QED
      BY <3>2, <3>6 DEF f
  <2> HIDE DEF q, e
  <2>6. FlattenSeq(Pairs(from, j + 1)) = Numbers(from, 2 * (j + 1))
    BY <2>2, <2>3, <2>5
  <2>7. j + 1 \in Nat
    OBVIOUS
  <2> QED
    BY <2>6, <2>7
<1>4. \A j \in Nat : j \in S
  <2> HIDE DEF S
  <2> QED
    BY <1>2, <1>3, Induction
<1>5. k \in S
  BY <1>4
<1>6. FlattenSeq(Pairs(from, k)) = Numbers(from, 2 * k)
  BY <1>5
<1> QED
  BY <1>1, <1>6

\* Header and payload of a packet.
Header(n) ==
  (IF proto = "udp" THEN <<AddressWord, AddressWord, AddressWord>> ELSE << >>)
  \o <<SizeWord(n)>>
Cell(from, n, i) ==
  DataWord(IF 2 * i <= n THEN <<from + 2 * i - 1, from + 2 * i>> ELSE <<from + n>>)
Cells(from, n) == [i \in 1 .. WordsFor(n) |-> Cell(from, n, i)]

LEMMA PacketParts ==
  ASSUME NEW from, NEW n
  PROVE  Packet(from, n) = Header(n) \o Cells(from, n)
  BY DEF Packet, Header, Cells, Cell, WordsFor

LEMMA ThreeAndOne ==
  ASSUME NEW a, NEW b
  PROVE  <<a, a, a>> \o <<b>> = <<a, a, a, b>>
<1> DEFINE T == {a, b}
           s == <<a, a, a>>
<1>1. s \in Seq(T) /\ b \in T /\ Len(s) = 3 /\ s[1] = a /\ s[2] = a /\ s[3] = a
  OBVIOUS
<1> HIDE DEF T
<1>2. Append(s, b) = s \o <<b>>
  BY <1>1, AppendIsConcat
<1> DEFINE x == Append(s, b)
           y == <<a, a, a, b>>
<1>3. /\ y \in Seq(T) /\ Len(y) = 4
      /\ y[1] = s[1] /\ y[2] = s[2] /\ y[3] = s[3] /\ y[4] = b
  BY DEF T
<1> HIDE DEF s
<1>4. /\ x \in Seq(T) /\ Len(x) = 4
      /\ x[1] = s[1] /\ x[2] = s[2] /\ x[3] = s[3] /\ x[4] = b
  <2>1. x \in Seq(T) /\ Len(x) = Len(s) + 1
    BY <1>1, AppendProperties
  <2>2. x[Len(s) + 1] = b
    BY <1>1, AppendProperties
  <2>3. \A i \in 1 .. Len(s) : x[i] = s[i]
    <3> TAKE i \in 1 .. Len(s)
    <3>1. s \in Seq(T) /\ b \in T
      BY <1>1
    <3> QED
      BY <3>1
  <2> HIDE DEF x
  <2> QED
    BY <1>1, <2>1, <2>2, <2>3
<1> HIDE DEF x, y
<1>5. \A i \in 1 .. 4 : x[i] = y[i]
  BY <1>3, <1>4
<1>6. x = y
  BY <1>3, <1>4, <1>5, SeqEqual
<1> QED
  BY <1>2, <1>6 DEF x, y, s

LEMMA HeaderWords ==
  ASSUME NEW n \in Nat
  PROVE  /\ Header(n) \in Seq(Other)
         /\ proto = "udp" => Len(Header(n)) = 4 /\ Header(n)[4] = SizeWord(n)
         /\ proto # "udp" => Header(n) = <<SizeWord(n)>>
         /\ SizeOf(SizeWord(n)) = n
<1>1. SizeWord(n) \in Other /\ AddressWord \in Other /\ SizeOf(SizeWord(n)) = n
  BY DEF Other, Word, SizeWord, AddressWord, SizeOf
<1>2. CASE proto = "udp"
  <2>1. Header(n) = <<AddressWord, AddressWord, AddressWord, SizeWord(n)>>
    BY <1>2, ThreeAndOne DEF Header
  <2> QED
    BY <1>1, <1>2, <2>1
<1>3. CASE proto # "udp"
  <2>1. Header(n) = <<SizeWord(n)>>
    BY <1>3 DEF Header
  <2> QED
    BY <1>1, <1>3, <2>1
<1> QED
  BY <1>2, <1>3

\* The words of a packet hold its bytes in order.
LEMMA CellsArePayload ==
  ASSUME NEW from \in Nat, NEW n \in Nat
  PROVE  Cells(from, n) \in Payload(n) /\ DataIn(Cells(from, n)) = Numbers(from, n)
<1> DEFINE k == WordsFor(n)
           c == Cells(from, n)
           b(i) == IF 2 * i <= n THEN <<from + 2 * i - 1, from + 2 * i>> ELSE <<from + n>>
<1>1. k \in Nat /\ (2 * k = n \/ 2 * k = n + 1)
  BY WordsForBytes
<1>2. ASSUME NEW i \in 1 .. k
      PROVE  /\ Cell(from, n, i) \in IF 2 * i <= n THEN Full ELSE Half
             /\ DataOf(Cell(from, n, i)) = b(i)
  <2> HIDE DEF k
  <2>1. b(i) \in Seq(Nat) /\ Len(b(i)) = IF 2 * i <= n THEN 2 ELSE 1
    BY <1>1
  <2>2. Cell(from, n, i) = [kind |-> "data", data |-> b(i)]
    BY DEF Cell, DataWord
  <2> HIDE DEF b
  <2> QED
    BY <2>1, <2>2 DEF Full, Half, Word, DataOf
<1>3. /\ c \in Seq(Word) /\ Len(c) = k
      /\ \A i \in 1 .. k : c[i] = Cell(from, n, i)
  <2>1. \A i \in 1 .. k : Cell(from, n, i) \in Word
    BY <1>2 DEF Full, Half
  <2> HIDE DEF k
  <2> QED
    BY <1>1, <2>1 DEF Cells, k
<1>4. c \in Payload(n)
  <2> HIDE DEF c
  <2> QED
    BY <1>2, <1>3 DEF Payload
<1>5. Datas(c) = [i \in 1 .. k |-> b(i)]
  <2> HIDE DEF c, b
  <2> QED
    BY <1>1, <1>2, <1>3 DEF Datas
<1>6. DataIn(c) = FlattenSeq(Datas(c))
  BY <1>3, DataInWords
<1> HIDE DEF c, k
<1>7. CASE 2 * k = n
  <2>1. Datas(c) = Pairs(from, k)
    BY <1>1, <1>5, <1>7 DEF Pairs
  <2>2. FlattenSeq(Pairs(from, k)) = Numbers(from, 2 * k)
    BY <1>1, PairsInOrder
  <2> QED
    BY <1>4, <1>6, <1>7, <2>1, <2>2 DEF c
<1>8. CASE 2 * k = n + 1
  <2> DEFINE j == k - 1
             q == Pairs(from, j)
             e == <<from + n>>
  <2>1. j \in Nat /\ j + 1 = k /\ 2 * j + 1 = n
    BY <1>1, <1>8
  <2> HIDE DEF j
  <2>2. /\ q \in Seq(Seq(Nat)) /\ Len(q) = j /\ e \in Seq(Nat)
        /\ FlattenSeq(q) = Numbers(from, 2 * j)
    <3>1. from + n \in Nat
      OBVIOUS
    <3>2. /\ Pairs(from, j) \in Seq(Seq(Nat)) /\ Len(Pairs(from, j)) = j
          /\ FlattenSeq(Pairs(from, j)) = Numbers(from, 2 * j)
      BY <2>1, PairsInOrder
    <3> QED
      BY <3>1, <3>2
  <2>3. Datas(c) = Append(q, e)
    <3>1. \A i \in 1 .. j : q[i] = <<from + 2 * i - 1, from + 2 * i>>
      BY DEF Pairs
    <3> HIDE DEF q, e
    <3> DEFINE z == Append(q, e)
    <3>2. /\ z \in Seq(Seq(Nat)) /\ Len(z) = k /\ z[k] = e
          /\ \A i \in 1 .. j : z[i] = q[i]
      BY <2>1, <2>2
    <3> HIDE DEF z
    <3>3. \A i \in 1 .. k : z[i] = b(i)
      <4> TAKE i \in 1 .. k
      <4>1. CASE i = k
        <5>1. ~(2 * i <= n)
          BY <1>1, <1>8, <4>1
        <5> QED
          BY <3>2, <4>1, <5>1 DEF e
      <4>2. CASE i # k
        <5>1. i \in 1 .. j /\ 2 * i <= n
          BY <2>1, <4>2
        <5> QED
          BY <3>1, <3>2, <5>1
      <4> QED
        BY <4>1, <4>2
    <3> HIDE DEF b
    <3>4. z = [i \in 1 .. k |-> b(i)]
      BY <3>2, <3>3
    <3> QED
      BY <1>5, <3>4 DEF z
  <2> HIDE DEF q
  <2>4. FlattenSeq(Append(q, e)) = FlattenSeq(q) \o e
    <3> HIDE DEF e
    <3> QED
      BY <2>2, FlattenAppend
  <2> DEFINE f == FlattenSeq(q)
  <2>5. f \in Seq(Nat) /\ f = Numbers(from, 2 * j) /\ 2 * j \in Nat
    BY <2>1, <2>2, FlattenIsFold
  <2> HIDE DEF f
  <2> DEFINE m == 2 * j
  <2>6. m \in Nat /\ f = Numbers(from, m) /\ m + 1 = n /\ e = <<from + m + 1>>
    BY <2>1, <2>5
  <2> HIDE DEF m, e
  <2>7. f \o e = Numbers(from, n)
    <3>1. from + m \in Nat
      BY <2>6
    <3>2. e \in Seq(Nat) /\ e = Numbers(from + m, 1)
      BY <2>6, <3>1, OneAndTwo
    <3>3. f \o e = Numbers(from, m + 1)
      <4>1. Numbers(from, m) \o Numbers(from + m, 1) = Numbers(from, m + 1)
        <5>1. from \in Nat /\ m \in Nat /\ 1 \in Nat
          BY <2>6
        <5> QED
          BY <5>1, NumbersConcat, Zenon
      <4> QED
        BY <2>6, <3>2, <4>1
    <3> QED
      BY <2>6, <3>3
  <2>8. DataIn(c) = Numbers(from, n)
    BY <1>6, <2>3, <2>4, <2>7 DEF f
  <2> QED
    BY <1>4, <2>8 DEF c
<1> QED
  BY <1>1, <1>7, <1>8

\* The packets that can be in the chip, and what they fill when they are stored one behind
\* the other.
Packets == {Packet(from, n) : from \in Nat, n \in Nat \ {0}}
Stored(P, words) == \E q \in Seq(P) : words = FlattenSeq(q)

\* A packet starts with its header and holds its bytes.
LEMMA PacketWords ==
  ASSUME NEW from \in Nat, NEW n \in Nat
  PROVE  /\ Header(n) \in Seq(Word) /\ Cells(from, n) \in Seq(Word)
         /\ Packet(from, n) \in Seq(Word) /\ Packet(from, n) # << >>
         /\ Head(Packet(from, n)).kind # "data"
         /\ DataIn(Packet(from, n)) = Numbers(from, n)
<1> DEFINE h == Header(n)
           c == Cells(from, n)
<1>1. h \in Seq(Word) /\ DataIn(h) = << >>
  BY HeaderWords, NothingInHeaders
<1>2. c \in Seq(Word) /\ DataIn(c) = Numbers(from, n) /\ DataIn(c) \in Seq(Nat)
  BY CellsArePayload, BytesInPayload
<1>3. Len(h) > 0 /\ h[1] \in Other
  <2>1. h \in Seq(Other)
    BY HeaderWords
  <2>2. Len(h) > 0
    BY HeaderWords
  <2> HIDE DEF h
  <2> QED
    BY <2>1, <2>2
<1>4. Packet(from, n) = h \o c
  BY PacketParts
<1> HIDE DEF h, c
<1>5. h \o c \in Seq(Word) /\ DataIn(h \o c) = DataIn(h) \o DataIn(c)
  BY <1>1, <1>2, DataInConcat
<1>6. << >> \o DataIn(c) = DataIn(c)
  BY <1>2
<1>7. h \o c # << >> /\ Head(h \o c) = h[1]
  BY <1>1, <1>2, <1>3
<1>8. h[1].kind # "data"
  BY <1>3 DEF Other
<1> QED
  BY <1>1, <1>2, <1>4, <1>5, <1>6, <1>7, <1>8 DEF h, c

\* Nothing is stored in an empty chip; a packet that arrives is stored behind the others.
LEMMA StoredWords ==
  /\ Stored(Packets, << >>)
  /\ \A words : Stored(Packets, words) => words \in Seq(Word)
  /\ \A words, from, n : Stored(Packets, words) /\ from \in Nat /\ n \in Nat \ {0}
                         => Stored(Packets, words \o Packet(from, n))
<1>1. \A x \in Packets : x \in Seq(Word)
  BY PacketWords DEF Packets
<1>2. \A q \in Seq(Packets) : q \in Seq(Seq(Word))
  BY <1>1, SeqMonotonic
<1>3. Stored(Packets, << >>)
  <2>1. << >> \in Seq(Packets)
    OBVIOUS
  <2> QED
    BY <2>1, FlattenNothing DEF Stored
<1>4. ASSUME NEW words, Stored(Packets, words) PROVE words \in Seq(Word)
  BY <1>2, <1>4, FlattenIsFold DEF Stored
<1>5. ASSUME NEW words, NEW from \in Nat, NEW n \in Nat \ {0}, Stored(Packets, words)
      PROVE  Stored(Packets, words \o Packet(from, n))
  <2>1. PICK q \in Seq(Packets) : words = FlattenSeq(q)
    BY <1>5 DEF Stored
  <2> DEFINE x == Packet(from, n)
  <2>2. x \in Packets
    BY DEF Packets
  <2> HIDE DEF x
  <2>3. Append(q, x) \in Seq(Packets)
    BY <2>2
  <2>4. FlattenSeq(Append(q, x)) = FlattenSeq(q) \o x
    BY <1>1, <1>2, <2>2, FlattenAppend
  <2>5. Stored(Packets, words \o x)
    BY <2>1, <2>3, <2>4 DEF Stored
  <2> QED
    BY <2>5 DEF x
<1> QED
  BY <1>3, <1>4, <1>5

\* A chip that is not empty has a packet first.
LEMMA FirstStored ==
  ASSUME NEW words, Stored(Packets, words), words # << >>
  PROVE  \E from \in Nat, n \in Nat \ {0}, others \in Seq(Word) :
           words = Packet(from, n) \o others /\ Stored(Packets, others)
<1>1. PICK q \in Seq(Packets) : words = FlattenSeq(q)
  BY DEF Stored
<1>2. q # << >>
  BY <1>1, FlattenNothing
<1> DEFINE x == Head(q)
           t == Tail(q)
<1>3. x \in Packets /\ t \in Seq(Packets) /\ q = <<x>> \o t
  BY <1>2
<1>4. \A y \in Packets : y \in Seq(Word)
  BY PacketWords DEF Packets
<1> HIDE DEF x, t
<1>5. x \in Seq(Word) /\ t \in Seq(Seq(Word)) /\ <<x>> \in Seq(Seq(Word))
  <2>1. t \in Seq(Seq(Word))
    BY <1>3, <1>4, SeqMonotonic
  <2> QED
    BY <1>3, <1>4, <2>1
<1>6. FlattenSeq(q) = FlattenSeq(<<x>>) \o FlattenSeq(t)
  BY <1>3, <1>5, FlattenConcat
<1>7. FlattenSeq(<<x>>) = x /\ FlattenSeq(t) \in Seq(Word)
  BY <1>5, FlattenOne, FlattenIsFold
<1>8. Stored(Packets, FlattenSeq(t))
  BY <1>3 DEF Stored
<1>9. PICK from \in Nat, n \in Nat \ {0} : x = Packet(from, n)
  BY <1>3 DEF Packets
<1> QED
  BY <1>1, <1>6, <1>7, <1>8, <1>9

-----------------------------------------------------------------------------
(* RxFifo: the inductive invariant *)

FifoTypes ==
  /\ proto \in {"tcp", "udp"} /\ arrived \in Nat /\ sock_remained_size \in Nat
  /\ fifoByte \in BOOLEAN /\ sock_remained_byte \in Nat /\ remaining \in Nat
  /\ consumed \in Seq(Nat) /\ failed \in BOOLEAN

\* The chip has the words with the last n bytes of a packet, and whole packets behind them.
Framed(P, words, n) ==
  \E p \in Payload(n), r \in Seq(Word) : words = p \o r /\ Stored(P, r)

\* The byte backed up is one of those unread.
InChip == IF fifoByte THEN sock_remained_size - 1 ELSE sock_remained_size
Held == IF fifoByte THEN <<sock_remained_byte>> ELSE << >>

FifoInv ==
  /\ FifoTypes
  /\ fifoByte => sock_remained_size > 0
  /\ proto = "udp" => remaining = sock_remained_size
  /\ Framed(Packets, fifo, InChip)

\* Putting the parts together in another order of the brackets.
SameBytes(x, s, l, d, r) == ((x \o s) \o l) \o (d \o r) = x \o (((s \o l) \o d) \o r)

LEMMA Bracketed ==
  ASSUME NEW T, NEW x \in Seq(T), NEW s \in Seq(T), NEW l \in Seq(T), NEW d \in Seq(T),
         NEW r \in Seq(T)
  PROVE  SameBytes(x, s, l, d, r)
<1> DEFINE sl == s \o l
           dr == d \o r
<1>1. Groups(x, s, l) /\ sl \in Seq(T) /\ dr \in Seq(T)
  BY Grouped
<1> HIDE DEF sl, dr
<1>2. Groups(x, sl, dr) /\ Groups(sl, d, r)
  BY <1>1, Grouped
<1>3. (x \o s) \o l = x \o sl
  BY <1>1, Zenon DEF Groups, sl
<1>4. (x \o sl) \o dr = x \o (sl \o dr)
  BY <1>2, Zenon DEF Groups
<1>5. (sl \o d) \o r = sl \o dr
  BY <1>2, Zenon DEF Groups, dr
<1>6. ((x \o s) \o l) \o dr = x \o ((sl \o d) \o r)
  BY <1>3, <1>4, <1>5, Zenon
<1> QED
  BY <1>6, Zenon DEF SameBytes, sl, dr

\* What a read changes: as many bytes as it asked for and had, from where the last one ended.
LEMMA TakeKeeps ==
  ASSUME NEW words, NEW size \in Nat \ {0}, NEW asked \in Nat \ {0}, FifoTypes,
         Framed(Packets, words, IF fifoByte THEN size - 1 ELSE size),
         TakeFrom(words, size, asked)
  PROVE  /\ sock_remained_size' = size - (IF asked < size THEN asked ELSE size)
         /\ sock_remained_size' \in Nat /\ fifoByte' \in BOOLEAN
         /\ sock_remained_byte' \in Nat /\ consumed' \in Seq(Nat)
         /\ fifoByte' => sock_remained_size' > 0
         /\ Framed(Packets, fifo', InChip')
         /\ words \in Seq(Word)
         /\ (consumed' \o Held') \o DataIn(fifo') = (consumed \o Held) \o DataIn(words)
<1> DEFINE len == IF asked < size THEN asked ELSE size
           n == IF fifoByte THEN len - 1 ELSE len
           m == IF fifoByte THEN size - 1 ELSE size
           k == WordsFor(n)
           read == read_data(words, n)
           backs == Backs(m - n, n)
           taken == SubSeq(read, 1, n)
<1>1. UsesByte(len) = fifoByte
  <2>1. len > 0
    OBVIOUS
  <2> HIDE DEF len
  <2> QED
    BY <2>1 DEF UsesByte, FifoTypes
<1>2. m \in Nat /\ n \in Nat /\ n <= m /\ size - len = m - n /\ size - len \in Nat
  OBVIOUS
<1>3. /\ consumed' = (consumed \o Held) \o taken
      /\ fifo' = RestWords(words, k)
      /\ sock_remained_size' = m - n
      /\ sock_remained_byte' = IF n > 0 THEN Last(read) ELSE sock_remained_byte
      /\ fifoByte' = backs
  <2>1. /\ consumed' = (consumed \o (IF UsesByte(len) THEN <<sock_remained_byte>> ELSE << >>))
                       \o SubSeq(read_data(words, IF UsesByte(len) THEN len - 1 ELSE len), 1,
                                 IF UsesByte(len) THEN len - 1 ELSE len)
        /\ fifo' = SubSeq(words, WordsFor(IF UsesByte(len) THEN len - 1 ELSE len) + 1, Len(words))
        /\ sock_remained_size' = size - len
        /\ sock_remained_byte' = IF (IF UsesByte(len) THEN len - 1 ELSE len) > 0
                                 THEN Last(read_data(words, IF UsesByte(len) THEN len - 1 ELSE len))
                                 ELSE sock_remained_byte
        /\ fifoByte' = Backs(size - len, IF UsesByte(len) THEN len - 1 ELSE len)
    BY DEF TakeFrom
  <2>2. n = IF UsesByte(len) THEN len - 1 ELSE len
    BY <1>1
  <2>3. size - len = m - n
    BY <1>2
  <2> HIDE DEF len, n, m
  <2> QED
    BY <1>1, <2>1, <2>2, <2>3 DEF Held, RestWords
<1>4. PICK p \in Payload(m), r \in Seq(Word) : words = p \o r /\ Stored(Packets, r)
  BY DEF Framed
<1> DEFINE left == RestWords(p, k)
<1> HIDE DEF len, n, m
<1>5. /\ taken \in Seq(Nat)
      /\ n > 0 => Last(read) \in Nat
      /\ RestWords(words, k) = left \o r
      /\ left \in Payload(IF backs THEN m - n - 1 ELSE m - n)
      /\ DataIn(p) = (taken \o (IF backs THEN <<Last(read)>> ELSE << >>)) \o DataIn(left)
  <2>1. Gives(m, n, p, r, read_data(p \o r, n), left, backs)
    BY <1>2, Taken
  <2>2. Gives(m, n, p, r, read, left, backs)
    BY <1>4, <2>1
  <2> HIDE DEF read, left, backs
  <2> QED
    BY <1>4, <2>2 DEF Gives, k, taken
<1>6. backs \in BOOLEAN /\ (backs => m - n > 0 /\ n > 0)
  BY <1>2 DEF Backs
<1> HIDE DEF k, read, backs, taken, left
<1>7. Held' = IF backs THEN <<Last(read)>> ELSE << >>
  BY <1>3, <1>6 DEF Held
<1>8. InChip' = (IF backs THEN m - n - 1 ELSE m - n) /\ InChip' \in Nat
  BY <1>2, <1>3, <1>6 DEF InChip
<1>9. left \in Payload(InChip') /\ fifo' = left \o r
  BY <1>3, <1>5, <1>8
<1>10. Framed(Packets, fifo', InChip')
  BY <1>4, <1>9 DEF Framed
<1>11. sock_remained_byte' \in Nat
  BY <1>3, <1>5 DEF FifoTypes
<1>12. /\ p \in Seq(Word) /\ left \in Seq(Word) /\ DataIn(left) \in Seq(Nat)
       /\ DataIn(r) \in Seq(Nat)
  BY <1>2, <1>8, <1>9, BytesInPayload, DataInWords
<1>13. DataIn(words) = DataIn(p) \o DataIn(r) /\ words \in Seq(Word)
  BY <1>4, <1>12, DataInConcat
<1>14. DataIn(fifo') = DataIn(left) \o DataIn(r)
  BY <1>9, <1>12, DataInConcat
<1> DEFINE x == consumed \o Held
           l == IF backs THEN <<Last(read)>> ELSE << >>
           d == DataIn(left)
           e == DataIn(r)
<1>15. x \in Seq(Nat)
  <2>1. Held \in Seq(Nat)
    BY DEF Held, FifoTypes
  <2> QED
    BY <2>1 DEF FifoTypes
<1>16. l \in Seq(Nat)
  BY <1>5, <1>6
<1>17. d \in Seq(Nat) /\ e \in Seq(Nat) /\ taken \in Seq(Nat)
  BY <1>5, <1>12
<1> HIDE DEF x, l, d, e
<1>18. ((x \o taken) \o l) \o (d \o e) = x \o (((taken \o l) \o d) \o e)
  <2>1. SameBytes(x, taken, l, d, e)
    BY <1>15, <1>16, <1>17, Bracketed
  <2> QED
    BY <2>1, Zenon DEF SameBytes
<1>19. (consumed' \o Held') \o DataIn(fifo') = ((x \o taken) \o l) \o (d \o e)
  BY <1>3, <1>7, <1>14 DEF x, l, d, e
<1>20. DataIn(words) = ((taken \o l) \o d) \o e
  BY <1>5, <1>13 DEF l, d, e
<1>21. consumed' \in Seq(Nat)
  BY <1>3, <1>15, <1>17 DEF x
<1>22. sock_remained_size' = size - len /\ sock_remained_size' \in Nat
  BY <1>2, <1>3
<1> QED
  BY <1>3, <1>6, <1>10, <1>11, <1>13, <1>18, <1>19, <1>20, <1>21, <1>22 DEF x, len

\* Where the chip is between two packets it has whole ones.
LEMMA BetweenPackets ==
  ASSUME FifoInv, sock_remained_size = 0
  PROVE  fifoByte = FALSE /\ Stored(Packets, fifo) /\ fifo \in Seq(Word)
<1>1. fifoByte = FALSE
  BY DEF FifoInv, FifoTypes
<1>2. InChip = 0
  BY <1>1 DEF InChip
<1>3. PICK p \in Payload(0), r \in Seq(Word) : fifo = p \o r /\ Stored(Packets, r)
  BY <1>2 DEF FifoInv, Framed
<1>4. p \in Seq(Word) /\ Len(p) = 0
  <2>1. WordsFor(0) = 0
    BY DEF WordsFor
  <2> QED
    BY <2>1 DEF Payload
<1>5. p \o r = r
  BY <1>4
<1> QED
  BY <1>1, <1>3, <1>5

LEMMA FramedAlone ==
  ASSUME NEW words, Stored(Packets, words)
  PROVE  Framed(Packets, words, 0)
<1>1. words \in Seq(Word)
  BY StoredWords
<1>2. << >> \in Payload(0)
  <2>1. WordsFor(0) = 0
    BY DEF WordsFor
  <2> QED
    BY <2>1 DEF Payload
<1>3. words = << >> \o words
  BY <1>1
<1> QED
  BY <1>1, <1>2, <1>3 DEF Framed

\* The header that a read finds there, and what is behind it.
NextIs(n, rest) ==
  /\ n \in Nat \ {0} /\ rest \in Seq(Word)
  /\ fifo = Header(n) \o rest
  /\ Framed(Packets, rest, n)
  /\ DataIn(fifo) = DataIn(rest)

LEMMA NextPacket ==
  ASSUME FifoInv, sock_remained_size = 0, fifo # << >>
  PROVE  \E n, rest : NextIs(n, rest)
<1>1. PICK from \in Nat, n \in Nat \ {0}, others \in Seq(Word) :
        fifo = Packet(from, n) \o others /\ Stored(Packets, others)
  BY BetweenPackets, FirstStored
<1> DEFINE h == Header(n)
           c == Cells(from, n)
           rest == c \o others
<1>2. h \in Seq(Word) /\ c \in Seq(Word) /\ c \in Payload(n)
  BY PacketWords, CellsArePayload
<1>3. DataIn(h) = << >>
  BY HeaderWords, NothingInHeaders
<1>4. Packet(from, n) = h \o c
  BY PacketParts
<1> HIDE DEF h, c
<1>5. rest \in Seq(Word)
  BY <1>2
<1>6. Framed(Packets, rest, n)
  BY <1>1, <1>2 DEF Framed
<1>7. fifo = h \o rest
  <2>1. Groups(h, c, others)
    BY <1>2, Grouped
  <2> QED
    BY <1>1, <1>4, <2>1, Zenon DEF Groups
<1> HIDE DEF rest
<1>8. DataIn(fifo) = DataIn(h) \o DataIn(rest) /\ DataIn(rest) \in Seq(Nat)
  BY <1>2, <1>5, <1>7, DataInConcat, DataInWords
<1>9. DataIn(fifo) = DataIn(rest)
  BY <1>3, <1>8
<1>10. NextIs(n, rest)
  BY <1>5, <1>6, <1>7, <1>9 DEF NextIs, h
<1> QED
  BY <1>10

LEMMA BehindFour ==
  ASSUME NEW h \in Seq(Word), Len(h) = 4, NEW rest \in Seq(Word)
  PROVE  /\ (h \o rest)[4] = h[4] /\ 4 \in DOMAIN (h \o rest)
         /\ SubSeq(h \o rest, 5, Len(h \o rest)) = rest
<1>1. /\ h \o rest \in Seq(Word) /\ Len(h \o rest) = 4 + Len(rest)
      /\ \A i \in 1 .. (4 + Len(rest)) : (h \o rest)[i] = IF i <= 4 THEN h[i] ELSE rest[i - 4]
  <2>1. /\ h \o rest \in Seq(Word) /\ Len(h \o rest) = Len(h) + Len(rest)
        /\ \A i \in 1 .. (Len(h) + Len(rest)) :
             (h \o rest)[i] = IF i <= Len(h) THEN h[i] ELSE rest[i - Len(h)]
    BY PartsAt
  <2> QED
    BY <2>1
<1>2. Len(rest) \in Nat /\ 4 \in 1 .. (4 + Len(rest)) /\ 4 <= 4
  OBVIOUS
<1>3. DOMAIN (h \o rest) = 1 .. (4 + Len(rest))
  BY <1>1
<1> DEFINE z == SubSeq(h \o rest, 5, Len(h \o rest))
<1>4. /\ z \in Seq(Word) /\ Len(z) = Len(rest)
      /\ \A i \in 1 .. Len(rest) : z[i] = (h \o rest)[4 + i]
  BY <1>1, <1>2
<1>5. \A i \in 1 .. Len(rest) : z[i] = rest[i]
  <2> TAKE i \in 1 .. Len(rest)
  <2>1. 4 + i \in 1 .. (4 + Len(rest)) /\ ~(4 + i <= 4) /\ (4 + i) - 4 = i
    OBVIOUS
  <2> QED
    BY <1>1, <1>4, <2>1
<1> HIDE DEF z
<1>6. z = rest
  BY <1>4, <1>5, SeqEqual
<1> QED
  BY <1>1, <1>2, <1>3, <1>6 DEF z

\* Reading the header leaves the payload in front.
LEMMA DropHeader ==
  ASSUME NEW n, NEW rest, NextIs(n, rest), proto \in {"tcp", "udp"}
  PROVE  /\ proto = "tcp" => SizeOf(Head(fifo)) = n /\ Tail(fifo) = rest
         /\ proto = "udp" => SizeOf(WordAt(fifo, 4)) = n /\ SubSeq(fifo, 5, Len(fifo)) = rest
<1>1. n \in Nat /\ rest \in Seq(Word) /\ fifo = Header(n) \o rest
  BY DEF NextIs
<1>2. SizeOf(SizeWord(n)) = n /\ Header(n) \in Seq(Word) /\ SizeWord(n) \in Word
  <2>1. Header(n) \in Seq(Other)
    BY <1>1, HeaderWords
  <2>2. Header(n) \in Seq(Word)
    BY <2>1, NothingInHeaders
  <2>3. SizeWord(n) \in Word
    BY <1>1 DEF SizeWord, Word
  <2> QED
    BY <1>1, <2>2, <2>3, HeaderWords
<1>3. CASE proto = "tcp"
  <2>1. fifo = <<SizeWord(n)>> \o rest
    BY <1>1, <1>3, HeaderWords
  <2>2. Head(fifo) = SizeWord(n) /\ Tail(fifo) = rest
    <3> DEFINE w == SizeWord(n)
    <3>1. w \in Word /\ fifo = <<w>> \o rest
      BY <1>2, <2>1
    <3> HIDE DEF w
    <3>2. Head(<<w>> \o rest) = w /\ Tail(<<w>> \o rest) = rest
      BY <1>1, <3>1
    <3> QED
      BY <3>1, <3>2 DEF w
  <2> QED
    BY <1>2, <1>3, <2>2
<1>4. CASE proto = "udp"
  <2> DEFINE h == Header(n)
  <2>1. h \in Seq(Word) /\ Len(h) = 4 /\ h[4] = SizeWord(n)
    BY <1>1, <1>2, <1>4, HeaderWords
  <2> HIDE DEF h
  <2>2. /\ (h \o rest)[4] = h[4] /\ 4 \in DOMAIN (h \o rest)
        /\ SubSeq(h \o rest, 5, Len(h \o rest)) = rest
    BY <1>1, <2>1, BehindFour
  <2>3. WordAt(fifo, 4) = SizeWord(n)
    BY <1>1, <2>1, <2>2 DEF WordAt, h
  <2>4. SubSeq(fifo, 5, Len(fifo)) = rest
    BY <1>1, <2>2 DEF h
  <2> QED
    BY <1>1, <1>2, <1>4, <2>3, <2>4 DEF h
<1> QED
  BY <1>3, <1>4

-----------------------------------------------------------------------------
(* RxFifo: the steps *)

\* What was read, what is held and what is in the chip.
AllBytes == (consumed \o Held) \o DataIn(fifo)
Ordered == failed \/ AllBytes = Numbers(0, arrived)

LEMMA SamePackets ==
  ASSUME proto' = proto
  PROVE  Packets' = Packets
  BY DEF Packets, Packet, AddressWord, SizeWord, DataWord

\* A read within a packet.
LEMMA ReadKeeps ==
  ASSUME FifoInv, Ordered, NEW words, NEW size \in Nat \ {0}, NEW asked \in Nat \ {0},
         Framed(Packets, words, IF fifoByte THEN size - 1 ELSE size),
         DataIn(words) = DataIn(fifo),
         TakeFrom(words, size, asked),
         proto = "udp" => remaining' = size - (IF asked < size THEN asked ELSE size),
         remaining' \in Nat, UNCHANGED <<proto, arrived, failed>>
  PROVE  FifoInv' /\ Ordered'
<1>1. FifoTypes
  BY DEF FifoInv
<1>2. /\ sock_remained_size' = size - (IF asked < size THEN asked ELSE size)
      /\ sock_remained_size' \in Nat /\ fifoByte' \in BOOLEAN
      /\ sock_remained_byte' \in Nat /\ consumed' \in Seq(Nat)
      /\ fifoByte' => sock_remained_size' > 0
      /\ Framed(Packets, fifo', InChip')
      /\ (consumed' \o Held') \o DataIn(fifo') = (consumed \o Held) \o DataIn(words)
  BY <1>1, TakeKeeps
<1>3. FifoTypes'
  BY <1>1, <1>2 DEF FifoTypes
<1>4. Framed(Packets, fifo, InChip)' 
  BY <1>2, SamePackets
<1>5. FifoInv'
  BY <1>2, <1>3, <1>4 DEF FifoInv
<1>6. AllBytes' = AllBytes
  BY <1>2 DEF AllBytes
<1>7. Ordered'
  BY <1>6 DEF Ordered
<1> QED
  BY <1>5, <1>7

LEMMA FifoStarts == RxInit => FifoInv /\ Ordered
<1> SUFFICES ASSUME RxInit PROVE FifoInv /\ Ordered
  OBVIOUS
<1>1. FifoTypes /\ ~fifoByte
  <2>1. ~fifoByte /\ fifoByte \in BOOLEAN /\ failed \in BOOLEAN
    BY DEF RxInit
  <2>2. /\ proto \in {"tcp", "udp"} /\ arrived = 0 /\ sock_remained_size = 0
        /\ sock_remained_byte = 0 /\ remaining = 0 /\ consumed = << >>
    BY DEF RxInit
  <2> QED
    BY <2>1, <2>2 DEF FifoTypes
<1>2. InChip = 0 /\ Held = << >> /\ fifo = << >> /\ consumed = << >> /\ arrived = 0
  BY DEF RxInit, InChip, Held
<1>3. Framed(Packets, fifo, InChip)
  BY <1>2, StoredWords, FramedAlone
<1>4. remaining = sock_remained_size
  BY DEF RxInit
<1>5. DataIn(<< >>) = << >>
  <2>1. << >> \in Seq(Other)
    OBVIOUS
  <2> QED
    BY <2>1, NothingInHeaders
<1>6. Numbers(0, 0) = << >>
  BY DEF Numbers
<1>7. << >> \o << >> = << >>
  OBVIOUS
<1>8. AllBytes = Numbers(0, arrived)
  BY <1>2, <1>5, <1>6, <1>7 DEF AllBytes
<1> QED
  BY <1>1, <1>3, <1>4, <1>8 DEF FifoInv, Ordered

LEMMA TcpStep ==
  ASSUME FifoInv, Ordered, NEW asked \in Nat \ {0}, ReadTcp(asked)
  PROVE  FifoInv' /\ Ordered'
<1>1. /\ proto = "tcp" /\ UNCHANGED <<proto, arrived, failed, remaining>>
      /\ remaining' \in Nat /\ proto # "udp" /\ sock_remained_size \in Nat
  BY DEF ReadTcp, FifoInv, FifoTypes
<1>2. CASE sock_remained_size # 0 /\ TakeFrom(fifo, sock_remained_size, asked)
  <2>1. sock_remained_size \in Nat \ {0}
    BY <1>1, <1>2
  <2>2. Framed(Packets, fifo, IF fifoByte THEN sock_remained_size - 1 ELSE sock_remained_size)
    BY DEF FifoInv, InChip
  <2> QED
    BY <1>1, <1>2, <2>1, <2>2, ReadKeeps
<1>3. CASE /\ sock_remained_size = 0 /\ fifo # << >>
           /\ TakeFrom(Tail(fifo), SizeOf(Head(fifo)), asked)
  <2>1. fifoByte = FALSE
    BY <1>3, BetweenPackets
  <2>2. PICK n, rest : NextIs(n, rest)
    BY <1>3, NextPacket
  <2>3. TakeFrom(rest, n, asked)
    <3>1. proto \in {"tcp", "udp"} /\ proto = "tcp"
      BY <1>1
    <3>2. SizeOf(Head(fifo)) = n /\ Tail(fifo) = rest
      BY <2>2, <3>1, DropHeader
    <3> QED
      BY <1>3, <3>2
  <2>4. /\ n \in Nat \ {0} /\ DataIn(rest) = DataIn(fifo)
        /\ Framed(Packets, rest, IF fifoByte THEN n - 1 ELSE n)
    BY <2>1, <2>2 DEF NextIs
  <2> QED
    BY <1>1, <2>3, <2>4, ReadKeeps
<1> QED
  BY <1>2, <1>3 DEF ReadTcp

LEMMA UdpStep ==
  ASSUME FifoInv, Ordered, NEW asked \in Nat \ {0}, ReadUdp(asked)
  PROVE  FifoInv' /\ Ordered'
<1>1. /\ proto = "udp" /\ UNCHANGED <<proto, arrived, failed>> /\ remaining > 0
      /\ sock_remained_size \in Nat \ {0} /\ remaining = sock_remained_size
  BY DEF ReadUdp, FifoInv, FifoTypes
<1>2. TakeFrom(fifo, sock_remained_size, asked)
  BY DEF ReadUdp
<1>3. /\ remaining' = sock_remained_size - (IF asked < sock_remained_size THEN asked
                                           ELSE sock_remained_size)
      /\ remaining' \in Nat
  BY <1>1 DEF ReadUdp
<1>4. Framed(Packets, fifo, IF fifoByte THEN sock_remained_size - 1 ELSE sock_remained_size)
  BY DEF FifoInv, InChip
<1> QED
  BY <1>1, <1>2, <1>3, <1>4, ReadKeeps

LEMMA GiveUpStep ==
  ASSUME FifoInv, Ordered, GiveUpRest
  PROVE  FifoInv' /\ Ordered'
<1>1. /\ proto = "udp" /\ UNCHANGED <<proto, arrived, failed>>
      /\ sock_remained_size \in Nat \ {0} /\ remaining = sock_remained_size
  BY DEF GiveUpRest, FifoInv, FifoTypes
<1>2. TakeFrom(fifo, sock_remained_size, sock_remained_size)
  BY <1>1 DEF GiveUpRest
<1>3. /\ remaining' = sock_remained_size - (IF sock_remained_size < sock_remained_size
                                            THEN sock_remained_size ELSE sock_remained_size)
      /\ remaining' \in Nat
  BY <1>1 DEF GiveUpRest
<1>4. Framed(Packets, fifo, IF fifoByte THEN sock_remained_size - 1 ELSE sock_remained_size)
  BY DEF FifoInv, InChip
<1> QED
  BY <1>1, <1>2, <1>3, <1>4, ReadKeeps

LEMMA ParseStep ==
  ASSUME FifoInv, Ordered, ParsePacket
  PROVE  FifoInv' /\ Ordered'
<1>1. /\ proto = "udp" /\ UNCHANGED <<proto, arrived, failed, consumed, sock_remained_byte>>
      /\ sock_remained_size = 0 /\ fifoByte' = FALSE
  BY DEF ParsePacket
<1>2. fifoByte = FALSE /\ fifo \in Seq(Word)
  BY <1>1, BetweenPackets
<1>3. fifo # << >>
  BY <1>2 DEF ParsePacket, socketRecvAvailable
<1>4. PICK n, rest : NextIs(n, rest)
  BY <1>1, <1>3, NextPacket
<1>5. /\ sock_remained_size' = n /\ remaining' = n /\ fifo' = rest
  BY <1>1, <1>4, DropHeader DEF ParsePacket
<1>6. /\ n \in Nat \ {0} /\ DataIn(rest) = DataIn(fifo) /\ Framed(Packets, rest, n)
  BY <1>4 DEF NextIs
<1>7. FifoTypes'
  BY <1>1, <1>5, <1>6 DEF FifoInv, FifoTypes
<1>8. InChip' = n
  BY <1>1, <1>5 DEF InChip
<1>9. Framed(Packets, fifo, InChip)'
  BY <1>1, <1>5, <1>6, <1>8, SamePackets
<1>10. FifoInv'
  BY <1>1, <1>5, <1>7, <1>9 DEF FifoInv
<1>11. Held' = << >> /\ Held = << >>
  BY <1>1, <1>2 DEF Held
<1>12. AllBytes' = AllBytes
  BY <1>1, <1>5, <1>6, <1>11 DEF AllBytes
<1>13. Ordered'
  BY <1>1, <1>12 DEF Ordered
<1> QED
  BY <1>10, <1>13

LEMMA ArriveStep ==
  ASSUME FifoInv, Ordered, NEW n \in Nat \ {0}, Arrive(n)
  PROVE  FifoInv' /\ Ordered'
<1> DEFINE x == Packet(arrived, n)
<1>1. /\ fifo' = fifo \o x /\ arrived' = arrived + n
      /\ UNCHANGED <<proto, sock_remained_size, fifoByte, sock_remained_byte, remaining,
                     consumed, failed>>
  BY DEF Arrive
<1>2. arrived \in Nat /\ arrived' \in Nat
  BY <1>1 DEF FifoInv, FifoTypes
<1>3. x \in Seq(Word) /\ DataIn(x) = Numbers(arrived, n)
  BY <1>2, PacketWords
<1>4. PICK p \in Payload(InChip), r \in Seq(Word) : fifo = p \o r /\ Stored(Packets, r)
  BY DEF FifoInv, Framed
<1>5. InChip' = InChip /\ Held' = Held
  BY <1>1 DEF InChip, Held
<1>6. Stored(Packets, r \o x)
  BY <1>2, <1>4, StoredWords
<1> HIDE DEF x
<1>7. p \in Seq(Word) /\ r \o x \in Seq(Word) /\ fifo \in Seq(Word)
  BY <1>3, <1>4 DEF Payload
<1>8. fifo' = p \o (r \o x)
  <2>1. Groups(p, r, x)
    BY <1>3, <1>4, <1>7, Grouped
  <2> QED
    BY <1>1, <1>4, <2>1, Zenon DEF Groups
<1>9. Framed(Packets, fifo', InChip)
  BY <1>4, <1>6, <1>7, <1>8 DEF Framed
<1>10. Framed(Packets, fifo, InChip)'
  BY <1>1, <1>5, <1>9, SamePackets
<1>11. FifoTypes'
  BY <1>1, <1>2 DEF FifoInv, FifoTypes
<1>12. FifoInv'
  BY <1>1, <1>10, <1>11 DEF FifoInv
<1>13. DataIn(fifo') = DataIn(fifo) \o DataIn(x)
  BY <1>1, <1>3, <1>7, DataInConcat
<1>14. CASE failed
  BY <1>1, <1>12, <1>14 DEF Ordered
<1>15. CASE ~failed
  <2> DEFINE c == consumed \o Held
             d == DataIn(fifo)
  <2>1. c \in Seq(Nat) /\ d \in Seq(Nat) /\ DataIn(x) \in Seq(Nat)
    <3>1. Held \in Seq(Nat) /\ consumed \in Seq(Nat)
      BY DEF Held, FifoInv, FifoTypes
    <3> QED
      BY <1>3, <1>7, <3>1, DataInWords
  <2>2. c \o d = Numbers(0, arrived)
    BY <1>15 DEF Ordered, AllBytes
  <2>3. AllBytes' = c \o (d \o DataIn(x))
    BY <1>1, <1>5, <1>13 DEF AllBytes
  <2> HIDE DEF c, d
  <2>4. Groups(c, d, DataIn(x))
    BY <2>1, Grouped
  <2>5. AllBytes' = Numbers(0, arrived) \o Numbers(arrived, n)
    BY <1>3, <2>2, <2>3, <2>4, Zenon DEF Groups
  <2>6. Numbers(0, arrived) \o Numbers(0 + arrived, n) = Numbers(0, arrived + n)
    <3>1. 0 \in Nat /\ n \in Nat
      OBVIOUS
    <3> QED
      BY <1>2, <3>1, NumbersConcat, Zenon
  <2>7. 0 + arrived = arrived
    BY <1>2
  <2>8. AllBytes' = Numbers(0, arrived')
    BY <1>1, <2>5, <2>6, <2>7
  <2>9. Ordered'
    BY <2>8 DEF Ordered
  <2> QED
    BY <1>12, <2>9
<1> QED
  BY <1>14, <1>15

LEMMA FailStep ==
  ASSUME FifoInv, ReadFails
  PROVE  FifoInv' /\ Ordered'
<1>1. /\ fifo' = << >> /\ sock_remained_size' = 0 /\ fifoByte' = FALSE /\ failed' = TRUE
      /\ proto = "tcp"
      /\ UNCHANGED <<proto, arrived, sock_remained_byte, remaining, consumed>>
  BY DEF ReadFails
<1>2. FifoTypes'
  BY <1>1 DEF FifoInv, FifoTypes
<1>3. InChip' = 0
  BY <1>1 DEF InChip
<1>4. Framed(Packets, << >>, 0)
  BY StoredWords, FramedAlone
<1>5. Framed(Packets, fifo, InChip)'
  BY <1>1, <1>3, <1>4, SamePackets
<1>6. proto' # "udp"
  BY <1>1
<1>7. FifoInv'
  BY <1>1, <1>2, <1>5, <1>6 DEF FifoInv
<1> QED
  BY <1>1, <1>7 DEF Ordered

\* Every step keeps the invariant and the order of the bytes.
LEMMA FifoStep == FifoInv /\ Ordered /\ [RxNext]_rxVars => FifoInv' /\ Ordered'
<1> SUFFICES ASSUME FifoInv, Ordered, [RxNext]_rxVars PROVE FifoInv' /\ Ordered'
  OBVIOUS
<1>1. CASE ReadFails
  BY <1>1, FailStep
<1>2. CASE GiveUpRest
  BY <1>2, GiveUpStep
<1>3. CASE ParsePacket
  BY <1>3, ParseStep
<1>4. ASSUME NEW n \in 1 .. MaxRead, ReadTcp(n) \/ ReadUdp(n) PROVE FifoInv' /\ Ordered'
  <2>1. n \in Nat \ {0}
    BY RxAssumption
  <2> QED
    BY <1>4, <2>1, TcpStep, UdpStep
<1>5. ASSUME NEW n \in 1 .. MaxPacket, Arrive(n) PROVE FifoInv' /\ Ordered'
  <2>1. n \in Nat \ {0}
    BY RxAssumption
  <2> QED
    BY <1>5, <2>1, ArriveStep
<1>6. CASE PeerEnds \/ UNCHANGED rxVars
  <2>1. UNCHANGED <<proto, fifo, arrived, sock_remained_size, fifoByte, sock_remained_byte,
                    remaining, consumed, failed>>
    BY <1>6 DEF PeerEnds, rxVars
  <2>2. InChip' = InChip /\ Held' = Held
    BY <2>1 DEF InChip, Held
  <2>3. Framed(Packets, fifo, InChip)'
    BY <2>1, <2>2, SamePackets DEF FifoInv
  <2>4. FifoTypes'
    BY <2>1 DEF FifoInv, FifoTypes
  <2>5. FifoInv'
    BY <2>1, <2>3, <2>4 DEF FifoInv
  <2>6. Ordered'
    BY <2>1, <2>2 DEF Ordered, AllBytes
  <2> QED
    BY <2>5, <2>6
<1> QED
  BY <1>1, <1>2, <1>3, <1>4, <1>5, <1>6 DEF RxNext, Reads

-----------------------------------------------------------------------------
(* RxFifo: the theorems *)

\* ReadInOrder for packets and reads of any length.
THEOREM BytesAreReadInOrder == RxSpec => []ReadInOrder
<1>1. FifoInv /\ Ordered => ReadInOrder
  <2> SUFFICES ASSUME FifoInv, Ordered PROVE ReadInOrder
    OBVIOUS
  <2>1. Numbers(0, arrived) = [i \in 1 .. arrived |-> i]
    BY DEF Numbers, FifoInv, FifoTypes
  <2> QED
    BY <2>1 DEF Ordered, AllBytes, Held, ReadInOrder
<1> QED
  BY <1>1, FifoStarts, FifoStep, PTL DEF RxSpec

\* CountsAgree for packets and reads of any length.
THEOREM HeadersAreFound == RxSpec => []CountsAgree
<1>1. FifoInv => CountsAgree
  <2> SUFFICES ASSUME FifoInv PROVE CountsAgree
    OBVIOUS
  <2>1. sock_remained_size = 0 /\ fifo # << >> => Head(fifo).kind # "data"
    <3> SUFFICES ASSUME sock_remained_size = 0, fifo # << >> PROVE Head(fifo).kind # "data"
      OBVIOUS
    <3>1. PICK from \in Nat, n \in Nat \ {0}, others \in Seq(Word) :
            fifo = Packet(from, n) \o others /\ Stored(Packets, others)
      <4>1. Stored(Packets, fifo) /\ fifo # << >>
        BY BetweenPackets
      <4> QED
        BY <4>1, FirstStored
    <3> DEFINE x == Packet(from, n)
    <3>2. x \in Seq(Word) /\ x # << >> /\ Head(x).kind # "data"
      BY PacketWords
    <3> HIDE DEF x
    <3>3. Head(x \o others) = Head(x)
      BY <3>2, Joined
    <3> QED
      BY <3>1, <3>2, <3>3 DEF x
  <2>2. ASSUME sock_remained_size # 0
        PROVE  (IF fifoByte THEN 1 ELSE 0) + Len(DataIn(fifo)) >= sock_remained_size
    <3>1. PICK p \in Payload(InChip), r \in Seq(Word) : fifo = p \o r
      BY DEF FifoInv, Framed
    <3>2. InChip \in Nat /\ InChip + (IF fifoByte THEN 1 ELSE 0) = sock_remained_size
      BY <2>2 DEF InChip, FifoInv, FifoTypes
    <3>3. p \in Seq(Word) /\ DataIn(p) \in Seq(Nat) /\ Len(DataIn(p)) = InChip
      BY <3>2, BytesInPayload
    <3>4. DataIn(r) \in Seq(Nat) /\ DataIn(fifo) = DataIn(p) \o DataIn(r)
      BY <3>1, <3>3, DataInWords, DataInConcat
    <3> DEFINE a == DataIn(p)
               b == DataIn(r)
    <3>5. a \in Seq(Nat) /\ b \in Seq(Nat) /\ Len(a) = InChip
      BY <3>3, <3>4
    <3> HIDE DEF a, b
    <3>6. Len(a \o b) = Len(a) + Len(b) /\ Len(b) \in Nat
      <4>1. Len(b) \in Nat
        BY <3>5
      <4> QED
        BY <3>5, <4>1, PartsAt
    <3>7. Len(DataIn(fifo)) = InChip + Len(b)
      BY <3>4, <3>5, <3>6 DEF a, b
    <3> QED
      BY <3>2, <3>6, <3>7
  <2> QED
    BY <2>1, <2>2 DEF CountsAgree, FifoInv
<1> QED
  BY <1>1, FifoStarts, FifoStep, PTL DEF RxSpec
=============================================================================
