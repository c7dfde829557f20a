------------------------------- MODULE RxFifo -------------------------------
(***************************************************************************)
(* The receive path of a W5300 socket.  The chip hands out received bytes  *)
(* two at a time, with a header before each packet; socketRecv and         *)
(* socketRecvUDP turn this into calls that read any number of bytes, and   *)
(* keep what is left over between calls: how much of the packet is unread, *)
(* and the second byte of a word of which only the first was asked for.    *)
(*                                                                         *)
(* Received bytes are numbered from 1.  External: the chip's FIFO, whose   *)
(* size register is up to date after every RECV command; the peer.         *)
(***************************************************************************)
EXTENDS Naturals, SequencesExt

CONSTANTS
  MaxRead,    \* most bytes a call asks for
  MaxPacket,  \* most bytes in a packet
  MaxArrived  \* bound: bytes that arrive

ASSUME RxAssumption == MaxRead \in Nat /\ MaxPacket \in Nat /\ MaxArrived \in Nat

VARIABLES
  proto,    \* "tcp" or "udp"
  status,   \* of the socket
  fifo,     \* external: words in the chip
  arrived,  \* external: how many bytes have arrived
  sock_remained_size, \* bytes of the packet that are unread
  fifoByte,           \* PACK_FIFOBYTE: one of them is in sock_remained_byte
  sock_remained_byte, \* the second byte of the last word read
  remaining,\* _remaining of EthernetUDP
  consumed, \* history: the bytes read, and those of a datagram given up
  failed    \* history: a read found the socket closed

rxVars == <<proto, status, fifo, arrived, sock_remained_size, fifoByte, sock_remained_byte,
            remaining, consumed, failed>>

SizeWord(n) == [kind |-> "size", data |-> <<n>>]
AddressWord == [kind |-> "address", data |-> << >>]
DataWord(d) == [kind |-> "data", data |-> d]

\* A packet as the chip stores it: an odd byte at its end is padded.
Packet(from, n) ==
  (IF proto = "udp" THEN <<AddressWord, AddressWord, AddressWord>> ELSE << >>)
  \o <<SizeWord(n)>>
  \o [i \in 1..((n + 1) \div 2) |->
        DataWord(IF 2 * i <= n THEN <<from + 2 * i - 1, from + 2 * i>> ELSE <<from + n>>)]

\* What a word read as data gives, pad and misread headers included.
Bytes(w) ==
  IF w.kind # "data" THEN <<0, 0>>
  ELSE IF Len(w.data) = 1 THEN w.data \o <<0>> ELSE w.data

\* read_data reads whole words and backs up the last byte.
WordsFor(n) == (n + 1) \div 2
WordAt(words, i) == IF i \in DOMAIN words THEN words[i] ELSE AddressWord
read_data(words, n) == FlattenSeq([i \in 1..WordsFor(n) |-> Bytes(WordAt(words, i))])

\* getSnRX_RSR, which socketRecvAvailable returns.  (Mutant: without the byte backed up.)
AvailableInChip == 2 * Len(fifo)
socketRecvAvailable == 2 * Len(fifo) + (IF fifoByte THEN 1 ELSE 0)

RxInit ==
  /\ proto \in {"tcp", "udp"} /\ status = "open"
  /\ fifo = << >> /\ arrived = 0
  /\ sock_remained_size = 0 /\ fifoByte = FALSE /\ sock_remained_byte = 0
  /\ remaining = 0 /\ consumed = << >> /\ failed = FALSE

-----------------------------------------------------------------------------
(* socketRecv *)

\* (Mutant: a byte backed up is not used.)
UsesNoByte(len) == FALSE
UsesByte(len) == fifoByte /\ len > 0

\* A byte is backed up when a word is read for its first byte only and the packet goes on.
\* (Mutant: the pad at the end of a packet as well.)
BacksPad(left, n) == n % 2 = 1
Backs(left, n) == left # 0 /\ n % 2 = 1

\* At most len bytes of a packet of which size bytes are left, the words from skip on.
TakeFrom(words, size, asked) ==
  LET len == IF asked < size THEN asked ELSE size
      backed == UsesByte(len)
      n == IF backed THEN len - 1 ELSE len
      read == read_data(words, n)
      left == size - len IN
  /\ consumed' = consumed \o (IF backed THEN <<sock_remained_byte>> ELSE << >>)
                          \o SubSeq(read, 1, n)
  /\ fifo' = SubSeq(words, WordsFor(n) + 1, Len(words))
  /\ sock_remained_size' = left
  /\ sock_remained_byte' = IF n > 0 THEN Last(read) ELSE sock_remained_byte
  /\ fifoByte' = Backs(left, n)

SizeOf(w) == IF w.kind = "size" THEN w.data[1] ELSE 0

\* The caller has seen that something is available.  In the middle of a packet the status
\* is not looked at.
ReadTcp(asked) ==
  /\ proto = "tcp" /\ socketRecvAvailable > 0
  /\ \/ sock_remained_size # 0 /\ TakeFrom(fifo, sock_remained_size, asked)
     \/ /\ sock_remained_size = 0 /\ status # "closed"
        /\ fifo # << >> /\ TakeFrom(Tail(fifo), SizeOf(Head(fifo)), asked)
  /\ UNCHANGED <<proto, status, arrived, remaining, failed>>

\* On a closed socket the read closes it again, and fails.
ReadFails ==
  /\ proto = "tcp" /\ socketRecvAvailable > 0
  /\ sock_remained_size = 0 /\ status = "closed"
  /\ fifo' = << >> /\ sock_remained_size' = 0 /\ fifoByte' = FALSE /\ failed' = TRUE
  /\ UNCHANGED <<proto, status, arrived, sock_remained_byte, remaining, consumed>>

-----------------------------------------------------------------------------
(* EthernetUDP *)

\* read: as much of the datagram as was asked for.
ReadUdp(asked) ==
  /\ proto = "udp" /\ remaining > 0
  /\ TakeFrom(fifo, sock_remained_size, asked)
  /\ remaining' = remaining - (IF asked < remaining THEN asked ELSE remaining)
  /\ UNCHANGED <<proto, status, arrived, failed>>

\* parsePacket gives up the rest of the last datagram first, through the same reads, to which
\* it hands a null address: what the copy to it does to the memory is not modelled.
GiveUpRest ==
  /\ proto = "udp" /\ remaining > 0
  /\ TakeFrom(fifo, sock_remained_size, remaining)
  /\ remaining' = 0
  /\ UNCHANGED <<proto, status, arrived, failed>>

\* socketRecvUDP with nothing left of the last packet: the header, eight bytes.
ParsePacket ==
  /\ proto = "udp" /\ remaining = 0 /\ socketRecvAvailable > 0 /\ status # "closed"
  /\ sock_remained_size = 0
  /\ sock_remained_size' = SizeOf(WordAt(fifo, 4))
  /\ remaining' = SizeOf(WordAt(fifo, 4))
  /\ fifo' = SubSeq(fifo, 5, Len(fifo))
  /\ fifoByte' = FALSE
  /\ UNCHANGED <<proto, status, arrived, sock_remained_byte, consumed, failed>>

-----------------------------------------------------------------------------
(* External: the peer and the chip *)

Arrive(n) ==
  /\ status = "open" /\ arrived + n <= MaxArrived
  /\ fifo' = fifo \o Packet(arrived, n)
  /\ arrived' = arrived + n
  /\ UNCHANGED <<proto, status, sock_remained_size, fifoByte, sock_remained_byte, remaining,
                 consumed, failed>>

\* The peer is done (CLOSE_WAIT), or the connection drops.
PeerEnds ==
  /\ proto = "tcp" /\ status = "open" /\ status' \in {"done", "closed"}
  /\ UNCHANGED <<proto, fifo, arrived, sock_remained_size, fifoByte, sock_remained_byte,
                 remaining, consumed, failed>>

Reads == ReadFails \/ GiveUpRest \/ ParsePacket
         \/ (\E n \in 1..MaxRead : ReadTcp(n) \/ ReadUdp(n))

RxNext == Reads \/ PeerEnds \/ (\E n \in 1..MaxPacket : Arrive(n))

RxSpec == RxInit /\ [][RxNext]_rxVars

\* A caller that reads as long as something is available.
RxFairSpec == RxSpec /\ WF_rxVars(Reads)

-----------------------------------------------------------------------------
(* Properties *)

DataIn(words) == FlattenSeq([i \in DOMAIN words |->
                               IF words[i].kind = "data" THEN words[i].data ELSE << >>])

\* Whatever the lengths of packets and reads, odd or even: what was read, the byte backed
\* up and what is in the chip are the bytes that arrived, in order (socket.cpp:402-496,
\* 498-586).
ReadInOrder ==
  failed \/ consumed \o (IF fifoByte THEN <<sock_remained_byte>> ELSE << >>) \o DataIn(fifo)
            = [i \in 1..arrived |-> i]

\* Both counts of what is left of a packet agree with what is there, so that a header is
\* read where the chip has one.
CountsAgree ==
  /\ proto = "udp" => remaining = sock_remained_size
  /\ sock_remained_size = 0 /\ fifo # << >> => Head(fifo).kind # "data"
  /\ sock_remained_size # 0 =>
       (IF fifoByte THEN 1 ELSE 0) + Len(DataIn(fifo)) >= sock_remained_size

\* No byte is stuck: a caller that reads as long as something is available gets everything,
\* the last odd byte too, unless the connection drops (w5100.cpp:169).
AllIsRead == []<>(Len(consumed) = arrived \/ failed)
=============================================================================
