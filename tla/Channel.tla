------------------------------ MODULE Channel ------------------------------
(***************************************************************************)
(* What a connection of the TLS client promises to its user: two queues of *)
(* bytes.  What is put comes out at the peer in order and once; what the   *)
(* peer supplies is taken in order and once, or discarded from the front.  *)
(* The end of the connection loses what is queued for the peer, and the    *)
(* input that has not come in.                                             *)
(***************************************************************************)
EXTENDS Naturals, Sequences

CONSTANT Bytes

VARIABLES
  open,      \* the connection carries data
  out,       \* put, not yet at the peer
  delivered, \* at the peer
  in,        \* supplied by the peer, not yet taken
  taken      \* taken by the user

channelVars == <<open, out, delivered, in, taken>>

ChannelInit ==
  open = FALSE /\ out = << >> /\ delivered = << >> /\ in = << >> /\ taken = << >>

\* A new connection is begun: nothing of the last one is left.
Begin ==
  /\ open' = FALSE
  /\ out' = << >> /\ delivered' = << >> /\ in' = << >> /\ taken' = << >>

Open ==
  /\ ~open /\ delivered = << >> /\ taken = << >>
  /\ open' = TRUE
  /\ UNCHANGED <<out, delivered, in, taken>>

Put ==
  /\ open /\ out' \in Seq(Bytes) /\ Len(out) < Len(out')
  /\ SubSeq(out', 1, Len(out)) = out
  /\ UNCHANGED <<open, delivered, in, taken>>

Deliver ==
  /\ open
  /\ \E n \in 1..Len(out) :
       /\ delivered' = delivered \o SubSeq(out, 1, n)
       /\ out' = SubSeq(out, n + 1, Len(out))
  /\ UNCHANGED <<open, in, taken>>

Supply ==
  /\ open /\ in' \in Seq(Bytes) /\ Len(in) < Len(in')
  /\ SubSeq(in', 1, Len(in)) = in
  /\ UNCHANGED <<open, out, delivered, taken>>

\* What has come can be taken even after the end.
Take ==
  /\ \E n \in 1..Len(in) :
       /\ taken' = taken \o SubSeq(in, 1, n)
       /\ in' = SubSeq(in, n + 1, Len(in))
  /\ UNCHANGED <<open, out, delivered>>

Discard ==
  /\ \E n \in 1..Len(in) : in' = SubSeq(in, n + 1, Len(in))
  /\ UNCHANGED <<open, out, delivered, taken>>

\* The end: what is queued for the peer is lost, and input from some point on.
Close ==
  /\ open' = FALSE /\ out' = << >>
  /\ \E n \in 0..Len(in) : in' = SubSeq(in, 1, n)
  /\ UNCHANGED <<delivered, taken>>

ChannelNext == Begin \/ Open \/ Put \/ Deliver \/ Supply \/ Take \/ Discard \/ Close

ChannelSpec == ChannelInit /\ [][ChannelNext]_channelVars
=============================================================================
