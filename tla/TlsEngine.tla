----------------------------- MODULE TlsEngine -----------------------------
(***************************************************************************)
(* The record engine of BearSSL (ssl_engine.c) as the firmware sets it up: *)
(* one buffer shared by incoming and outgoing records (SSLClient.h:469 is  *)
(* 2048 bytes, below BR_SSL_BUFSIZE_MONO).  The engine is a record; its    *)
(* functions are operators that return the engine after the call.          *)
(*                                                                         *)
(* A record travels as two units, its header and the rest.  Encryption is  *)
(* left out: a record that fails its check is one of type "broken".        *)
(***************************************************************************)
EXTENDS Naturals, Sequences

CONSTANT OutRoom  \* payload bytes an outgoing record can take

ASSUME OutRoomAssumption == OutRoom \in Nat \ {0}

NoRecord == [type |-> "none", data |-> << >>]
HANDSHAKE == [type |-> "handshake", data |-> << >>]
CLOSE_NOTIFY == [type |-> "alert", data |-> << >>]
BROKEN == [type |-> "broken", data |-> << >>] \* oversized, or fails its MAC
Data(d) == [type |-> "data", data |-> d]

RESUMES == [type |-> "resumes", data |-> << >>] \* the server's flight of a known session

\* The client's part of a full handshake: hello; the server's flight; key exchange and
\* finished, two records; the server's finished.  When a session is resumed, only the
\* client's finished is left after the server's flight.
HandshakeScript == <<"send", "recv", "send", "send", "recv", "send">>
RESUMED == 6
StepAfter(step) == IF step = RESUMED - 1 THEN RESUMED + 1 ELSE step + 1
OPEN == Len(HandshakeScript) + 1  \* handshake over: application data
CLOSING == OPEN + 1               \* a close_notify has come

\* What overwrites the payload gathered in the buffer when a record is read over it.
Clobbered(d) == [i \in DOMAIN d |-> 0]

(* The state flags (br_ssl_engine_current_state).  (Mutant: a record may be received over
   one that is not read.) *)

CLOSED(e)  == e.iomode = "FAILED"
SENDREC(e) == e.iomode \in {"OUT", "INOUT"} /\ e.rec # NoRecord
RECVRECUnread(e) == e.iomode \in {"IN", "INOUT"} /\ e.hs # CLOSING
RECVREC(e) == e.iomode \in {"IN", "INOUT"} /\ e.in = << >> /\ e.hs # CLOSING
SENDAPP(e) == e.iomode \in {"OUT", "INOUT"} /\ e.rec = NoRecord /\ e.hs = OPEN
RECVAPP(e) == e.iomode \in {"IN", "INOUT"} /\ e.in # << >> /\ e.hs = OPEN

(* Helpers *)

br_ssl_engine_fail(e) == [e EXCEPT !.iomode = "FAILED"]

make_ready_in(e) ==
  [e EXCEPT !.head = FALSE, !.in = << >>, !.iomode = IF @ = "IN" THEN "INOUT" ELSE @]

make_ready_out(e) ==
  [e EXCEPT !.out = << >>, !.rec = NoRecord, !.iomode = IF @ = "OUT" THEN "INOUT" ELSE @]

\* Payload joins the outgoing record: the buffer is now for output only.
TakeOutput(e) == [e EXCEPT !.iomode = IF @ = "INOUT" THEN "OUT" ELSE @]

\* A record of the engine's own (handshake, alert) is written and closed at once.
WriteOwn(e, r) == [TakeOutput(e) EXCEPT !.rec = r]

\* The handshake goes on as far as it can without input or a sent record.
Handshake(e, step) ==
  LET f == [e EXCEPT !.hs = step] IN
  IF step < OPEN /\ HandshakeScript[step] = "send" THEN WriteOwn(f, HANDSHAKE) ELSE f

EngineInit ==
  Handshake([iomode |-> "INOUT", head |-> FALSE, in |-> << >>, out |-> << >>,
             rec |-> NoRecord, hs |-> 1], 1)

(* The functions *)

br_ssl_engine_flush(e) ==
  IF CLOSED(e) \/ e.hs # OPEN \/ e.rec # NoRecord \/ e.out = << >> THEN e
  ELSE [e EXCEPT !.rec = Data(e.out), !.out = << >>]

\* A full record is closed at once.  (Mutant: one byte too late.)
sendapp_ackLate(e, d) ==
  LET f == [TakeOutput(e) EXCEPT !.out = @ \o d] IN
  IF Len(f.out) > OutRoom THEN br_ssl_engine_flush(f) ELSE f
br_ssl_engine_sendapp_ack(e, d) ==
  LET f == [TakeOutput(e) EXCEPT !.out = @ \o d] IN
  IF Len(f.out) >= OutRoom THEN br_ssl_engine_flush(f) ELSE f

sendapp_len(e) == OutRoom - Len(e.out)

\* The record is sent.  What comes after a record of the engine's own: the next step of
\* the handshake, or, after the answer to a close_notify, the end.
br_ssl_engine_sendrec_ack(e) ==
  LET f == make_ready_out(e) IN
  IF e.rec.type = "data" THEN f
  ELSE IF e.hs = CLOSING THEN br_ssl_engine_fail(f)
  ELSE Handshake(f, StepAfter(f.hs))

\* The first byte of a record reserves the buffer for input.
TakeInput(e) == [e EXCEPT !.iomode = IF @ = "INOUT" THEN "IN" ELSE @]

\* The header is read: a record that does not fit ends the connection.
recvrec_ack_header(e, r) ==
  LET f == [TakeInput(e) EXCEPT !.head = TRUE, !.out = Clobbered(@)] IN
  IF r = BROKEN THEN br_ssl_engine_fail(f) ELSE f

\* The rest is read: payload for the user, a step of the handshake, or the alert the
\* engine answers and closes on.
recvrec_ack_body(e, r) ==
  LET f == [TakeInput(e) EXCEPT !.in = r.data, !.out = Clobbered(@)] IN
  IF r.type = "data" /\ e.hs = OPEN THEN (IF r.data = << >> THEN make_ready_in(f) ELSE f)
  ELSE IF r.type = "handshake" /\ e.hs < OPEN
       THEN Handshake(make_ready_in(f), StepAfter(e.hs))
  ELSE IF r.type = "resumes" /\ e.hs = 2 THEN Handshake(make_ready_in(f), RESUMED)
  ELSE IF r.type = "alert"
       THEN WriteOwn([make_ready_in(f) EXCEPT !.hs = CLOSING], CLOSE_NOTIFY)
  ELSE br_ssl_engine_fail(f)

\* n bytes of payload are taken; the last one ends the record.
br_ssl_engine_recvapp_ack(e, n) ==
  LET f == [e EXCEPT !.in = SubSeq(@, n + 1, Len(@))] IN
  IF f.in = << >> THEN make_ready_in(f) ELSE f
=============================================================================
