-------------------------- MODULE TlsClientProofs --------------------------
(***************************************************************************)
(* Theorems about TlsClient, for every size of a record, every timeout and *)
(* any number of bytes written and supplied.                               *)
(***************************************************************************)
EXTENDS Integers, TlsClient, FoldTheorems, SequenceTheorems, TLAPS

-----------------------------------------------------------------------------
(* The engine *)

RecordTypes == {"none", "handshake", "alert", "broken", "data", "resumes"}
Records == [type : RecordTypes, data : Seq(Nat)]
Engines == [iomode : {"IN", "OUT", "INOUT", "FAILED"}, head : BOOLEAN, in : Seq(Nat),
            out : Seq(Nat), rec : Records, hs : 1..CLOSING]

\* One buffer for both directions: the mode says which of them holds it.
SharedBuffer(e) ==
  /\ e.iomode \in {"IN", "INOUT"} => e.out = << >> /\ e.rec = NoRecord
  /\ e.iomode \in {"OUT", "INOUT"} => e.in = << >> /\ ~e.head
  /\ e.head \/ e.in # << >> => e.out = << >> /\ e.rec = NoRecord

\* The record that is out: a full one leaves nothing behind it, and the user's payload is
\* only in a record of the open engine.
RecordOut(e) ==
  /\ e.rec # NoRecord => e.out = << >>
  /\ e.rec.type # "data" => e.rec.data = << >>
  /\ e.rec.type = "none" => e.rec = NoRecord
  /\ Len(e.out) < OutRoom
  /\ ~CLOSED(e) /\ e.hs # OPEN => e.out = << >> /\ e.rec.type # "data"
  /\ e.hs = OPEN /\ e.rec # NoRecord => e.rec.type = "data"

EngineOK(e) == e \in Engines /\ SharedBuffer(e) /\ RecordOut(e)

\* The handshake has six steps.
LEMMA Steps ==
  /\ OPEN = 7 /\ CLOSING = 8 /\ RESUMED = 6
  /\ \A h \in 1..6 : StepAfter(h) \in 1..7
  /\ NoRecord \in Records /\ HANDSHAKE \in Records /\ CLOSE_NOTIFY \in Records
  /\ NoRecord # HANDSHAKE /\ NoRecord # CLOSE_NOTIFY
  <1>1. Len(HandshakeScript) = 6
    BY DEF HandshakeScript
  <1>2. OPEN = 7 /\ CLOSING = 8 /\ RESUMED = 6
    BY <1>1 DEF OPEN, CLOSING, RESUMED
  <1>3. \A h \in 1..6 : StepAfter(h) \in 1..7
    BY <1>2 DEF StepAfter
  <1>4. << >> \in Seq(Nat)
    OBVIOUS
  <1>5. NoRecord \in Records /\ HANDSHAKE \in Records /\ CLOSE_NOTIFY \in Records
    BY <1>4 DEF NoRecord, HANDSHAKE, CLOSE_NOTIFY, Records, RecordTypes
  <1>6. NoRecord # HANDSHAKE /\ NoRecord # CLOSE_NOTIFY
    BY DEF NoRecord, HANDSHAKE, CLOSE_NOTIFY
  <1>7. QED
    BY <1>2, <1>3, <1>5, <1>6

\* An engine that holds nothing goes through the handshake.
Empty(e) == /\ e \in Engines /\ e.iomode = "INOUT"
            /\ ~e.head /\ e.in = << >> /\ e.out = << >> /\ e.rec = NoRecord

LEMMA HandshakeStep ==
  ASSUME NEW e, Empty(e), NEW step \in 1..7
  PROVE  LET f == Handshake(e, step) IN
         /\ EngineOK(f) /\ ~CLOSED(f) /\ f.hs = step
         /\ f.in = << >> /\ f.out = << >> /\ f.rec.data = << >>
  <1> DEFINE g == [e EXCEPT !.hs = step]
             w == WriteOwn(g, HANDSHAKE)
             f == Handshake(e, step)
  <1>0. 0 < OutRoom /\ OutRoom \in Nat
    BY OutRoomAssumption
  <1>1. /\ g \in Engines /\ g.iomode = "INOUT" /\ ~g.head /\ g.in = << >> /\ g.out = << >>
        /\ g.rec = NoRecord /\ g.hs = step
    BY Steps DEF Empty, Engines
  <1>2. /\ w \in Engines /\ w.iomode = "OUT" /\ ~w.head /\ w.in = << >> /\ w.out = << >>
        /\ w.rec = HANDSHAKE /\ w.hs = step
    <2> HIDE DEF g
    <2>1. QED
      BY <1>1, Steps DEF WriteOwn, TakeOutput, Engines
  <1>3. f = IF step < OPEN /\ HandshakeScript[step] = "send" THEN w ELSE g
    BY DEF Handshake
  <1> HIDE DEF g, w, f
  <1>4. EngineOK(g) /\ ~CLOSED(g) /\ g.rec.data = << >>
    BY <1>0, <1>1, Steps, EmptySeq
       DEF EngineOK, SharedBuffer, RecordOut, CLOSED, NoRecord
  <1>5. step < OPEN => EngineOK(w) /\ ~CLOSED(w) /\ w.rec.data = << >>
    BY <1>0, <1>2, Steps, EmptySeq
       DEF EngineOK, SharedBuffer, RecordOut, CLOSED, HANDSHAKE
  <1>6. CASE f = g
    BY <1>1, <1>4, <1>6 DEF f
  <1>7. CASE f = w /\ step < OPEN
    BY <1>2, <1>5, <1>7 DEF f
  <1>8. QED
    BY <1>3, <1>6, <1>7

LEMMA EngineBegins ==
  /\ EngineOK(EngineInit) /\ ~CLOSED(EngineInit) /\ EngineInit.hs = 1
  /\ EngineInit.in = << >> /\ EngineInit.out = << >> /\ EngineInit.rec.data = << >>
  <1> DEFINE e == [iomode |-> "INOUT", head |-> FALSE, in |-> << >>, out |-> << >>,
                   rec |-> NoRecord, hs |-> 1]
  <1>1. << >> \in Seq(Nat) /\ 1 \in 1..CLOSING /\ FALSE \in BOOLEAN
    BY Steps
  <1>2. Empty(e)
    BY <1>1, Steps DEF Empty, Engines
  <1>3. EngineInit = Handshake(e, 1)
    BY DEF EngineInit
  <1> HIDE DEF e
  <1>4. QED
    BY <1>2, <1>3, HandshakeStep

\* An engine that fails keeps what it holds.
LEMMA EngineFails ==
  ASSUME NEW e, EngineOK(e)
  PROVE  LET f == br_ssl_engine_fail(e) IN
         /\ EngineOK(f) /\ CLOSED(f)
         /\ f.hs = e.hs /\ f.in = e.in /\ f.out = e.out /\ f.rec = e.rec
  <1> DEFINE f == br_ssl_engine_fail(e)
  <1>1. /\ f \in Engines /\ f.iomode = "FAILED" /\ f.head = e.head
        /\ f.hs = e.hs /\ f.in = e.in /\ f.out = e.out /\ f.rec = e.rec
    BY DEF br_ssl_engine_fail, EngineOK, Engines
  <1> HIDE DEF f
  <1>2. SharedBuffer(f) /\ RecordOut(f) /\ CLOSED(f)
    BY <1>1 DEF EngineOK, SharedBuffer, RecordOut, CLOSED
  <1>3. QED
    BY <1>1, <1>2 DEF EngineOK, f

\* The payload an engine has gathered, in the record that is out and behind it.
Gathered(e) == e.rec.data \o e.out

\* What flush closes is what was gathered.
LEMMA EngineFlushes ==
  ASSUME NEW e, EngineOK(e)
  PROVE  LET f == br_ssl_engine_flush(e) IN
         /\ EngineOK(f) /\ Gathered(f) = Gathered(e)
         /\ f.hs = e.hs /\ f.in = e.in /\ f.head = e.head /\ f.iomode = e.iomode
  <1> DEFINE f == br_ssl_engine_flush(e)
             closes == ~(CLOSED(e) \/ e.hs # OPEN \/ e.rec # NoRecord \/ e.out = << >>)
  <1>1. CASE ~closes
    BY <1>1 DEF br_ssl_engine_flush
  <1>2. CASE closes
    <2>1. e.iomode = "OUT" /\ e.hs = OPEN /\ e.rec = NoRecord /\ e.out # << >>
      BY <1>2 DEF EngineOK, Engines, SharedBuffer, CLOSED
    <2>2. f = [e EXCEPT !.rec = Data(e.out), !.out = << >>]
      BY <1>2 DEF br_ssl_engine_flush
    <2>3. Data(e.out) \in Records
      BY DEF Data, Records, RecordTypes, EngineOK, Engines
    <2>4. << >> \in Seq(Nat)
      OBVIOUS
    <2>5. /\ f \in Engines /\ f.iomode = "OUT" /\ f.head = e.head /\ f.in = e.in
          /\ f.hs = OPEN /\ f.rec = Data(e.out) /\ f.out = << >>
      BY <2>1, <2>2, <2>3, <2>4 DEF EngineOK, Engines
    <2> HIDE DEF f
    <2>6. Data(e.out).type = "data" /\ Data(e.out).data = e.out /\ NoRecord.data = << >>
      BY DEF Data, NoRecord
    <2>7. Len(f.out) < OutRoom
      BY <2>5, OutRoomAssumption
    <2>8. SharedBuffer(f) /\ RecordOut(f)
      BY <2>1, <2>5, <2>6, <2>7 DEF EngineOK, SharedBuffer, RecordOut
    <2>9. Gathered(f) = Gathered(e)
      BY <2>1, <2>5, <2>6, ConcatEmptySeq DEF Gathered, EngineOK, Engines
    <2>10. QED
      BY <2>1, <2>5, <2>8, <2>9 DEF EngineOK, f
  <1>3. QED
    BY <1>1, <1>2

\* Payload reported to the engine joins what was gathered.
LEMMA EngineTakesPayload ==
  ASSUME NEW e, EngineOK(e), SENDAPP(e), NEW d \in Seq(Nat)
  PROVE  LET f == br_ssl_engine_sendapp_ack(e, d) IN
         /\ EngineOK(f) /\ Gathered(f) = Gathered(e) \o d
         /\ f.hs = OPEN /\ f.in = << >> /\ ~CLOSED(f) /\ ~CLOSED(e)
  <1> DEFINE g == [TakeOutput(e) EXCEPT !.out = @ \o d]
             h == [g EXCEPT !.rec = Data(g.out), !.out = << >>]
             f == br_ssl_engine_sendapp_ack(e, d)
  <1>1. /\ e \in Engines /\ e.iomode \in {"OUT", "INOUT"} /\ e.rec = NoRecord /\ e.hs = OPEN
        /\ e.in = << >> /\ ~e.head
    BY DEF SENDAPP, EngineOK, SharedBuffer
  <1>2. e.out \o d \in Seq(Nat)
    BY <1>1 DEF Engines
  <1>3. /\ g \in Engines /\ g.iomode = "OUT" /\ ~g.head /\ g.in = << >> /\ g.hs = OPEN
        /\ g.rec = NoRecord /\ g.out = e.out \o d
    BY <1>1, <1>2 DEF TakeOutput, Engines
  <1>4. f = IF Len(g.out) >= OutRoom THEN br_ssl_engine_flush(g) ELSE g
    BY DEF br_ssl_engine_sendapp_ack
  <1>5. Gathered(e) = e.out
    <2>1. NoRecord.data = << >>
      BY DEF NoRecord
    <2>2. QED
      BY <1>1, <2>1, ConcatEmptySeq DEF Gathered, Engines
  <1> HIDE DEF g
  <1>6. Data(g.out) \in Records /\ Data(g.out).type = "data" /\ Data(g.out).data = g.out
    BY <1>3 DEF Data, Records, RecordTypes, Engines
  <1>7. /\ h \in Engines /\ h.iomode = "OUT" /\ ~h.head /\ h.in = << >> /\ h.hs = OPEN
        /\ h.rec = Data(g.out) /\ h.out = << >>
    BY <1>3, <1>6, EmptySeq DEF Engines
  <1>8. 0 < OutRoom /\ OutRoom \in Nat /\ Len(g.out) \in Nat
    BY <1>3, OutRoomAssumption DEF Engines
  <1>9. CASE Len(g.out) >= OutRoom
    <2>1. g.out # << >>
      BY <1>3, <1>8, <1>9
    <2>2. f = h
      BY <1>3, <1>4, <1>9, <2>1 DEF br_ssl_engine_flush, CLOSED
    <2> HIDE DEF h, f
    <2>3. EngineOK(h)
      BY <1>6, <1>7, <1>8 DEF EngineOK, SharedBuffer, RecordOut, CLOSED
    <2>4. Gathered(h) = e.out \o d
      BY <1>3, <1>6, <1>7, ConcatEmptySeq DEF Gathered, Engines
    <2>5. QED
      BY <1>1, <1>5, <1>7, <2>2, <2>3, <2>4 DEF f, CLOSED
  <1>10. CASE Len(g.out) < OutRoom
    <2>1. f = g
      BY <1>4, <1>8, <1>10
    <2> HIDE DEF f
    <2>2. NoRecord.data = << >> /\ NoRecord.type = "none"
      BY DEF NoRecord
    <2>3. EngineOK(g)
      BY <1>3, <1>10, <2>2 DEF EngineOK, SharedBuffer, RecordOut, CLOSED
    <2>4. Gathered(g) = e.out \o d
      BY <1>3, <2>2, ConcatEmptySeq DEF Gathered, Engines
    <2>5. QED
      BY <1>1, <1>3, <1>5, <2>1, <2>3, <2>4 DEF f, CLOSED
  <1>11. QED
    BY <1>8, <1>9, <1>10

\* A record that was sent makes room; one of the engine's own takes the handshake on, or
\* ends the connection.
LEMMA EngineHasSent ==
  ASSUME NEW e, EngineOK(e), SENDREC(e)
  PROVE  LET f == br_ssl_engine_sendrec_ack(e) IN
         /\ EngineOK(f) /\ f.in = << >> /\ f.out = << >> /\ f.rec.data = << >>
         /\ e.out = << >> /\ ~CLOSED(e) /\ e.in = << >>
         /\ e.hs = OPEN => f.hs = OPEN /\ ~CLOSED(f)
         /\ ~CLOSED(f) => e.hs <= OPEN
  <1> DEFINE g == make_ready_out(e)
             f == br_ssl_engine_sendrec_ack(e)
  <1>1. /\ e \in Engines /\ e.iomode = "OUT" /\ e.rec # NoRecord /\ e.out = << >>
        /\ e.in = << >> /\ ~e.head
    BY DEF SENDREC, EngineOK, SharedBuffer, RecordOut
  <1>2. Empty(g) /\ g.hs = e.hs
    BY <1>1, Steps, EmptySeq DEF make_ready_out, Empty, Engines
  <1>3. NoRecord.data = << >> /\ NoRecord.type = "none"
    BY DEF NoRecord
  <1>4. f = IF e.rec.type = "data" THEN g
            ELSE IF e.hs = CLOSING THEN br_ssl_engine_fail(g)
            ELSE Handshake(g, StepAfter(g.hs))
    BY DEF br_ssl_engine_sendrec_ack
  <1> HIDE DEF g
  <1>5. EngineOK(g) /\ ~CLOSED(g)
    BY <1>2, <1>3, OutRoomAssumption DEF EngineOK, Empty, SharedBuffer, RecordOut, CLOSED
  <1>6. e.rec.type = "data" => e.hs = OPEN
    BY <1>1 DEF EngineOK, RecordOut, CLOSED
  <1>7. e.hs = OPEN => e.rec.type = "data"
    BY <1>1 DEF EngineOK, RecordOut
  <1>8. e.hs \in 1..8
    BY <1>1, Steps DEF Engines
  <1>9. CASE e.rec.type = "data"
    <2>1. f = g
      BY <1>4, <1>9
    <2> HIDE DEF f
    <2>2. QED
      BY <1>1, <1>2, <1>3, <1>5, <1>6, <1>9, <2>1, Steps DEF f, Empty, CLOSED
  <1>10. CASE e.rec.type # "data" /\ e.hs = CLOSING
    <2>1. f = br_ssl_engine_fail(g)
      BY <1>4, <1>10
    <2> HIDE DEF f
    <2>2. EngineOK(f) /\ CLOSED(f) /\ f.in = << >> /\ f.out = << >> /\ f.rec = NoRecord
      BY <1>2, <1>5, <2>1, EngineFails DEF Empty
    <2>3. QED
      BY <1>1, <1>3, <1>10, <2>2, Steps DEF f, CLOSED
  <1>11. CASE e.rec.type # "data" /\ e.hs # CLOSING
    <2>1. f = Handshake(g, StepAfter(g.hs))
      BY <1>4, <1>11
    <2> HIDE DEF f
    <2>2. e.hs \in 1..6
      BY <1>7, <1>8, <1>11, Steps
    <2>3. StepAfter(g.hs) \in 1..7
      BY <1>2, <2>2, Steps
    <2>4. /\ EngineOK(f) /\ ~CLOSED(f) /\ f.hs \in 1..7
          /\ f.in = << >> /\ f.out = << >> /\ f.rec.data = << >>
      BY <1>2, <2>1, <2>3, HandshakeStep
    <2>5. QED
      BY <1>1, <2>2, <2>4, Steps DEF f, CLOSED
  <1>12. QED
    BY <1>9, <1>10, <1>11

\* Reading over an empty payload leaves it empty.
LEMMA NothingClobbered == Clobbered(<< >>) = << >>
  <1>1. DOMAIN << >> = {}
    OBVIOUS
  <1>2. Clobbered(<< >>) = [i \in {} |-> 0]
    BY <1>1 DEF Clobbered
  <1>3. << >> = [i \in {} |-> 0]
    OBVIOUS
  <1>4. QED
    BY <1>2, <1>3

\* The header of a record is read only into a buffer that holds nothing to be sent.
LEMMA EngineReadsHeader ==
  ASSUME NEW e, EngineOK(e), RECVREC(e), NEW r
  PROVE  LET f == recvrec_ack_header(e, r) IN
         /\ EngineOK(f) /\ f.hs = e.hs
         /\ f.in = << >> /\ f.out = << >> /\ f.rec.data = << >>
         /\ e.in = << >> /\ e.out = << >> /\ e.rec.data = << >> /\ ~CLOSED(e)
  <1> DEFINE g == [TakeInput(e) EXCEPT !.head = TRUE, !.out = Clobbered(@)]
             f == recvrec_ack_header(e, r)
  <1>1. /\ e \in Engines /\ e.iomode \in {"IN", "INOUT"} /\ e.in = << >>
        /\ e.out = << >> /\ e.rec = NoRecord
    BY DEF RECVREC, EngineOK, SharedBuffer
  <1>2. Clobbered(e.out) = << >> /\ TRUE \in BOOLEAN
    BY <1>1, NothingClobbered
  <1>3. TakeInput(e).out = e.out
    BY <1>1 DEF TakeInput, Engines
  <1>4. /\ g \in Engines /\ g.iomode = "IN" /\ g.in = << >> /\ g.hs = e.hs
        /\ g.rec = NoRecord /\ g.out = << >>
    BY <1>1, <1>2, <1>3, EmptySeq DEF TakeInput, Engines
  <1>5. f = IF r = BROKEN THEN br_ssl_engine_fail(g) ELSE g
    BY DEF recvrec_ack_header
  <1> HIDE DEF g, f
  <1>6. NoRecord.data = << >> /\ NoRecord.type = "none"
    BY DEF NoRecord
  <1>7. EngineOK(g)
    BY <1>4, <1>6, OutRoomAssumption DEF EngineOK, SharedBuffer, RecordOut
  <1>8. EngineOK(f) /\ f.hs = e.hs /\ f.in = << >> /\ f.out = << >> /\ f.rec = NoRecord
    BY <1>4, <1>5, <1>7, EngineFails
  <1>9. QED
    BY <1>1, <1>6, <1>8 DEF f, CLOSED

\* The rest of a record: payload is kept for the user only while the connection is open.
LEMMA EngineReadsBody ==
  ASSUME NEW e, EngineOK(e), RECVREC(e), NEW r \in Records
  PROVE  LET f == recvrec_ack_body(e, r) IN
         /\ EngineOK(f) /\ f.out = << >> /\ f.rec.data = << >>
         /\ e.in = << >> /\ e.out = << >> /\ e.rec.data = << >> /\ ~CLOSED(e)
         /\ ~CLOSED(f) /\ f.hs = OPEN =>
              IF e.hs = OPEN THEN r.type = "data" /\ f.in = r.data ELSE f.in = << >>
         /\ ~CLOSED(f) /\ f.hs < OPEN => e.hs < OPEN
         /\ ~CLOSED(f) /\ f.hs # OPEN => f.in = << >>
         /\ f.in \in {<< >>, r.data}
  <1> DEFINE g == [TakeInput(e) EXCEPT !.in = r.data, !.out = Clobbered(@)]
             h == make_ready_in(g)
             f == recvrec_ack_body(e, r)
  <1>1. /\ e \in Engines /\ e.iomode \in {"IN", "INOUT"} /\ e.in = << >>
        /\ e.out = << >> /\ e.rec = NoRecord /\ e.hs # CLOSING
    BY DEF RECVREC, EngineOK, SharedBuffer
  <1>2. Clobbered(e.out) = << >> /\ r.data \in Seq(Nat) /\ << >> \in Seq(Nat)
    BY <1>1, NothingClobbered DEF Records
  <1>3. TakeInput(e).out = e.out
    BY <1>1 DEF TakeInput, Engines
  <1>4. /\ g \in Engines /\ g.iomode = "IN" /\ g.in = r.data /\ g.hs = e.hs
        /\ g.rec = NoRecord /\ g.out = << >>
    BY <1>1, <1>2, <1>3 DEF TakeInput, Engines
  <1>5. f = IF r.type = "data" /\ e.hs = OPEN THEN (IF r.data = << >> THEN h ELSE g)
            ELSE IF r.type = "handshake" /\ e.hs < OPEN THEN Handshake(h, StepAfter(e.hs))
            ELSE IF r.type = "resumes" /\ e.hs = 2 THEN Handshake(h, RESUMED)
            ELSE IF r.type = "alert" THEN WriteOwn([h EXCEPT !.hs = CLOSING], CLOSE_NOTIFY)
            ELSE br_ssl_engine_fail(g)
    BY DEF recvrec_ack_body
  <1> HIDE DEF g
  <1>6. Empty(h) /\ h.hs = e.hs
    BY <1>2, <1>4 DEF make_ready_in, Empty, Engines
  <1> HIDE DEF h, f
  <1>7. NoRecord.data = << >> /\ NoRecord.type = "none"
    BY DEF NoRecord
  <1>8. EngineOK(g)
    BY <1>4, <1>7, OutRoomAssumption DEF EngineOK, SharedBuffer, RecordOut
  <1>9. EngineOK(h)
    BY <1>6, <1>7, OutRoomAssumption DEF EngineOK, Empty, SharedBuffer, RecordOut
  <1>10. e.hs \in 1..7
    BY <1>1, Steps DEF Engines
  <1>11. /\ e.in = << >> /\ e.out = << >> /\ e.rec.data = << >> /\ ~CLOSED(e)
    BY <1>1, <1>7 DEF CLOSED
  <1>12. CASE r.type = "data" /\ e.hs = OPEN
    BY <1>4, <1>5, <1>6, <1>7, <1>8, <1>9, <1>11, <1>12 DEF f, Empty
  <1>13. CASE r.type = "handshake" /\ e.hs < OPEN
    <2>1. f = Handshake(h, StepAfter(e.hs))
      BY <1>5, <1>13
    <2>2. StepAfter(e.hs) \in 1..7
      BY <1>10, <1>13, Steps
    <2>3. EngineOK(f) /\ f.in = << >> /\ f.out = << >> /\ f.rec.data = << >>
      BY <1>6, <2>1, <2>2, HandshakeStep
    <2>4. QED
      BY <1>10, <1>11, <1>13, <2>3, Steps DEF f
  <1>14. CASE r.type = "resumes" /\ e.hs = 2
    <2>1. f = Handshake(h, 6)
      BY <1>5, <1>14, Steps
    <2>2. EngineOK(f) /\ f.in = << >> /\ f.out = << >> /\ f.rec.data = << >>
      BY <1>6, <2>1, HandshakeStep
    <2>3. QED
      BY <1>11, <1>14, <2>2, Steps DEF f
  <1>15. CASE r.type = "alert"
    <2> DEFINE k == [h EXCEPT !.hs = CLOSING]
    <2>1. f = WriteOwn(k, CLOSE_NOTIFY)
      BY <1>5, <1>15
    <2>2. Empty(k) /\ k.hs = CLOSING
      BY <1>6, Steps DEF Empty, Engines
    <2> HIDE DEF k
    <2>3. /\ f \in Engines /\ f.iomode = "OUT" /\ ~f.head /\ f.in = << >> /\ f.out = << >>
          /\ f.rec = CLOSE_NOTIFY /\ f.hs = CLOSING
      BY <2>1, <2>2, Steps DEF Empty, WriteOwn, TakeOutput, Engines
    <2>4. CLOSE_NOTIFY.data = << >> /\ CLOSE_NOTIFY.type = "alert"
      BY DEF CLOSE_NOTIFY
    <2>5. EngineOK(f)
      BY <2>3, <2>4, Steps, OutRoomAssumption DEF EngineOK, SharedBuffer, RecordOut
    <2>6. QED
      BY <1>11, <2>3, <2>4, <2>5, Steps DEF f
  <1>16. CASE f = br_ssl_engine_fail(g)
    <2>1. EngineOK(f) /\ CLOSED(f) /\ f.out = << >> /\ f.rec = NoRecord /\ f.in = r.data
      BY <1>4, <1>8, <1>16, EngineFails
    <2>2. QED
      BY <1>7, <1>11, <2>1 DEF f
  <1>17. QED
    BY <1>5, <1>12, <1>13, <1>14, <1>15, <1>16

\* Payload is taken from the front, and nothing else changes.
LEMMA EngineGivesPayload ==
  ASSUME NEW e, EngineOK(e), RECVAPP(e), NEW n \in 0..Len(e.in)
  PROVE  LET f == br_ssl_engine_recvapp_ack(e, n) IN
         /\ EngineOK(f) /\ f.in = SubSeq(e.in, n + 1, Len(e.in))
         /\ f.hs = OPEN /\ e.hs = OPEN /\ ~CLOSED(f) /\ ~CLOSED(e)
         /\ f.out = << >> /\ f.rec = NoRecord /\ e.out = << >> /\ e.rec = NoRecord
  <1> DEFINE s == SubSeq(e.in, n + 1, Len(e.in))
             g == [e EXCEPT !.in = s]
             h == make_ready_in(g)
             f == br_ssl_engine_recvapp_ack(e, n)
  <1>1. /\ e \in Engines /\ e.iomode = "IN" /\ e.in # << >> /\ e.hs = OPEN
        /\ e.out = << >> /\ e.rec = NoRecord
    BY DEF RECVAPP, EngineOK, SharedBuffer
  <1>2. s \in Seq(Nat)
    <2>1. e.in \in Seq(Nat)
      BY <1>1 DEF Engines
    <2>2. \A i \in n + 1 .. Len(e.in) : e.in[i] \in Nat
      BY <2>1
    <2>3. QED
      BY <2>1, <2>2, SubSeqProperties
  <1>3. f = IF g.in = << >> THEN h ELSE g
    BY DEF br_ssl_engine_recvapp_ack
  <1> HIDE DEF s
  <1>4. /\ g \in Engines /\ g.iomode = "IN" /\ g.in = s /\ g.hs = OPEN
        /\ g.rec = NoRecord /\ g.out = << >>
    BY <1>1, <1>2 DEF Engines
  <1> HIDE DEF g
  <1>5. Empty(h) /\ h.hs = OPEN
    BY <1>4, EmptySeq DEF make_ready_in, Empty, Engines
  <1> HIDE DEF h, f
  <1>6. NoRecord.data = << >> /\ NoRecord.type = "none"
    BY DEF NoRecord
  <1>7. EngineOK(g) /\ ~CLOSED(g)
    BY <1>4, <1>6, OutRoomAssumption DEF EngineOK, SharedBuffer, RecordOut, CLOSED
  <1>8. EngineOK(h) /\ ~CLOSED(h)
    BY <1>5, <1>6, OutRoomAssumption DEF EngineOK, Empty, SharedBuffer, RecordOut, CLOSED
  <1>9. /\ EngineOK(f) /\ ~CLOSED(f) /\ f.in = s /\ f.hs = OPEN
        /\ f.out = << >> /\ f.rec = NoRecord
    BY <1>3, <1>4, <1>5, <1>7, <1>8 DEF Empty
  <1>10. QED
    BY <1>1, <1>9 DEF f, s, CLOSED

\* stop discards what was not read, and leaves the outgoing record alone.
LEMMA EngineDiscards ==
  ASSUME NEW e, EngineOK(e)
  PROVE  LET f == DiscardIncoming(e) IN
         /\ EngineOK(f) /\ f.hs = e.hs /\ f.out = e.out /\ f.rec = e.rec
         /\ CLOSED(f) <=> CLOSED(e)
         /\ SENDAPP(e) => f = e
         /\ f.in = e.in \/ (f.in = << >> /\ f.hs = OPEN /\ ~CLOSED(f))
  <1>1. CASE RECVAPP(e)
    <2>1. e.in \in Seq(Nat) /\ ~SENDAPP(e)
      BY <1>1 DEF EngineOK, Engines, SharedBuffer, SENDAPP, RECVAPP
    <2>2. Len(e.in) \in 0..Len(e.in) /\ SubSeq(e.in, Len(e.in) + 1, Len(e.in)) = << >>
      BY <2>1, SubSeqEmpty
    <2>3. DiscardIncoming(e) = br_ssl_engine_recvapp_ack(e, Len(e.in))
      BY <1>1 DEF DiscardIncoming
    <2>4. QED
      BY <1>1, <2>1, <2>2, <2>3, EngineGivesPayload
  <1>2. CASE ~RECVAPP(e)
    BY <1>2 DEF DiscardIncoming
  <1>3. QED
    BY <1>1, <1>2

\* available pushes out what was gathered, and loses nothing.
LEMMA EnginePushes ==
  ASSUME NEW e, EngineOK(e)
  PROVE  LET f == Push(e) IN
         /\ EngineOK(f) /\ Gathered(f) = Gathered(e)
         /\ f.hs = e.hs /\ f.in = e.in /\ f.head = e.head /\ f.iomode = e.iomode
  BY EngineFlushes DEF Push

-----------------------------------------------------------------------------
(* Numbered bytes *)

LEMMA IntsSeq ==
  ASSUME NEW a \in Nat, NEW n \in Nat
  PROVE  /\ Ints(a, n) \in Seq(Nat) /\ Len(Ints(a, n)) = n
         /\ \A i \in 1..n : Ints(a, n)[i] = a + i
  <1>1. Ints(a, n) = [i \in 1..n |-> a + i]
    BY DEF Ints
  <1>2. Ints(a, n) \in [1..n -> Nat]
    BY <1>1
  <1>3. Ints(a, n) \in Seq(Nat)
    BY <1>2, SeqDef
  <1>4. QED
    BY <1>1, <1>3

\* Sequences of numbers are equal when they are long as each other and agree everywhere.
LEMMA IntsIs ==
  ASSUME NEW a \in Nat, NEW n \in Nat, NEW s \in Seq(Nat), Len(s) = n,
         \A i \in 1..n : s[i] = a + i
  PROVE  s = Ints(a, n)
  <1>1. /\ Ints(a, n) \in Seq(Nat) /\ Len(Ints(a, n)) = n
        /\ \A i \in 1..n : Ints(a, n)[i] = a + i
    BY IntsSeq
  <1>2. Len(s) = Len(Ints(a, n)) /\ \A i \in 1..Len(s) : s[i] = Ints(a, n)[i]
    BY <1>1
  <1>3. QED
    BY <1>1, <1>2, SeqEqual

LEMMA IntsConcat ==
  ASSUME NEW a \in Nat, NEW n \in Nat, NEW m \in Nat
  PROVE  Ints(a, n) \o Ints(a + n, m) = Ints(a, n + m)
  <1> DEFINE s == Ints(a, n)
             t == Ints(a + n, m)
  <1>1. /\ s \in Seq(Nat) /\ Len(s) = n /\ \A i \in 1..n : s[i] = a + i
        /\ t \in Seq(Nat) /\ Len(t) = m /\ \A i \in 1..m : t[i] = (a + n) + i
    <2>1. s \in Seq(Nat) /\ Len(s) = n /\ \A i \in 1..n : s[i] = a + i
      BY IntsSeq
    <2>2. a + n \in Nat
      OBVIOUS
    <2>3. t \in Seq(Nat) /\ Len(t) = m /\ \A i \in 1..m : t[i] = (a + n) + i
      BY <2>2, IntsSeq
    <2>4. QED
      BY <2>1, <2>3
  <1> HIDE DEF s, t
  <1>2. /\ s \o t \in Seq(Nat) /\ Len(s \o t) = n + m
        /\ \A i \in 1..n + m : (s \o t)[i] = IF i <= n THEN s[i] ELSE t[i - n]
    BY <1>1, ConcatProperties
  <1>3. \A i \in 1..n + m : (s \o t)[i] = a + i
    BY <1>1, <1>2
  <1>4. s \o t = Ints(a, n + m)
    <2>1. n + m \in Nat
      OBVIOUS
    <2>2. QED
      BY <1>2, <1>3, <2>1, IntsIs
  <1>5. QED
    BY <1>4 DEF s, t

LEMMA IntsSplit ==
  ASSUME NEW a \in Nat, NEW n \in Nat, NEW k \in 0..n
  PROVE  /\ SubSeq(Ints(a, n), 1, k) = Ints(a, k)
         /\ SubSeq(Ints(a, n), k + 1, n) = Ints(a + k, n - k)
  <1> DEFINE s == Ints(a, n)
  <1>1. s \in Seq(Nat) /\ Len(s) = n /\ \A i \in 1..n : s[i] = a + i
    BY IntsSeq
  <1> HIDE DEF s
  <1>2. \A i \in 1..n : s[i] \in Nat
    BY <1>1
  <1>3. SubSeq(s, 1, k) = Ints(a, k)
    <2>1. /\ SubSeq(s, 1, k) \in Seq(Nat) /\ Len(SubSeq(s, 1, k)) = k
          /\ \A i \in 1..k : SubSeq(s, 1, k)[i] = s[i]
      BY <1>2, SubSeqProperties
    <2>2. k \in Nat /\ \A i \in 1..k : SubSeq(s, 1, k)[i] = a + i
      BY <1>1, <2>1
    <2>3. QED
      BY <2>1, <2>2, IntsIs
  <1>4. SubSeq(s, k + 1, n) = Ints(a + k, n - k)
    <2>1. /\ SubSeq(s, k + 1, n) \in Seq(Nat) /\ Len(SubSeq(s, k + 1, n)) = n - k
          /\ \A i \in 1..n - k : SubSeq(s, k + 1, n)[i] = s[k + i]
      <3>1. k + 1 \in Int /\ n \in Int /\ \A i \in k + 1..n : s[i] \in Nat
        BY <1>2
      <3>2. /\ SubSeq(s, k + 1, n) \in Seq(Nat)
            /\ Len(SubSeq(s, k + 1, n)) = IF k + 1 <= n THEN n - (k + 1) + 1 ELSE 0
            /\ \A i \in 1..n - (k + 1) + 1 : SubSeq(s, k + 1, n)[i] = s[k + 1 + i - 1]
        BY <3>1, SubSeqProperties
      <3>3. QED
        BY <3>2
    <2>2. \A i \in 1..n - k : SubSeq(s, k + 1, n)[i] = (a + k) + i
      BY <1>1, <2>1
    <2>3. a + k \in Nat /\ n - k \in Nat
      OBVIOUS
    <2>4. QED
      BY <2>1, <2>2, <2>3, IntsIs
  <1>5. QED
    BY <1>3, <1>4 DEF s

LEMMA NoInts ==
  ASSUME NEW a \in Nat
  PROVE  Ints(a, 0) = << >>
  <1>1. Ints(a, 0) \in Seq(Nat) /\ Len(Ints(a, 0)) = 0
    BY IntsSeq
  <1>2. QED
    BY <1>1, EmptySeq

\* A beginning of the numbers from 1 is the numbers from 1, and the other way round.
LEMMA IntsBeginning ==
  ASSUME NEW s \in Seq(Nat), NEW t \in Seq(Nat), NEW w \in Nat, s \o t = Ints(0, w)
  PROVE  s = Ints(0, Len(s)) /\ Len(s) <= w
  <1>1. Len(Ints(0, w)) = w /\ \A i \in 1..w : Ints(0, w)[i] = 0 + i
    BY IntsSeq
  <1>2. /\ Len(s) \in Nat /\ Len(t) \in Nat /\ Len(s) + Len(t) = w
        /\ \A i \in 1..w : Ints(0, w)[i] = IF i <= Len(s) THEN s[i] ELSE t[i - Len(s)]
    <2>1. Len(s) \in Nat /\ Len(t) \in Nat
      BY LenProperties
    <2>2. /\ Len(s \o t) = Len(s) + Len(t)
          /\ \A i \in 1..Len(s) + Len(t) :
               (s \o t)[i] = IF i <= Len(s) THEN s[i] ELSE t[i - Len(s)]
      BY ConcatProperties
    <2> HIDE DEF Ints
    <2>3. QED
      BY <1>1, <2>1, <2>2
  <1>3. \A i \in 1..Len(s) : s[i] = 0 + i
    <2> SUFFICES ASSUME NEW i \in 1..Len(s)
                 PROVE  s[i] = 0 + i
      OBVIOUS
    <2>1. i \in 1..w /\ i <= Len(s)
      BY <1>2
    <2>2. QED
      BY <1>1, <1>2, <2>1
  <1>4. s = Ints(0, Len(s))
    BY <1>2, <1>3, IntsIs
  <1>5. QED
    BY <1>2, <1>4

LEMMA IntsPrefix ==
  ASSUME NEW n \in Nat, NEW w \in Nat, n <= w
  PROVE  IsPrefix(Ints(0, n), Ints(0, w))
  <1>1. SubSeq(Ints(0, n), 1, n) = Ints(0, n) /\ SubSeq(Ints(0, w), 1, n) = Ints(0, n)
    BY IntsSplit
  <1>2. QED
    BY <1>1, IntsSeq DEF IsPrefix

-----------------------------------------------------------------------------
(* The inductive invariant *)

Units == [part : {"header", "rest"}, rec : Records]

ClientTypes ==
  /\ pc \in {"idle", "update", "flush"} /\ op \in Calls /\ waited \in 0..Timeout
  /\ sock \in {"none", "ESTABLISHED", "CLOSE_WAIT", "CLOSED"}
  /\ wlen \in BOOLEAN /\ writeError \in BOOLEAN
  /\ written \in Nat /\ supplied \in Nat
  /\ rest \in Seq(Nat) /\ buffered \in Seq(Nat) /\ served \in Seq(Nat) /\ got \in Seq(Nat)
  /\ incoming \in Seq(Units)

\* What is copied behind the engine's back lies in a buffer the engine gives for output,
\* and m_update_engine waits in flush only with a record out.
BufferInv ==
  /\ EngineOK(eng)
  /\ Len(eng.out) + Len(buffered) < OutRoom
  /\ buffered # << >> => SENDAPP(eng)
  /\ pc = "flush" => SENDREC(eng)

\* The server has the first bytes written; the others are queued while the connection
\* lives.  A write error comes with the end of the socket.
QueueInv ==
  /\ rest = Ints(written, Len(rest))
  /\ served = Ints(0, Len(served)) /\ Len(served) <= written
  /\ Live => served \o Queued = Ints(0, written)
  /\ ~CLOSED(eng) /\ eng.hs < OPEN => served = << >> /\ written = 0
  /\ writeError => sock \in {"none", "CLOSED"}

TlsInv == ClientTypes /\ BufferInv /\ QueueInv

\* A beginning and an end of a sequence of numbers are sequences of numbers.
LEMMA Parts ==
  ASSUME NEW s \in Seq(Nat), NEW n \in 0..Len(s)
  PROVE  /\ SubSeq(s, 1, n) \in Seq(Nat) /\ Len(SubSeq(s, 1, n)) = n
         /\ SubSeq(s, n + 1, Len(s)) \in Seq(Nat)
         /\ Len(SubSeq(s, n + 1, Len(s))) = Len(s) - n
         /\ SubSeq(s, 1, n) \o SubSeq(s, n + 1, Len(s)) = s
  <1>1. /\ Len(s) \in Nat /\ n \in Int /\ n + 1 \in Int
        /\ \A i \in 1..n : s[i] \in Nat
        /\ \A i \in n + 1..Len(s) : s[i] \in Nat
    OBVIOUS
  <1>2. SubSeq(s, 1, n) \in Seq(Nat) /\ Len(SubSeq(s, 1, n)) = n
    BY <1>1, SubSeqProperties
  <1>3. /\ SubSeq(s, n + 1, Len(s)) \in Seq(Nat)
        /\ Len(SubSeq(s, n + 1, Len(s))) = Len(s) - n
    BY <1>1, SubSeqProperties
  <1>4. SubSeq(s, 1, n) \o SubSeq(s, n + 1, Len(s)) = SubSeq(s, 1, Len(s))
    <2>1. 1 \in 1..Len(s) + 1 /\ n \in 1 - 1..Len(s) /\ Len(s) \in n..Len(s)
      BY <1>1
    <2>2. QED
      BY <2>1, ConcatAdjacentSubSeq
  <1>5. QED
    BY <1>2, <1>3, <1>4, SubSeqFull

\* What is still to be written is numbered on from what is written, so a part of it is too.
LEMMA CopiedPart ==
  ASSUME TlsInv, NEW n \in 0..Len(rest)
  PROVE  /\ SubSeq(rest, 1, n) = Ints(written, n)
         /\ SubSeq(rest, n + 1, Len(rest)) = Ints(written + n, Len(rest) - n)
         /\ Ints(written, n) \in Seq(Nat) /\ Len(Ints(written, n)) = n
         /\ written + n \in Nat /\ Len(rest) - n \in Nat
  <1>1. written \in Nat /\ Len(rest) \in Nat /\ rest = Ints(written, Len(rest)) /\ n \in Nat
    BY DEF TlsInv, ClientTypes, QueueInv
  <1> DEFINE k == Len(rest)
  <1>2. k \in Nat /\ n \in 0..k
    BY <1>1
  <1>3. /\ SubSeq(Ints(written, k), 1, n) = Ints(written, n)
        /\ SubSeq(Ints(written, k), n + 1, k) = Ints(written + n, k - n)
    BY <1>1, <1>2, IntsSplit
  <1>4. Ints(written, n) \in Seq(Nat) /\ Len(Ints(written, n)) = n
    BY <1>1, IntsSeq
  <1>5. rest = Ints(written, k)
    BY <1>1
  <1> HIDE DEF k
  <1>6. /\ SubSeq(rest, 1, n) = Ints(written, n)
        /\ SubSeq(rest, n + 1, k) = Ints(written + n, k - n)
    BY <1>3, <1>5
  <1>7. written + n \in Nat /\ k - n \in Nat
    BY <1>1, <1>2
  <1>8. QED
    BY <1>4, <1>6, <1>7 DEF k

\* Units are put in the buffer of the socket.
LEMMA ArrivingUnits ==
  ASSUME NEW r \in Records, incoming \in Seq(Units), Arrives(r)
  PROVE  incoming' \in Seq(Units)
  <1>1. Header(r) \in Units /\ Rest(r) \in Units
    BY DEF Header, Rest, Units
  <1>2. <<Header(r), Rest(r)>> \in Seq(Units)
    BY <1>1
  <1>3. QED
    BY <1>2, ConcatProperties DEF Arrives

LEMMA UserTypes ==
  ASSUME TlsInv, User
  PROVE  ClientTypes'
  <1> USE DEF TlsInv, ClientTypes, Calls, Begin, SocketStops, callVars, sslVars, socketVars,
             serverVars, historyVars
  <1>0. 0 \in 0..Timeout /\ << >> \in Seq(Nat) /\ << >> \in Seq(Units)
    BY TlsAssumption
  <1>1. CASE Connect
    BY <1>0, <1>1 DEF Connect
  <1>2. CASE ConnectFails
    BY <1>0, <1>2 DEF ConnectFails
  <1>3. CASE \E n \in 1..MaxWritten : Write(n)
    <2>1. PICK n \in 1..MaxWritten : Write(n)
      BY <1>3
    <2>2. Ints(written, n) \in Seq(Nat)
      BY IntsSeq, TlsAssumption
    <2>3. QED
      BY <1>0, <2>1, <2>2 DEF Write
  <1>4. CASE Available \/ Read \/ Flush
    BY <1>0, <1>4 DEF Available, Read, Flush
  <1>5. CASE StopNow \/ StopFlushes \/ ConnectedCall
    <2>1. writeError' \in BOOLEAN
      BY <1>5, Zenon DEF StopNow, StopFlushes, ConnectedCall
    <2>2. QED
      BY <1>0, <1>5, <2>1 DEF StopNow, StopFlushes, ConnectedCall
  <1>6. QED
    BY <1>1, <1>2, <1>3, <1>4, <1>5 DEF User

LEMMA LoopTypes ==
  ASSUME TlsInv, Loop
  PROVE  ClientTypes'
  <1> USE DEF TlsInv, ClientTypes, Calls, Return, SocketStops, Fail, CallEnds, callVars,
             sslVars, socketVars, serverVars, historyVars
  <1>0. 0 \in 0..Timeout /\ << >> \in Seq(Nat) /\ << >> \in Seq(Units)
    BY TlsAssumption
  <1>1. CASE Transmit
    <2>1. eng.rec.data \in Seq(Nat)
      BY DEF BufferInv, EngineOK, Engines, Records
    <2>2. served \o eng.rec.data \in Seq(Nat)
      BY <2>1
    <2>3. served' \in Seq(Nat) /\ wlen' \in BOOLEAN
      <3>1. CASE sock \in {"ESTABLISHED", "CLOSE_WAIT"}
        BY <1>1, <2>2, <3>1 DEF Transmit
      <3>2. CASE sock \notin {"ESTABLISHED", "CLOSE_WAIT"}
        <4>1. (sock = "CLOSED") \in BOOLEAN
          OBVIOUS
        <4>2. wlen' = (sock = "CLOSED") /\ served' = served
          BY <1>1, <3>2, Zenon DEF Transmit
        <4>3. QED
          BY <4>1, <4>2
      <3>3. QED
        BY <3>1, <3>2
    <2>4. QED
      BY <1>1, <2>3 DEF Transmit
  <1>2. CASE FlushReturns \/ Seal \/ DiscardUnread \/ AvailableReturns
    BY <1>0, <1>2 DEF FlushReturns, Seal, DiscardUnread, AvailableReturns
  <1>3. CASE TransmitFailed \/ ReceiveFails \/ TimesOut
    BY <1>0, <1>3 DEF TransmitFailed, ReceiveFails, TimesOut
  <1>4. CASE Receive
    <2>1. buffered = << >> /\ incoming # << >>
      BY <1>4 DEF Receive, MayReceive
    <2>2. Clobbered(buffered) = << >> /\ Tail(incoming) \in Seq(Units)
      BY <2>1, NothingClobbered
    <2>3. QED
      BY <1>0, <1>4, <2>2 DEF Receive
  <1>5. CASE ReadReturns
    <2>1. got' \in Seq(Nat)
      <3>1. CASE RECVAPP(eng)
        <4>1. PICK n \in 1..Len(eng.in) : got' = got \o SubSeq(eng.in, 1, n)
          BY <1>5, <3>1 DEF ReadReturns
        <4>2. eng.in \in Seq(Nat)
          BY DEF BufferInv, EngineOK, Engines
        <4>3. n \in 0..Len(eng.in)
          BY <4>2
        <4>4. SubSeq(eng.in, 1, n) \in Seq(Nat)
          BY <4>2, <4>3, Parts
        <4>5. QED
          BY <4>1, <4>4
      <3>2. CASE ~RECVAPP(eng)
        BY <1>5, <3>2 DEF ReadReturns
      <3>3. QED
        BY <3>1, <3>2
    <2>2. QED
      BY <1>0, <1>5, <2>1 DEF ReadReturns
  <1>6. CASE EngineClosed \/ FlushEnds \/ ConnectReturns \/ WriteReturns
    BY <1>0, <1>6 DEF EngineClosed, FlushEnds, ConnectReturns, WriteReturns
  <1>7. CASE WaitTurn
    <2>1. waited' \in 0..Timeout
      BY <1>7, TlsAssumption DEF WaitTurn
    <2>2. QED
      BY <1>7, <2>1 DEF WaitTurn
  <1>8. CASE Copy
    <2> DEFINE room == sendapp_len(eng) - Len(buffered)
               n == IF Len(rest) < room THEN Len(rest) ELSE room
    <2>1. n \in 0..Len(rest)
      <3>1. Len(eng.out) \in Nat /\ Len(buffered) \in Nat /\ Len(rest) \in Nat
        BY DEF BufferInv, EngineOK, Engines
      <3>2. room \in Nat
        BY <3>1, OutRoomAssumption DEF BufferInv, sendapp_len
      <3>3. QED
        BY <3>1, <3>2
    <2> HIDE DEF n, room
    <2>2. /\ SubSeq(rest, 1, n) \in Seq(Nat) /\ SubSeq(rest, n + 1, Len(rest)) \in Seq(Nat)
          /\ written + n \in Nat
      BY <2>1, CopiedPart, Parts
    <2>3. buffered \o SubSeq(rest, 1, n) \in Seq(Nat)
      BY <2>2
    <2>4. /\ buffered' \in {<< >>, buffered \o SubSeq(rest, 1, n)}
          /\ rest' \in {<< >>, SubSeq(rest, n + 1, Len(rest))}
          /\ written' = written + n /\ waited' = 0 /\ op' = op /\ pc' \in {pc, "idle"}
      BY <1>8 DEF Copy, n, room
    <2>5. UNCHANGED <<m_is_connected, writeError, socketVars, serverVars, got, m_sessions>>
      BY <1>8 DEF Copy
    <2>6. QED
      BY <1>0, <2>2, <2>3, <2>4, <2>5
  <1>9. QED
    BY <1>1, <1>2, <1>3, <1>4, <1>5, <1>6, <1>7, <1>8 DEF Loop

LEMMA EnvironmentTypes ==
  ASSUME TlsInv, Environment
  PROVE  ClientTypes'
  <1> USE DEF TlsInv, ClientTypes, Calls, callVars, sslVars, socketVars, serverVars,
             historyVars
  <1>0. 0 \in 0..Timeout /\ << >> \in Seq(Nat) /\ << >> \in Seq(Units)
    BY TlsAssumption
  <1>1. CASE SendConfirmed \/ ServerFin \/ SocketDrops
    BY <1>1 DEF SendConfirmed, ServerFin, SocketDrops
  <1>2. CASE ServerHandshakes
    <2>1. HANDSHAKE \in Records /\ RESUMES \in Records
      BY <1>0, Steps DEF RESUMES, Records, RecordTypes
    <2>2. incoming' \in Seq(Units)
      BY <1>2, <2>1, ArrivingUnits DEF ServerHandshakes
    <2>3. QED
      BY <1>2, <2>2 DEF ServerHandshakes
  <1>3. CASE ServerBreaks \/ ServerCloses
    <2>1. BROKEN \in Records /\ CLOSE_NOTIFY \in Records
      BY <1>0, Steps DEF BROKEN, Records, RecordTypes
    <2>2. incoming' \in Seq(Units)
      BY <1>3, <2>1, ArrivingUnits DEF ServerBreaks, ServerCloses
    <2>3. QED
      BY <1>3, <2>2 DEF ServerBreaks, ServerCloses
  <1>4. CASE \E n \in 1..MaxSupplied : ServerSupplies(n)
    <2>1. PICK n \in 1..MaxSupplied : ServerSupplies(n)
      BY <1>4
    <2>2. Ints(supplied, n) \in Seq(Nat)
      BY IntsSeq, TlsAssumption
    <2>3. Data(Ints(supplied, n)) \in Records
      BY <2>2 DEF Data, Records, RecordTypes
    <2>4. incoming' \in Seq(Units)
      BY <2>1, <2>3, ArrivingUnits DEF ServerSupplies
    <2>5. supplied' \in Nat
      BY <2>1, TlsAssumption DEF ServerSupplies
    <2>6. QED
      BY <2>1, <2>4, <2>5 DEF ServerSupplies
  <1>5. CASE Restart
    BY <1>0, <1>5 DEF Restart
  <1>6. QED
    BY <1>1, <1>2, <1>3, <1>4, <1>5 DEF Environment

\* Nothing is buffered behind a closed engine, a record that is out or unread input.
LEMMA Unbuffered ==
  ASSUME TlsInv, CLOSED(eng) \/ RECVAPP(eng) \/ SENDREC(eng)
  PROVE  buffered = << >>
  BY DEF TlsInv, BufferInv, EngineOK, SharedBuffer, CLOSED, RECVAPP, SENDREC, SENDAPP

\* Away from flush, what is queued is what the engine gathered and what it was not told.
LEMMA QueuedIs == pc # "flush" => Queued = Gathered(eng) \o buffered
  BY DEF Queued, Gathered

\* The queue survives every step that leaves it alone or ends the connection.
LEMMA QueueKept ==
  ASSUME TlsInv, served' = served, written' = written, rest' \in {rest, << >>},
         Live' => Live /\ Queued' = Queued,
         ~CLOSED(eng') /\ eng'.hs < OPEN => ~CLOSED(eng) /\ eng.hs < OPEN,
         writeError' => sock' \in {"none", "CLOSED"}
  PROVE  QueueInv'
  <1>1. rest' = Ints(written, Len(rest'))
    <2>1. CASE rest' = << >>
      <3>1. written \in Nat /\ Len(<< >>) = 0
        BY DEF TlsInv, ClientTypes
      <3>2. << >> = Ints(written, 0)
        BY <3>1, NoInts
      <3>3. QED
        BY <2>1, <3>1, <3>2
    <2>2. CASE rest' = rest
      BY <2>2 DEF TlsInv, QueueInv
    <2>3. QED
      BY <2>1, <2>2
  <1>2. QED
    BY <1>1 DEF TlsInv, QueueInv

\* The types of what the queue is made of.
LEMMA QueueTypes ==
  ASSUME TlsInv
  PROVE  /\ served \in Seq(Nat) /\ buffered \in Seq(Nat) /\ rest \in Seq(Nat)
         /\ written \in Nat
         /\ eng.rec.data \in Seq(Nat) /\ eng.out \in Seq(Nat) /\ eng.in \in Seq(Nat)
         /\ Gathered(eng) \in Seq(Nat) /\ Queued \in Seq(Nat)
  <1>1. /\ served \in Seq(Nat) /\ buffered \in Seq(Nat) /\ rest \in Seq(Nat)
        /\ written \in Nat
        /\ eng.rec.data \in Seq(Nat) /\ eng.out \in Seq(Nat) /\ eng.in \in Seq(Nat)
    BY DEF TlsInv, ClientTypes, BufferInv, EngineOK, Engines, Records
  <1>2. Gathered(eng) \in Seq(Nat)
    BY <1>1 DEF Gathered
  <1>3. (IF pc = "flush" /\ wlen THEN << >> ELSE eng.rec.data) \in Seq(Nat)
    BY <1>1
  <1>4. Queued \in Seq(Nat)
    BY <1>1, <1>3 DEF Queued
  <1>5. QED
    BY <1>1, <1>2, <1>4

\* Steps that leave the engine and what was copied alone: the socket may go down, a call
\* may begin or end.
LEMMA EngineAlone ==
  ASSUME TlsInv, UNCHANGED <<eng, buffered, served, written>>, rest' \in {rest, << >>},
         (pc' = pc /\ wlen' = wlen) \/ (pc # "flush" /\ pc' # "flush"),
         \/ sock' = sock
         \/ sock' \in {"none", "CLOSED"}
         \/ sock = "ESTABLISHED" /\ sock' = "CLOSE_WAIT",
         writeError' = writeError \/ sock' \in {"none", "CLOSED"}
  PROVE  BufferInv' /\ QueueInv'
  <1>1. BufferInv'
    BY DEF TlsInv, BufferInv
  <1>2. Queued' = Queued
    <2>1. CASE pc' = pc /\ wlen' = wlen
      BY <2>1 DEF Queued
    <2>2. CASE pc # "flush" /\ pc' # "flush"
      BY <2>2 DEF Queued
    <2>3. QED
      BY <2>1, <2>2
  <1>3. writeError' => sock' \in {"none", "CLOSED"}
    BY DEF TlsInv, QueueInv
  <1>4. Live' => Live
    <2>1. Live' => writeError' = writeError
      BY DEF Live
    <2>2. Live' => sock \in {"ESTABLISHED", "CLOSE_WAIT"}
      BY DEF Live
    <2>3. QED
      BY <2>1, <2>2 DEF Live
  <1>5. QED
    BY <1>1, <1>2, <1>3, <1>4, QueueKept

LEMMA EnvironmentQueue ==
  ASSUME TlsInv, Environment
  PROVE  BufferInv' /\ QueueInv'
  <1> USE DEF callVars, sslVars, socketVars, serverVars, historyVars
  <1>1. CASE SendConfirmed \/ ServerFin \/ SocketDrops
    BY <1>1, EngineAlone DEF SendConfirmed, ServerFin, SocketDrops
  <1>2. CASE \/ ServerHandshakes \/ ServerBreaks \/ ServerCloses
             \/ \E n \in 1..MaxSupplied : ServerSupplies(n)
    <2>1. /\ UNCHANGED <<eng, buffered, served, written, rest, pc, wlen, sock, writeError>>
      BY <1>2 DEF ServerHandshakes, ServerBreaks, ServerCloses, ServerSupplies
    <2>2. QED
      BY <2>1, EngineAlone
  <1>3. CASE Restart
    <2>1. /\ eng' = br_ssl_engine_fail(EngineInit) /\ buffered' = << >> /\ pc' = "idle"
          /\ served' = served /\ written' = written /\ rest' = << >>
          /\ sock' = "none" /\ writeError' = FALSE
      BY <1>3 DEF Restart
    <2>2. EngineOK(eng') /\ CLOSED(eng') /\ eng'.out = << >>
      BY <2>1, EngineBegins, EngineFails
    <2>3. BufferInv'
      BY <2>1, <2>2, OutRoomAssumption DEF BufferInv
    <2>4. ~Live'
      BY <2>1 DEF Live
    <2>5. QED
      BY <2>1, <2>2, <2>3, <2>4, QueueKept
  <1>4. QED
    BY <1>1, <1>2, <1>3 DEF Environment

LEMMA UserQueue ==
  ASSUME TlsInv, User
  PROVE  BufferInv' /\ QueueInv'
  <1> USE DEF callVars, sslVars, socketVars, serverVars, historyVars, Begin, SocketStops
  <1>1. CASE Connect
    <2>1. /\ eng' = EngineInit /\ buffered' = << >> /\ pc' = "update" /\ rest' = << >>
          /\ served' = << >> /\ written' = 0 /\ writeError' = FALSE
      BY <1>1 DEF Connect
    <2>2. EngineOK(eng') /\ eng'.out = << >> /\ eng'.hs = 1
      BY <2>1, EngineBegins
    <2>3. BufferInv'
      BY <2>1, <2>2, OutRoomAssumption DEF BufferInv
    <2>4. << >> = Ints(0, 0) /\ Len(<< >>) = 0
      BY NoInts
    <2>5. ~Live'
      BY <2>2, Steps DEF Live
    <2>6. QED
      BY <2>1, <2>3, <2>4, <2>5 DEF QueueInv
  <1>2. CASE ConnectFails
    <2>1. /\ UNCHANGED <<eng, pc, served, written, rest>> /\ buffered' = << >>
          /\ sock' \in {"none", "CLOSED"}
      BY <1>2 DEF ConnectFails
    <2>2. pc = "idle"
      BY <1>2 DEF ConnectFails
    <2>3. BufferInv'
      <3>1. Len(eng.out) \in Nat /\ Len(buffered) \in Nat
        BY QueueTypes
      <3>2. QED
        BY <2>1, <2>2, <3>1 DEF TlsInv, BufferInv, EngineOK, RecordOut
    <2>4. ~Live'
      BY <2>1 DEF Live
    <2>5. QED
      BY <2>1, <2>3, <2>4, QueueKept
  <1>3. CASE \E n \in 1..MaxWritten : Write(n)
    <2>1. PICK n \in 1..MaxWritten : Write(n)
      BY <1>3
    <2>2. /\ UNCHANGED <<eng, buffered, served, written, sock, writeError>>
          /\ pc = "idle" /\ pc' = "update" /\ rest' = Ints(written, n)
      BY <2>1 DEF Write
    <2>3. BufferInv'
      BY <2>2 DEF TlsInv, BufferInv
    <2>4. Queued' = Queued /\ Live' = Live
      BY <2>2 DEF Queued, Live
    <2>5. rest' = Ints(written, Len(rest'))
      <3>1. n \in Nat /\ written \in Nat
        BY QueueTypes, TlsAssumption
      <3>2. Len(Ints(written, n)) = n
        BY <3>1, IntsSeq
      <3>3. QED
        BY <2>2, <3>2
    <2>6. QED
      BY <2>2, <2>3, <2>4, <2>5 DEF TlsInv, QueueInv
  <1>4. CASE Available \/ Read \/ Flush \/ ConnectedCall
    <2>1. /\ UNCHANGED <<eng, buffered, served, written>> /\ rest' \in {rest, << >>}
          /\ pc # "flush" /\ pc' # "flush"
          /\ sock' = sock \/ sock' = "none"
          /\ writeError' = writeError \/ sock' = "none"
      BY <1>4 DEF Available, Read, Flush, ConnectedCall
    <2>2. QED
      BY <2>1, EngineAlone
  <1>5. CASE StopNow \/ StopFlushes
    <2>1. /\ eng' \in {eng, DiscardIncoming(eng)} /\ pc = "idle" /\ pc' \in {"idle", "update"}
          /\ UNCHANGED <<buffered, served, written>> /\ rest' \in {rest, << >>}
          /\ (sock' = sock /\ writeError' = writeError) \/ sock' = "none"
      BY <1>5 DEF StopNow, StopFlushes
    <2>2. EngineOK(eng)
      BY DEF TlsInv, BufferInv
    <2>3. /\ EngineOK(eng') /\ eng'.hs = eng.hs /\ eng'.out = eng.out /\ eng'.rec = eng.rec
          /\ CLOSED(eng') <=> CLOSED(eng)
          /\ SENDAPP(eng) => eng' = eng
      BY <2>1, <2>2, EngineDiscards
    <2>4. BufferInv'
      BY <2>1, <2>3 DEF TlsInv, BufferInv
    <2>5. Queued' = Queued
      BY <2>1, <2>3 DEF Queued
    <2>6. Live' => Live
      BY <2>1, <2>3 DEF Live
    <2>7. writeError' => sock' \in {"none", "CLOSED"}
      BY <2>1 DEF TlsInv, QueueInv
    <2>8. QED
      BY <2>1, <2>3, <2>4, <2>5, <2>6, <2>7, QueueKept
  <1>6. QED
    BY <1>1, <1>2, <1>3, <1>4, <1>5 DEF User

\* The error branches leave the queue alone and drop the socket.
LEMMA FailQueue ==
  ASSUME TlsInv, Fail, UNCHANGED <<served, written>>
  PROVE  BufferInv' /\ QueueInv'
  <1>1. /\ eng' \in {eng, DiscardIncoming(eng)} /\ pc' = "idle"
        /\ buffered' = buffered /\ rest' = << >> /\ sock' = "none"
    BY DEF Fail, SocketStops, Return
  <1>2. EngineOK(eng)
    BY DEF TlsInv, BufferInv
  <1>3. /\ EngineOK(eng') /\ eng'.hs = eng.hs /\ eng'.out = eng.out
        /\ CLOSED(eng') <=> CLOSED(eng)
        /\ SENDAPP(eng) => eng' = eng
    BY <1>1, <1>2, EngineDiscards
  <1>4. BufferInv'
    BY <1>1, <1>3 DEF TlsInv, BufferInv
  <1>5. ~Live'
    BY <1>1 DEF Live
  <1>6. QED
    BY <1>1, <1>3, <1>4, <1>5, QueueKept

\* Steps that only move what the engine gathered into a record.
LEMMA PushQueue ==
  ASSUME TlsInv, eng' \in {eng, Push(eng), br_ssl_engine_flush(eng)}, pc = "update",
         pc' # "flush", UNCHANGED <<buffered, served, written, sock, writeError>>,
         CLOSED(eng) \/ buffered = << >>, rest' \in {rest, << >>}
  PROVE  BufferInv' /\ QueueInv'
  <1>1. EngineOK(eng)
    BY DEF TlsInv, BufferInv
  <1>2. /\ EngineOK(eng') /\ Gathered(eng') = Gathered(eng)
        /\ eng'.hs = eng.hs /\ eng'.iomode = eng.iomode
    BY <1>1, EngineFlushes, EnginePushes
  <1>3. buffered = << >>
    BY Unbuffered
  <1>4. BufferInv'
    <2>1. Len(eng'.out) < OutRoom /\ Len(eng'.out) \in Nat
      BY <1>2 DEF EngineOK, RecordOut, Engines
    <2>2. QED
      BY <1>2, <1>3, <2>1, OutRoomAssumption DEF BufferInv
  <1>5. Queued = Gathered(eng) \o buffered /\ Queued' = Gathered(eng') \o buffered'
    BY DEF Queued, Gathered
  <1>6. Live' = Live
    BY <1>2 DEF Live, CLOSED
  <1>7. QED
    BY <1>2, <1>4, <1>5, <1>6, QueueKept DEF TlsInv, QueueInv, CLOSED

\* Unread input is taken or discarded: nothing to be sent stands behind it.
LEMMA TakeQueue ==
  ASSUME TlsInv, RECVAPP(eng), NEW n \in 0..Len(eng.in),
         eng' = br_ssl_engine_recvapp_ack(eng, n), pc = "update", pc' # "flush",
         UNCHANGED <<served, written, sock, writeError>>,
         buffered' \in {buffered, << >>}, rest' \in {rest, << >>}
  PROVE  BufferInv' /\ QueueInv'
  <1>1. EngineOK(eng) /\ buffered = << >> /\ buffered' = << >>
    BY Unbuffered DEF TlsInv, BufferInv
  <1>2. /\ EngineOK(eng') /\ eng'.hs = eng.hs /\ ~CLOSED(eng') /\ ~CLOSED(eng)
        /\ eng'.out = << >> /\ eng.out = << >> /\ eng'.rec = eng.rec
    BY <1>1, EngineGivesPayload
  <1>3. BufferInv'
    BY <1>1, <1>2, OutRoomAssumption DEF BufferInv
  <1>4. Queued' = Queued /\ Live' = Live
    BY <1>1, <1>2 DEF Queued, Live
  <1>5. QED
    BY <1>2, <1>3, <1>4, QueueKept DEF TlsInv, QueueInv

\* A record goes to the server: it leaves the queue as it gets there.
LEMMA TransmitQueue ==
  ASSUME TlsInv, Transmit
  PROVE  BufferInv' /\ QueueInv'
  <1>1. /\ pc = "update" /\ pc' = "flush" /\ SENDREC(eng) /\ ~CLOSED(eng)
        /\ UNCHANGED <<rest, eng, buffered, sock, writeError, written>>
        /\ IF sock \in {"ESTABLISHED", "CLOSE_WAIT"}
           THEN IF sending
                THEN wlen' = FALSE /\ UNCHANGED served
                ELSE wlen' = TRUE /\ served' = served \o eng.rec.data
           ELSE UNCHANGED served
    BY DEF Transmit, Updating, sslVars, historyVars
  <1>2. BufferInv'
    BY <1>1 DEF TlsInv, BufferInv
  <1>3. Live' = Live
    BY <1>1 DEF Live
  <1>4. Queued = eng.rec.data \o eng.out \o buffered
    BY <1>1 DEF Queued
  <1>5. CASE served' = served /\ (Live => wlen' = FALSE)
    <2>1. Live => Queued' = Queued
      BY <1>1, <1>5 DEF Queued
    <2>2. QED
      BY <1>1, <1>2, <1>3, <1>5, <2>1, QueueKept DEF TlsInv, QueueInv
  <1>6. CASE wlen' = TRUE /\ served' = served \o eng.rec.data
    <2>t. /\ served \in Seq(Nat) /\ eng.rec.data \in Seq(Nat) /\ eng.out \in Seq(Nat)
          /\ buffered \in Seq(Nat) /\ written \in Nat
      BY QueueTypes
    <2>1. CASE eng.hs # OPEN
      <3>1. eng.rec.data = << >>
        BY <1>1, <2>1 DEF TlsInv, BufferInv, EngineOK, RecordOut
      <3>2. served' = served
        BY <1>6, <2>t, <3>1, ConcatEmptySeq
      <3>3. ~Live
        BY <2>1 DEF Live
      <3>4. QED
        BY <1>1, <1>2, <1>3, <3>2, <3>3, QueueKept DEF TlsInv, QueueInv
    <2>2. CASE eng.hs = OPEN /\ ~Live
      <3>1. sock \notin {"ESTABLISHED", "CLOSE_WAIT"}
        BY <1>1, <2>2 DEF Live, TlsInv, QueueInv
      <3>2. served' = served
        BY <1>1, <3>1
      <3>3. QED
        BY <1>1, <1>2, <1>3, <2>2, <3>2, QueueKept DEF TlsInv, QueueInv
    <2>3. CASE Live
      <3>1. Queued' = << >> \o eng.out \o buffered
        BY <1>1, <1>6 DEF Queued
      <3>2. Queued' = eng.out \o buffered /\ eng.out \o buffered \in Seq(Nat)
        BY <2>t, <3>1, ConcatEmptySeq
      <3>3. Queued = eng.rec.data \o (eng.out \o buffered)
        <4>1. Groups(eng.rec.data, eng.out, buffered)
          BY <2>t, Grouped
        <4>2. QED
          BY <1>4, <4>1, Zenon DEF Groups
      <3>4. served' \o Queued' = served \o Queued
        <4> DEFINE q == eng.out \o buffered
        <4>1. Queued' = q /\ q \in Seq(Nat) /\ Queued = eng.rec.data \o q
          BY <3>2, <3>3
        <4> HIDE DEF q
        <4>2. (served \o eng.rec.data) \o q = served \o (eng.rec.data \o q)
          <5>1. Groups(served, eng.rec.data, q)
            BY <2>t, <4>1, Grouped
          <5>2. QED
            BY <5>1, Zenon DEF Groups
        <4>3. QED
          BY <1>6, <4>1, <4>2
      <3>5. served' \o Queued' = Ints(0, written)
        BY <2>3, <3>4 DEF TlsInv, QueueInv
      <3>6. served' \in Seq(Nat)
        BY <1>6, <2>t
      <3>7. served' = Ints(0, Len(served')) /\ Len(served') <= written
        BY <2>t, <3>2, <3>5, <3>6, IntsBeginning
      <3>8. eng.hs = OPEN
        BY <2>3 DEF Live
      <3>9. QED
        BY <1>1, <1>2, <3>5, <3>7, <3>8, Steps DEF TlsInv, QueueInv
    <2>4. QED
      BY <2>1, <2>2, <2>3
  <1>7. CASE sock \notin {"ESTABLISHED", "CLOSE_WAIT"}
    <2>1. ~Live
      BY <1>7 DEF Live
    <2>2. QED
      BY <1>1, <1>5, <1>7, <2>1
  <1>8. QED
    BY <1>1, <1>5, <1>6, <1>7

\* With nothing queued before or after, the handshake may have come to its end.
LEMMA EmptyQueue ==
  ASSUME TlsInv, Queued = << >>, Queued' = << >>,
         UNCHANGED <<rest, sock, writeError, served, written>>,
         ~CLOSED(eng), ~CLOSED(eng') => eng.hs <= OPEN,
         ~CLOSED(eng') /\ eng'.hs < OPEN => eng.hs < OPEN
  PROVE  QueueInv'
  <1>1. CASE ~CLOSED(eng') /\ eng.hs < OPEN
    <2>1. served = << >> /\ written = 0
      BY <1>1 DEF TlsInv, QueueInv
    <2>2. << >> \o << >> = Ints(0, 0)
      BY NoInts, EmptySeq, ConcatEmptySeq
    <2>3. QED
      BY <2>1, <2>2 DEF TlsInv, QueueInv
  <1>2. CASE ~(~CLOSED(eng') /\ eng.hs < OPEN)
    <2>1. ~CLOSED(eng') => eng.hs = OPEN
      <3>1. eng.hs \in 1..8
        BY Steps DEF TlsInv, BufferInv, EngineOK, Engines
      <3>2. QED
        BY <1>2, <3>1, Steps
    <2>2. Live' => Live
      BY <2>1 DEF Live
    <2>3. QED
      BY <1>2, <2>2, QueueKept DEF TlsInv, QueueInv
  <1>3. QED
    BY <1>1, <1>2

LEMMA NothingThrice == << >> \o << >> \o << >> = << >>
  <1>1. << >> \o << >> = << >>
    BY EmptySeq, ConcatEmptySeq
  <1>2. QED
    BY <1>1

\* The record that was sent leaves the engine.
LEMMA FlushQueue ==
  ASSUME TlsInv, FlushReturns
  PROVE  BufferInv' /\ QueueInv'
  <1>1. /\ pc = "flush" /\ pc' = "update" /\ wlen
        /\ eng' = br_ssl_engine_sendrec_ack(eng)
        /\ UNCHANGED <<rest, buffered, sock, writeError, served, written>>
    BY DEF FlushReturns, Sent, socketVars, serverVars, historyVars
  <1>2. EngineOK(eng) /\ SENDREC(eng) /\ buffered = << >>
    BY <1>1, Unbuffered DEF TlsInv, BufferInv
  <1>3. /\ EngineOK(eng') /\ eng'.out = << >> /\ eng'.rec.data = << >>
        /\ eng.out = << >> /\ ~CLOSED(eng)
        /\ eng.hs = OPEN => eng'.hs = OPEN /\ ~CLOSED(eng')
        /\ ~CLOSED(eng') => eng.hs <= OPEN
    BY <1>1, <1>2, EngineHasSent
  <1>4. BufferInv'
    BY <1>1, <1>2, <1>3, OutRoomAssumption DEF BufferInv
  <1>5. Queued' = << >> /\ Queued = << >>
    <2>1. Queued' = << >> \o << >> \o << >> /\ Queued = << >> \o << >> \o << >>
      BY <1>1, <1>2, <1>3 DEF Queued
    <2>2. QED
      BY <2>1, NothingThrice
  <1>6. ~CLOSED(eng') /\ eng'.hs < OPEN => eng.hs < OPEN
    <2>1. eng.hs \in 1..8
      BY <1>2, Steps DEF EngineOK, Engines
    <2>2. QED
      BY <1>3, <2>1, Steps
  <1>7. QED
    BY <1>1, <1>3, <1>4, <1>5, <1>6, EmptyQueue

\* A unit of a record comes in: only where nothing waits to be sent.
LEMMA ReceiveQueue ==
  ASSUME TlsInv, Receive
  PROVE  BufferInv' /\ QueueInv'
  <1>1. /\ pc = "update" /\ pc' = "update" /\ buffered = << >> /\ RECVREC(eng)
        /\ incoming # << >> /\ buffered' = Clobbered(buffered)
        /\ UNCHANGED <<rest, sock, writeError, served, written>>
    BY DEF Receive, MayReceive, Updating, callVars, serverVars, historyVars
  <1>2. buffered' = << >> /\ EngineOK(eng)
    BY <1>1, NothingClobbered DEF TlsInv, BufferInv
  <1>3. Head(incoming) \in Units
    BY <1>1 DEF TlsInv, ClientTypes
  <1>4. Head(incoming).rec \in Records
    BY <1>3 DEF Units
  <1>5. \/ eng' = recvrec_ack_header(eng, Head(incoming).rec)
        \/ eng' = recvrec_ack_body(eng, Head(incoming).rec)
    BY DEF Receive
  <1>6. eng.hs \in 1..7
    BY <1>1, <1>2, Steps DEF EngineOK, Engines, RECVREC
  <1>7. /\ EngineOK(eng') /\ eng'.out = << >> /\ eng'.rec.data = << >>
        /\ eng.out = << >> /\ eng.rec.data = << >> /\ ~CLOSED(eng)
        /\ ~CLOSED(eng') /\ eng'.hs < OPEN => eng.hs < OPEN
    BY <1>1, <1>2, <1>4, <1>5, EngineReadsHeader, EngineReadsBody
  <1>8. BufferInv'
    BY <1>1, <1>2, <1>7, OutRoomAssumption DEF BufferInv
  <1>9. Queued' = << >> /\ Queued = << >>
    <2>1. Queued' = << >> \o << >> \o << >> /\ Queued = << >> \o << >> \o << >>
      BY <1>1, <1>2, <1>7 DEF Queued
    <2>2. QED
      BY <2>1, NothingThrice
  <1>10. eng.hs <= OPEN
    BY <1>6, Steps
  <1>11. QED
    BY <1>1, <1>7, <1>8, <1>9, <1>10, EmptyQueue

\* Payload is reported to the engine: what was buffered before, or was just copied.
LEMMA ReportQueue ==
  ASSUME TlsInv, SENDAPP(eng), pc = "update", NEW d \in Seq(Nat),
         eng' = br_ssl_engine_sendapp_ack(eng, buffered \o d), buffered' = << >>,
         UNCHANGED <<pc, sock, writeError, served>>,
         NEW n \in Nat, written' = written + n, d = Ints(written, n),
         rest' = Ints(written', Len(rest')), rest' \in Seq(Nat)
  PROVE  BufferInv' /\ QueueInv'
  <1>t. /\ served \in Seq(Nat) /\ buffered \in Seq(Nat) /\ written \in Nat
        /\ Gathered(eng) \in Seq(Nat) /\ Queued \in Seq(Nat) /\ d \in Seq(Nat)
    BY QueueTypes
  <1>1. EngineOK(eng) /\ buffered \o d \in Seq(Nat)
    BY <1>t DEF TlsInv, BufferInv
  <1>2. /\ EngineOK(eng') /\ Gathered(eng') = Gathered(eng) \o (buffered \o d)
        /\ eng'.hs = OPEN /\ ~CLOSED(eng') /\ ~CLOSED(eng)
    BY <1>1, EngineTakesPayload
  <1>3. BufferInv'
    <2>1. Len(eng'.out) \in Nat /\ Len(eng'.out) < OutRoom
      BY <1>2 DEF EngineOK, Engines, RecordOut
    <2>2. QED
      BY <1>2, <2>1, OutRoomAssumption DEF BufferInv
  <1>4. Queued' = Queued \o d
    <2>1. Gathered(eng') \in Seq(Nat)
      BY <1>2 DEF EngineOK, Engines, Records, Gathered
    <2>2. Queued = Gathered(eng) \o buffered
      BY QueuedIs
    <2>3. Queued' = Gathered(eng') \o << >>
      BY DEF Queued, Gathered
    <2>4. Queued' = Gathered(eng')
      BY <2>1, <2>3, ConcatEmptySeq
    <2>5. (Gathered(eng) \o buffered) \o d = Gathered(eng) \o (buffered \o d)
      <3>1. Groups(Gathered(eng), buffered, d)
        BY <1>t, Grouped
      <3>2. QED
        BY <3>1, Zenon DEF Groups
    <2>6. QED
      BY <1>2, <2>2, <2>4, <2>5
  <1>5. eng.hs = OPEN
    BY DEF SENDAPP
  <1>6. Live' = Live
    BY <1>2, <1>5 DEF Live
  <1>7. Live => served \o Queued' = Ints(0, written')
    <2> HAVE Live
    <2>1. served \o Queued = Ints(0, written)
      BY DEF TlsInv, QueueInv
    <2>2. (served \o Queued) \o d = served \o (Queued \o d)
      <3>1. Groups(served, Queued, d)
        BY <1>t, Grouped
      <3>2. QED
        BY <3>1, Zenon DEF Groups
    <2>3. Ints(0, written) \o Ints(0 + written, n) = Ints(0, written + n)
      BY <1>t, IntsConcat
    <2>4. 0 + written = written
      BY <1>t
    <2>5. QED
      BY <1>4, <2>1, <2>2, <2>3, <2>4
  <1>8. served = Ints(0, Len(served)) /\ Len(served) <= written'
    BY <1>t DEF TlsInv, QueueInv
  <1>9. QED
    BY <1>2, <1>3, <1>6, <1>7, <1>8, Steps DEF TlsInv, QueueInv

LEMMA SealQueue ==
  ASSUME TlsInv, Seal
  PROVE  BufferInv' /\ QueueInv'
  <1>1. /\ pc = "update" /\ SENDAPP(eng)
        /\ eng' = br_ssl_engine_sendapp_ack(eng, buffered) /\ buffered' = << >>
        /\ UNCHANGED <<rest, pc, sock, writeError, served, written>>
    BY DEF Seal, Updating, callVars, socketVars, serverVars, historyVars
  <1>2. << >> \in Seq(Nat) /\ buffered \o << >> = buffered /\ written \in Nat
    BY QueueTypes, ConcatEmptySeq
  <1>3. << >> = Ints(written, 0)
    BY <1>2, NoInts
  <1>4. written' = written + 0
    BY <1>1, <1>2
  <1>5. rest' = Ints(written', Len(rest')) /\ rest' \in Seq(Nat)
    BY <1>1, QueueTypes DEF TlsInv, QueueInv
  <1>6. QED
    BY <1>1, <1>2, <1>3, <1>4, <1>5, ReportQueue

LEMMA Room ==
  \A a, b, n, r \in Nat : n < r - a - b => a + (b + n) < r
  OBVIOUS

\* write copies on behind what is buffered: reported at once when the record is full, left
\* to the next turn when it is not.
LEMMA CopyQueue ==
  ASSUME TlsInv, Copy
  PROVE  BufferInv' /\ QueueInv'
  <1> DEFINE room == sendapp_len(eng) - Len(buffered)
             n == IF Len(rest) < room THEN Len(rest) ELSE room
             d == SubSeq(rest, 1, n)
  <1>t. /\ served \in Seq(Nat) /\ buffered \in Seq(Nat) /\ written \in Nat
        /\ Gathered(eng) \in Seq(Nat) /\ Queued \in Seq(Nat)
    BY QueueTypes
  <1>1. /\ pc = "update" /\ SENDAPP(eng) /\ ~CLOSED(eng) /\ buffered = << >>
        /\ op = "write"
    BY DEF Copy, MayGoOn, Quiet, Reached, ForSend, ForRecv
  <1>2. /\ Len(eng.out) \in Nat /\ Len(buffered) \in Nat /\ Len(rest) \in Nat
        /\ room \in Nat /\ n \in 0..Len(rest) /\ n <= room
        /\ room = OutRoom - Len(eng.out) - Len(buffered)
    <2>1. Len(eng.out) \in Nat /\ Len(buffered) \in Nat /\ Len(rest) \in Nat
      BY QueueTypes
    <2>2. room \in Nat /\ room = OutRoom - Len(eng.out) - Len(buffered)
      BY <2>1, OutRoomAssumption DEF TlsInv, BufferInv, sendapp_len
    <2>3. QED
      BY <2>1, <2>2
  <1>3. /\ UNCHANGED <<sock, writeError, served>>
        /\ eng' = IF n = room THEN br_ssl_engine_sendapp_ack(eng, buffered \o d) ELSE eng
        /\ buffered' = IF n = room THEN << >> ELSE buffered \o d
        /\ written' = written + n
        /\ IF n = room THEN rest' = SubSeq(rest, n + 1, Len(rest)) /\ pc' = pc
                       ELSE rest' = << >> /\ pc' = "idle"
    BY DEF Copy, Return, socketVars, serverVars
  <1> HIDE DEF n, room
  <1>4. /\ d = Ints(written, n) /\ d \in Seq(Nat) /\ Len(d) = n /\ n \in Nat
        /\ SubSeq(rest, n + 1, Len(rest)) = Ints(written + n, Len(rest) - n)
        /\ Len(rest) - n \in Nat /\ written + n \in Nat
    <2>1. n \in 0..Len(rest) /\ n \in Nat
      BY <1>2
    <2>2. QED
      BY <2>1, CopiedPart
  <1> HIDE DEF d
  <1>5. CASE n = room
    <2>1. rest' = Ints(written', Len(rest) - n)
      BY <1>3, <1>4, <1>5
    <2>2. rest' \in Seq(Nat) /\ Len(rest') = Len(rest) - n
      BY <1>3, <1>4, <2>1, IntsSeq
    <2>3. rest' = Ints(written', Len(rest'))
      BY <2>1, <2>2
    <2>4. QED
      BY <1>1, <1>3, <1>4, <1>5, <2>2, <2>3, ReportQueue
  <1>6. CASE n # room
    <2>1. Len(buffered \o d) = Len(buffered) + n /\ buffered \o d \in Seq(Nat)
      BY <1>t, <1>4, ConcatProperties
    <2>2. BufferInv'
      <3>1. Len(eng.out) + Len(buffered \o d) < OutRoom
        <4>1. /\ Len(eng.out) \in Nat /\ Len(buffered) \in Nat /\ n \in Nat /\ n < room
              /\ Len(eng.out) + Len(buffered) < OutRoom
          BY <1>2, <1>4, <1>6 DEF TlsInv, BufferInv
        <4>2. n < OutRoom - Len(eng.out) - Len(buffered) /\ OutRoom \in Nat
          BY <1>2, <4>1, OutRoomAssumption
        <4>3. Len(eng.out) + (Len(buffered) + n) < OutRoom
          BY <4>1, <4>2, Room
        <4>4. QED
          BY <2>1, <4>3
      <3>2. QED
        BY <1>1, <1>3, <1>6, <3>1 DEF TlsInv, BufferInv
    <2>3. Queued' = Queued \o d
      <3>1. Queued = Gathered(eng) \o buffered
        BY <1>1, QueuedIs
      <3>2. Queued' = Gathered(eng) \o (buffered \o d)
        BY <1>3, <1>6 DEF Queued, Gathered
      <3>3. QED
        <4>1. Groups(Gathered(eng), buffered, d)
          BY <1>t, <1>4, Grouped
        <4>2. QED
          BY <3>1, <3>2, <4>1, Zenon DEF Groups
    <2>4. Live' = Live
      BY <1>3, <1>6 DEF Live
    <2>5. Live => served \o Queued' = Ints(0, written')
      <3> HAVE Live
      <3>1. served \o Queued = Ints(0, written)
        BY DEF TlsInv, QueueInv
      <3>2. (served \o Queued) \o d = served \o (Queued \o d)
        <4>1. Groups(served, Queued, d)
          BY <1>t, <1>4, Grouped
        <4>2. QED
          BY <4>1, Zenon DEF Groups
      <3>3. Ints(0, written) \o Ints(0 + written, n) = Ints(0, written + n)
        BY <1>t, <1>4, IntsConcat
      <3>4. 0 + written = written
        BY <1>t
      <3>5. QED
        BY <1>3, <1>4, <2>3, <3>1, <3>2, <3>3, <3>4
    <2>6. rest' = << >> /\ << >> = Ints(written', 0) /\ Len(<< >>) = 0
      BY <1>3, <1>4, <1>6, NoInts
    <2>7. served = Ints(0, Len(served)) /\ Len(served) <= written'
      <3>1. Len(served) \in Nat
        BY <1>t
      <3>2. QED
        BY <1>t, <1>3, <1>4, <3>1 DEF TlsInv, QueueInv
    <2>8. eng'.hs = OPEN
      BY <1>1, <1>3, <1>6 DEF SENDAPP
    <2>9. QED
      BY <1>3, <1>6, <2>2, <2>4, <2>5, <2>6, <2>7, <2>8, Steps DEF TlsInv, QueueInv
  <1>7. QED
    BY <1>5, <1>6

LEMMA LoopQueue ==
  ASSUME TlsInv, Loop
  PROVE  BufferInv' /\ QueueInv'
  <1> USE DEF callVars, sslVars, socketVars, serverVars, historyVars
  <1>1. CASE Transmit \/ FlushReturns \/ Seal \/ Receive \/ Copy
    BY <1>1, TransmitQueue, FlushQueue, SealQueue, ReceiveQueue, CopyQueue
  <1>2. CASE TransmitFailed \/ ReceiveFails \/ TimesOut
    BY <1>2, FailQueue DEF TransmitFailed, ReceiveFails, TimesOut
  <1>3. CASE EngineClosed \/ FlushEnds \/ ConnectReturns \/ WriteReturns
    <2>1. /\ UNCHANGED <<eng, buffered, served, written>> /\ rest' = << >>
          /\ pc # "flush" /\ pc' # "flush"
          /\ sock' = sock \/ sock' = "none"
          /\ writeError' = writeError
      BY <1>3 DEF EngineClosed, FlushEnds, ConnectReturns, WriteReturns, CallEnds, Return,
                  SocketStops, MayGoOn, Quiet
    <2>2. QED
      BY <2>1, EngineAlone
  <1>4. CASE AvailableReturns
    BY <1>4, PushQueue DEF AvailableReturns, Quiet, Return
  <1>5. CASE WaitTurn
    <2>1. /\ pc = "update" /\ pc' = pc /\ rest' = rest /\ (CLOSED(eng) \/ buffered = << >>)
          /\ UNCHANGED <<buffered, served, written, sock, writeError>>
          /\ eng' \in {eng, br_ssl_engine_flush(eng)}
      BY <1>5 DEF WaitTurn, MayGoOn, Quiet
    <2>2. QED
      BY <2>1, PushQueue
  <1>6. CASE DiscardUnread
    <2>1. eng.in \in Seq(Nat)
      BY QueueTypes
    <2>2. Len(eng.in) \in 0..Len(eng.in)
      BY <2>1
    <2>3. QED
      BY <1>6, <2>2, TakeQueue DEF DiscardUnread, MayGoOn, Quiet
  <1>7. CASE ReadReturns /\ RECVAPP(eng)
    <2>1. PICK n \in 1..Len(eng.in) : eng' = br_ssl_engine_recvapp_ack(eng, n)
      BY <1>7 DEF ReadReturns, ReadAck
    <2>2. n \in 0..Len(eng.in)
      BY QueueTypes
    <2>3. QED
      BY <1>7, <2>1, <2>2, TakeQueue DEF ReadReturns, Quiet, Return
  <1>8. CASE ReadReturns /\ ~RECVAPP(eng)
    BY <1>8, PushQueue DEF ReadReturns, Quiet, Return
  <1>9. QED
    BY <1>1, <1>2, <1>3, <1>4, <1>5, <1>6, <1>7, <1>8 DEF Loop

LEMMA TlsInvInit == TlsInit => TlsInv
  <1> SUFFICES ASSUME TlsInit PROVE TlsInv
    OBVIOUS
  <1>1. << >> \in Seq(Nat) /\ << >> \in Seq(Units) /\ 0 \in 0..Timeout /\ Len(<< >>) = 0
    BY TlsAssumption
  <1>2. ClientTypes
    BY <1>1 DEF TlsInit, ClientTypes, Calls
  <1>3. EngineOK(eng) /\ CLOSED(eng) /\ eng.out = << >>
    BY EngineBegins, EngineFails DEF TlsInit
  <1>4. BufferInv
    BY <1>1, <1>3, OutRoomAssumption DEF TlsInit, BufferInv
  <1>5. << >> = Ints(0, 0)
    BY NoInts
  <1>6. QueueInv
    BY <1>1, <1>3, <1>5 DEF TlsInit, QueueInv, Live
  <1>7. QED
    BY <1>2, <1>4, <1>6 DEF TlsInv

LEMMA TlsInvStep == TlsInv /\ [TlsNext]_tlsVars => TlsInv'
  <1> SUFFICES ASSUME TlsInv, [TlsNext]_tlsVars PROVE TlsInv'
    OBVIOUS
  <1>1. CASE UNCHANGED tlsVars
    BY <1>1 DEF tlsVars, callVars, sslVars, socketVars, serverVars, historyVars, TlsInv,
                ClientTypes, BufferInv, QueueInv, Live, Queued
  <1>2. CASE User
    BY <1>2, UserTypes, UserQueue DEF TlsInv
  <1>3. CASE Loop
    BY <1>3, LoopTypes, LoopQueue DEF TlsInv
  <1>4. CASE Environment
    BY <1>4, EnvironmentTypes, EnvironmentQueue DEF TlsInv
  <1>5. QED
    BY <1>1, <1>2, <1>3, <1>4 DEF TlsNext

LEMMA TlsInvariant == TlsSpec => []TlsInv
  BY TlsInvInit, TlsInvStep, PTL DEF TlsSpec

-----------------------------------------------------------------------------
(* The theorems *)

\* The variables have their types, and what is gathered and copied never fills a record
\* (SSLClient.cpp:93-140).
THEOREM TlsTypeCorrect == TlsSpec => []TlsTypeOK
  <1>1. TlsInv => TlsTypeOK
    BY DEF TlsInv, ClientTypes, BufferInv, EngineOK, Engines, TlsTypeOK
  <1>2. QED
    BY <1>1, TlsInvariant, PTL

\* No record coming in overwrites a byte that waits to be sent, though both directions share
\* one buffer and write copies into it behind the engine's back (SSLClient.cpp:118,
\* 508-548).
THEOREM BufferIsNotShared == TlsSpec => []BufferNotShared
  <1>1. TlsInv => BufferNotShared
    BY DEF TlsInv, BufferInv, EngineOK, SharedBuffer, SENDAPP, BufferNotShared
  <1>2. QED
    BY <1>1, TlsInvariant, PTL

\* The server has a beginning of what was written, and while the connection carries data
\* the rest is queued, in order and whole (SSLClient.cpp:93-140, 508-548).
THEOREM WrittenInOrder == TlsSpec => []SentInOrder
  <1>1. TlsInv => SentInOrder
    <2> SUFFICES ASSUME TlsInv PROVE SentInOrder
      OBVIOUS
    <2>1. /\ served = Ints(0, Len(served)) /\ Len(served) <= written
          /\ Len(served) \in Nat /\ written \in Nat
      BY QueueTypes DEF TlsInv, QueueInv
    <2>2. IsPrefix(Ints(0, Len(served)), Ints(0, written))
      BY <2>1, IntsPrefix
    <2>3. QED
      BY <2>1, <2>2 DEF SentInOrder, TlsInv, QueueInv
  <1>2. QED
    BY <1>1, TlsInvariant, PTL

-----------------------------------------------------------------------------
(* The payload on its way *)

\* Units that carry payload from T.
UnitsOf(T) == [part : {"header", "rest"}, rec : [type : RecordTypes, data : Seq(T)]]

LEMMA WithDataTypes ==
  ASSUME NEW T, NEW s \in Seq(T), NEW u \in UnitsOf(T)
  PROVE  WithData(s, u) \in Seq(T)
<1>1. u.rec.data \in Seq(T)
  BY DEF UnitsOf
<1>2. s \o u.rec.data \in Seq(T)
  BY <1>1, ConcatProperties
<1> QED
  BY <1>2 DEF WithData

WithDataStep(T) == [x \in Seq(T) \X UnitsOf(T) |-> WithData(x[1], x[2])]

\* The fold that DataOf is, as a fold of a function.
LEMMA DataIsFold ==
  ASSUME NEW T, NEW base \in Seq(T), NEW s \in Seq(UnitsOf(T))
  PROVE  FoldLeft(WithData, base, s) = FoldValue(Seq(T), WithDataStep(T), base, s)
<1> DEFINE n == Len(s)
           h == [x \in Seq(T) \X (1 .. n) |-> WithData(x[1], s[x[2]])]
           Step(f) == [S \in SUBSET DOMAIN s |->
                      IF S = {} THEN base ELSE WithData(f[S \ {Max(S)}], s[Max(S)])]
           f == CHOOSE e : e = Step(e)
<1>1. n \in Nat /\ DOMAIN s = 1 .. n /\ \A k \in 1 .. n : s[k] \in UnitsOf(T)
  OBVIOUS
<1>2. f = Step(f)
  <2> HIDE DEF n
  <2>1. h \in [Seq(T) \X (1 .. n) -> Seq(T)]
    <3>1. \A x \in Seq(T) \X (1 .. n) : WithData(x[1], s[x[2]]) \in Seq(T)
      BY <1>1, WithDataTypes
    <3> QED
      BY <3>1
  <2>2. HasFold(Seq(T), h, base, n)
    <3> HIDE DEF h
    <3> QED
      BY <1>1, <2>1, FoldExists
  <2>3. PICK e \in [SUBSET (1 .. n) -> Seq(T)] : e = FoldStep(e, h, base, n)
    BY <2>2 DEF HasFold
  <2>4. ASSUME NEW S \in SUBSET (1 .. n), S # {}
        PROVE  h[<<e[S \ {Max(S)}], Max(S)>>] = WithData(e[S \ {Max(S)}], s[Max(S)])
    <3>1. Max(S) \in 1 .. n /\ S \ {Max(S)} \in SUBSET (1 .. n)
      BY <1>1, <2>4, Largest
    <3>2. e[S \ {Max(S)}] \in Seq(T)
      BY <3>1
    <3> QED
      BY <3>1, <3>2
  <2>5. \A S \in SUBSET (1 .. n) :
          e[S] = IF S = {} THEN base ELSE WithData(e[S \ {Max(S)}], s[Max(S)])
    <3> HIDE DEF h
    <3> QED
      BY <2>3, <2>4 DEF FoldStep
  <2>6. e = Step(e)
    BY <1>1, <2>5
  <2> QED
    BY <2>6, Zenon
<1>3. FoldLeft(WithData, base, s) = f[DOMAIN s]
  BY DEF FoldLeft, MapThenFoldSet
<1> HIDE DEF f
<1>4. f[{}] = base
  BY <1>2
<1>5. WithDataStep(T) \in [Seq(T) \X UnitsOf(T) -> Seq(T)]
  <2>1. \A x \in Seq(T) \X UnitsOf(T) : WithData(x[1], x[2]) \in Seq(T)
    BY WithDataTypes
  <2> QED
    BY <2>1 DEF WithDataStep
<1>6. ASSUME NEW k \in 1 .. n, f[1 .. (k - 1)] \in Seq(T)
      PROVE  f[1 .. k] = WithDataStep(T)[<<f[1 .. (k - 1)], s[k]>>]
  <2>1. 1 .. k \in SUBSET DOMAIN s /\ 1 .. k # {} /\ (1 .. k) \ {k} = 1 .. (k - 1)
    <3>1. k \in 1 .. k /\ \A i \in 1 .. k : i \in 1 .. n
      BY <1>1
    <3>2. \A i : i \in 1 .. k /\ i # k <=> i \in 1 .. (k - 1)
      BY <1>1
    <3> QED
      BY <1>1, <3>1, <3>2
  <2>2. Max(1 .. k) = k
    BY MaxOfRange
  <2>3. f[1 .. k] = WithData(f[(1 .. k) \ {Max(1 .. k)}], s[Max(1 .. k)])
    BY <1>2, <2>1
  <2>4. f[1 .. k] = WithData(f[1 .. (k - 1)], s[k])
    BY <2>1, <2>2, <2>3
  <2> QED
    BY <1>1, <1>6, <2>4 DEF WithDataStep
<1> DEFINE p == [k \in 0 .. n |-> f[1 .. k]]
<1>7. p \in Runs(Seq(T), WithDataStep(T), base, s)
  BY <1>4, <1>5, <1>6, FoldIsRun
<1>8. p[n] = f[DOMAIN s]
  BY <1>1
<1> HIDE DEF p
<1> QED
  BY <1>1, <1>3, <1>7, <1>8, RunsEndAlike

LEMMA WithDataStepTypes ==
  ASSUME NEW T, NEW base \in Seq(T)
  PROVE  FoldOver(Seq(T), UnitsOf(T), WithDataStep(T), base)
<1>1. \A x \in Seq(T) \X UnitsOf(T) : WithData(x[1], x[2]) \in Seq(T)
  BY WithDataTypes
<1> QED
  BY <1>1 DEF WithDataStep, FoldOver

LEMMA DataNothing ==
  ASSUME NEW T, NEW base \in Seq(T)
  PROVE  FoldLeft(WithData, base, << >>) = base
<1>1. << >> \in Seq(UnitsOf(T))
  OBVIOUS
<1>2. FoldLeft(WithData, base, << >>) = FoldValue(Seq(T), WithDataStep(T), base, << >>)
  BY <1>1, DataIsFold
<1>3. FoldValue(Seq(T), WithDataStep(T), base, << >>) = base
  BY FoldOfNothing
<1> QED
  BY <1>2, <1>3

LEMMA DataAppend ==
  ASSUME NEW T, NEW base \in Seq(T), NEW s \in Seq(UnitsOf(T)), NEW b \in UnitsOf(T)
  PROVE  /\ FoldLeft(WithData, base, s) \in Seq(T)
         /\ FoldLeft(WithData, base, Append(s, b)) = WithData(FoldLeft(WithData, base, s), b)
<1> DEFINE v == FoldValue(Seq(T), WithDataStep(T), base, s)
<1>1. FoldLeft(WithData, base, s) = v
  BY DataIsFold
<1>2. v \in Seq(T)
  BY WithDataStepTypes, RunExists
<1>3. Append(s, b) \in Seq(UnitsOf(T))
  OBVIOUS
<1>4. FoldLeft(WithData, base, Append(s, b)) = FoldValue(Seq(T), WithDataStep(T), base, Append(s, b))
  BY <1>3, DataIsFold
<1>5. FoldValue(Seq(T), WithDataStep(T), base, Append(s, b)) = WithDataStep(T)[<<v, b>>]
  BY WithDataStepTypes, FoldAppend
<1>6. WithDataStep(T)[<<v, b>>] = WithData(v, b)
  <2> HIDE DEF v
  <2> QED
    BY <1>2 DEF WithDataStep
<1> HIDE DEF v
<1> QED
  BY <1>1, <1>2, <1>4, <1>5, <1>6

LEMMA DataFirst ==
  ASSUME NEW T, NEW base \in Seq(T), NEW s \in Seq(UnitsOf(T)), s # << >>
  PROVE  FoldLeft(WithData, base, s) = FoldLeft(WithData, WithData(base, Head(s)), Tail(s))
<1>1. Head(s) \in UnitsOf(T) /\ Tail(s) \in Seq(UnitsOf(T))
  OBVIOUS
<1>2. WithDataStep(T)[<<base, Head(s)>>] = WithData(base, Head(s))
  BY <1>1 DEF WithDataStep
<1>3. WithData(base, Head(s)) \in Seq(T)
  BY <1>1, WithDataTypes
<1>4. FoldLeft(WithData, base, s) = FoldValue(Seq(T), WithDataStep(T), base, s)
  BY DataIsFold
<1>5. FoldLeft(WithData, WithData(base, Head(s)), Tail(s))
        = FoldValue(Seq(T), WithDataStep(T), WithData(base, Head(s)), Tail(s))
  BY <1>1, <1>3, DataIsFold
<1>6. FoldValue(Seq(T), WithDataStep(T), base, s)
        = FoldValue(Seq(T), WithDataStep(T), WithDataStep(T)[<<base, Head(s)>>], Tail(s))
  BY WithDataStepTypes, FoldFirst
<1> QED
  BY <1>2, <1>4, <1>5, <1>6

LEMMA WithDataBehind ==
  ASSUME NEW T, NEW b \in Seq(T), NEW s \in Seq(T), NEW u \in UnitsOf(T)
  PROVE  WithData(b \o s, u) = b \o WithData(s, u)
<1> DEFINE d == u.rec.data
<1>1. d \in Seq(T)
  BY DEF UnitsOf
<1> HIDE DEF d
<1>2. (b \o s) \o d = b \o (s \o d)
  BY <1>1, ConcatAssociative
<1> QED
  BY <1>2 DEF WithData, d

\* What is gathered behind a beginning is gathered after it.
GathersBehind(T, n) ==
  \A s \in Seq(UnitsOf(T)) : Len(s) = n =>
    \A b \in Seq(T) : FoldLeft(WithData, b, s) = b \o DataOf(s) /\ DataOf(s) \in Seq(T)

LEMMA DataBehind ==
  ASSUME NEW T, NEW s \in Seq(UnitsOf(T)), NEW b \in Seq(T)
  PROVE  FoldLeft(WithData, b, s) = b \o DataOf(s) /\ DataOf(s) \in Seq(T)
<1> DEFINE S == {n \in Nat : GathersBehind(T, n)}
<1>e. << >> \in Seq(T)
  OBVIOUS
<1>1. 0 \in S
  <2>1. ASSUME NEW r \in Seq(UnitsOf(T)), Len(r) = 0, NEW c \in Seq(T)
        PROVE  FoldLeft(WithData, c, r) = c \o DataOf(r) /\ DataOf(r) \in Seq(T)
    <3>1. r = << >>
      BY <2>1
    <3>2. FoldLeft(WithData, c, << >>) = c /\ FoldLeft(WithData, << >>, << >>) = << >>
      BY <1>e, DataNothing
    <3>3. c \o << >> = c
      OBVIOUS
    <3> QED
      BY <1>e, <3>1, <3>2, <3>3 DEF DataOf
  <2> QED
    BY <2>1 DEF GathersBehind
<1>2. ASSUME NEW n \in S PROVE n + 1 \in S
  <2>1. ASSUME NEW r \in Seq(UnitsOf(T)), Len(r) = n + 1, NEW c \in Seq(T)
        PROVE  FoldLeft(WithData, c, r) = c \o DataOf(r) /\ DataOf(r) \in Seq(T)
    <3> DEFINE q == SubSeq(r, 1, n)
               u == r[n + 1]
    <3>1. q \in Seq(UnitsOf(T)) /\ Len(q) = n /\ u \in UnitsOf(T) /\ r = Append(q, u)
      <4>1. n \in Nat
        BY <1>2
      <4> QED
        BY <2>1, <4>1
    <3> HIDE DEF q, u
    <3>2. FoldLeft(WithData, c, q) = c \o DataOf(q) /\ DataOf(q) \in Seq(T)
      BY <1>2, <3>1 DEF GathersBehind
    <3>3. /\ FoldLeft(WithData, c, r) = WithData(c \o DataOf(q), u)
          /\ DataOf(r) = WithData(DataOf(q), u)
      <4>1. FoldLeft(WithData, c, Append(q, u)) = WithData(FoldLeft(WithData, c, q), u)
        BY <3>1, DataAppend
      <4>2. FoldLeft(WithData, << >>, Append(q, u))
              = WithData(FoldLeft(WithData, << >>, q), u)
        BY <1>e, <3>1, DataAppend
      <4> QED
        BY <3>1, <3>2, <4>1, <4>2 DEF DataOf
    <3>6. WithData(c \o DataOf(q), u) = c \o WithData(DataOf(q), u)
      BY <3>1, <3>2, WithDataBehind
    <3>7. WithData(DataOf(q), u) \in Seq(T)
      BY <3>1, <3>2, WithDataTypes
    <3> QED
      BY <3>3, <3>6, <3>7
  <2>2. n + 1 \in Nat
    BY <1>2
  <2> QED
    BY <2>1, <2>2 DEF GathersBehind
<1> HIDE DEF S
<1>3. S = Nat
  BY <1>1, <1>2, Induction DEF S
<1>4. Len(s) \in S
  BY <1>3
<1> QED
  BY <1>4 DEF S, GathersBehind

LEMMA DataOfNothing == DataOf(<< >>) = << >>
<1>1. << >> \in Seq(Nat)
  OBVIOUS
<1> QED
  BY <1>1, DataNothing DEF DataOf

\* The first unit read brings its payload, and leaves the others'.
LEMMA DataRead ==
  ASSUME NEW T, NEW s \in Seq(UnitsOf(T)), s # << >>
  PROVE  /\ Tail(s) \in Seq(UnitsOf(T)) /\ Head(s) \in UnitsOf(T)
         /\ DataOf(s) \in Seq(T) /\ DataOf(Tail(s)) \in Seq(T)
         /\ Head(s).rec.data \in Seq(T)
         /\ DataOf(s) = (IF Head(s).part = "rest" THEN Head(s).rec.data ELSE << >>)
                          \o DataOf(Tail(s))
<1>1. Tail(s) \in Seq(UnitsOf(T)) /\ Head(s) \in UnitsOf(T) /\ << >> \in Seq(T)
  OBVIOUS
<1>2. Head(s).rec.data \in Seq(T)
  BY <1>1 DEF UnitsOf
<1> DEFINE d == IF Head(s).part = "rest" THEN Head(s).rec.data ELSE << >>
<1>3. WithData(<< >>, Head(s)) = d
  <2>1. << >> \o Head(s).rec.data = Head(s).rec.data
    BY <1>2
  <2> QED
    BY <2>1 DEF WithData
<1>4. d \in Seq(T)
  BY <1>1, <1>2
<1> HIDE DEF d
<1>5. DataOf(s) = FoldLeft(WithData, d, Tail(s))
  BY <1>1, <1>3, DataFirst DEF DataOf
<1>6. DataOf(s) = d \o DataOf(Tail(s)) /\ DataOf(Tail(s)) \in Seq(T)
  BY <1>1, <1>4, <1>5, DataBehind
<1>7. DataOf(s) \in Seq(T)
  BY <1>1, DataBehind
<1> QED
  BY <1>1, <1>2, <1>6, <1>7 DEF d

\* A record arrives with its payload behind the others'.
LEMMA DataArrives ==
  ASSUME NEW T, NEW s \in Seq(UnitsOf(T)), NEW r, r.type \in RecordTypes, r.data \in Seq(T),
         r = [type |-> r.type, data |-> r.data]
  PROVE  /\ s \o <<Header(r), Rest(r)>> \in Seq(UnitsOf(T))
         /\ DataOf(s \o <<Header(r), Rest(r)>>) = DataOf(s) \o r.data
<1>1. r \in [type : RecordTypes, data : Seq(T)]
  OBVIOUS
<1>2. Header(r) \in UnitsOf(T) /\ Rest(r) \in UnitsOf(T)
  BY <1>1 DEF Header, Rest, UnitsOf
<1> DEFINE a == Header(r)
           b == Rest(r)
<1>3. a.part = "header" /\ b.part = "rest" /\ b.rec = r
  BY DEF Header, Rest
<1>4. a \in UnitsOf(T) /\ b \in UnitsOf(T)
  BY <1>2
<1> HIDE DEF a, b
<1>5. s \o <<a, b>> = Append(Append(s, a), b)
  BY <1>4, Behind
<1>6. Append(s, a) \in Seq(UnitsOf(T)) /\ Append(Append(s, a), b) \in Seq(UnitsOf(T))
  BY <1>4
<1>7. << >> \in Seq(T)
  OBVIOUS
<1>8. DataOf(Append(s, a)) = WithData(DataOf(s), a)
  BY <1>4, <1>7, DataAppend DEF DataOf
<1>9. DataOf(Append(Append(s, a), b)) = WithData(DataOf(Append(s, a)), b)
  BY <1>4, <1>6, <1>7, DataAppend DEF DataOf
<1>10. DataOf(Append(Append(s, a), b)) = DataOf(s) \o r.data
  BY <1>3, <1>8, <1>9 DEF WithData
<1> QED
  BY <1>5, <1>6, <1>10 DEF a, b

-----------------------------------------------------------------------------
(* The client as a channel: what its steps may do to it *)

FromServer == 1..MaxSupplied

\* What the refinement needs besides TlsInv: what is written stays in its bound, the input
\* is the server's, nothing has come in before the connection is open, and nothing is read
\* after a write error.
ChannelInv ==
  /\ written + Len(rest) <= MaxWritten
  /\ incoming \in Seq(UnitsOf(FromServer)) /\ eng.in \in Seq(FromServer)
  /\ ~CLOSED(eng) /\ eng.hs < OPEN => got = << >> /\ DataOf(incoming) = << >>
  /\ pc # "idle" /\ op = "read" => ~writeError

\* The ways the client changes as a channel.
Stays == (Live' <=> Live) /\ UNCHANGED <<served, written, got, Unread>>
Begins == ~Live' /\ served' = << >> /\ got' = << >> /\ Unread' = << >>
Opens ==
  /\ ~Live /\ Live' /\ served = << >> /\ got = << >> /\ written = 0
  /\ UNCHANGED <<served, written, got, Unread>>
Puts == (Live' <=> Live) /\ UNCHANGED <<served, got, Unread>> /\ written < written'
Delivers ==
  /\ Live /\ Live' /\ UNCHANGED <<written, got, Unread>>
  /\ \E d \in Seq(Nat) : d # << >> /\ served' = served \o d
Supplies ==
  /\ Live /\ Live' /\ UNCHANGED <<served, written, got>>
  /\ \E d \in Seq(FromServer) : d # << >> /\ Unread' = Unread \o d
Takes ==
  /\ (Live' <=> Live) /\ UNCHANGED <<served, written>>
  /\ \E d \in Seq(FromServer) : d # << >> /\ Unread = d \o Unread' /\ got' = got \o d
Discards ==
  /\ (Live' <=> Live) /\ UNCHANGED <<served, written, got>> /\ op' \in {"connect", "write"}
  /\ \E d \in Seq(FromServer) : d # << >> /\ Unread = d \o Unread'
Ends ==
  /\ ~Live' /\ UNCHANGED <<served, got>>
  /\ \E d \in Seq(FromServer) : Unread = Unread' \o d

Moves == \/ Stays \/ Begins \/ Opens \/ Puts \/ Delivers \/ Supplies \/ Takes \/ Discards
         \/ Ends

LEMMA NothingJoined ==
  ASSUME NEW T
  PROVE  /\ << >> \in Seq(T) /\ Len(<< >>) = 0
         /\ \A s \in Seq(T) : s \o << >> = s /\ << >> \o s = s
OBVIOUS

LEMMA InputTypes ==
  ASSUME ChannelInv
  PROVE  /\ eng.in \in Seq(FromServer) /\ DataOf(incoming) \in Seq(FromServer)
         /\ Unread \in Seq(FromServer)
<1>1. << >> \in Seq(FromServer)
  OBVIOUS
<1>2. eng.in \in Seq(FromServer) /\ DataOf(incoming) \in Seq(FromServer)
  BY <1>1, DataBehind DEF ChannelInv
<1> DEFINE d == IF sock = "CLOSED" THEN << >> ELSE DataOf(incoming)
<1>3. d \in Seq(FromServer)
  BY <1>1, <1>2
<1>4. Unread = << >> \/ Unread = eng.in \o d
  BY DEF Unread
<1> HIDE DEF d
<1>5. eng.in \o d \in Seq(FromServer)
  BY <1>2, <1>3
<1> QED
  BY <1>1, <1>2, <1>4, <1>5

\* Where input is read from, as long as the engine gives any.
Gives == ~CLOSED(eng) /\ ~writeError /\ eng.hs = OPEN
Coming == IF sock = "CLOSED" THEN << >> ELSE DataOf(incoming)

LEMMA UnreadIs == (Gives => Unread = eng.in \o Coming) /\ (~Gives => Unread = << >>)
BY DEF Unread, Gives, Coming

\* Steps that move nothing: the engine has the same input and the same state.
LEMMA StayingSteps ==
  ASSUME TlsInv, ChannelInv,
         eng'.in = eng.in, eng'.hs = eng.hs, CLOSED(eng') <=> CLOSED(eng),
         UNCHANGED <<writeError, served, got, written>>,
         incoming' \in Seq(UnitsOf(FromServer)), DataOf(incoming') = DataOf(incoming),
         \/ sock' = sock
         \/ sock = "ESTABLISHED" /\ sock' = "CLOSE_WAIT",
         written + Len(rest') <= MaxWritten,
         pc' # "idle" /\ op' = "read" => ~writeError
  PROVE  ChannelInv' /\ Stays
<1>1. ChannelInv'
  BY DEF ChannelInv
<1>2. (sock' = "CLOSED") <=> (sock = "CLOSED")
  OBVIOUS
<1>3. (sock' \in {"ESTABLISHED", "CLOSE_WAIT"}) <=> (sock \in {"ESTABLISHED", "CLOSE_WAIT"})
  OBVIOUS
<1>4. Live' <=> Live
  BY <1>3, Zenon DEF Live
<1>5. Unread' = Unread
  BY <1>2, Zenon DEF Unread
<1> QED
  BY <1>1, <1>4, <1>5 DEF Stays

\* A call returns, or goes on with nothing more to write.
LEMMA NoMoreToWrite ==
  ASSUME TlsInv, ChannelInv, NEW r \in {rest, << >>}
  PROVE  written + Len(r) <= MaxWritten
<1>1. Len(<< >>) = 0 /\ Len(rest) \in Nat /\ written \in Nat /\ MaxWritten \in Nat
  BY TlsAssumption DEF TlsInv, ClientTypes
<1> QED
  BY <1>1 DEF ChannelInv

\* Steps that take the socket away: input that the engine does not hold is lost.
LEMMA EndingSteps ==
  ASSUME TlsInv, ChannelInv,
         eng'.in \in {eng.in, << >>}, eng'.hs = eng.hs, CLOSED(eng') <=> CLOSED(eng),
         UNCHANGED <<served, got, written>>, rest' \in {rest, << >>},
         writeError => writeError',
         \/ sock' = "CLOSED" /\ incoming' = incoming
         \/ sock' \in {"none", "CLOSED"} /\ incoming' = << >>,
         \/ pc' = "idle"
         \/ pc' = pc /\ op' = op /\ writeError' = writeError
  PROVE  ChannelInv' /\ Ends
<1>1. << >> \in Seq(FromServer) /\ << >> \in Seq(UnitsOf(FromServer))
  OBVIOUS
<1>2. ChannelInv'
  <2>1. written' + Len(rest') <= MaxWritten
    BY NoMoreToWrite
  <2>2. incoming' \in Seq(UnitsOf(FromServer)) /\ eng'.in \in Seq(FromServer)
    BY <1>1 DEF ChannelInv
  <2>3. DataOf(incoming) = << >> => DataOf(incoming') = << >>
    BY DataOfNothing
  <2>4. pc' # "idle" /\ op' = "read" => ~writeError'
    BY Zenon DEF ChannelInv
  <2> QED
    BY <2>1, <2>2, <2>3, <2>4 DEF ChannelInv
<1>3. ~Live'
  BY DEF Live
<1>4. Coming' = << >>
  BY DataOfNothing DEF Coming
<1>5. Gives' => Gives
  BY DEF Gives
<1>6. \E d \in Seq(FromServer) : Unread = Unread' \o d
  <2>1. Unread \in Seq(FromServer) /\ eng.in \in Seq(FromServer)
    BY InputTypes
  <2>2. << >> \o Unread = Unread /\ eng.in \o << >> = eng.in /\ << >> \o << >> = << >>
    BY <2>1, NothingJoined
  <2>3. CASE Unread' = << >>
    BY <2>1, <2>2, <2>3
  <2>4. CASE Unread' # << >>
    <3>0. (Gives' => Unread' = eng'.in \o Coming') /\ (~Gives' => Unread' = << >>)
      BY DEF Unread, Gives, Coming
    <3>1. Gives' /\ Gives /\ Unread' = eng'.in \o << >>
      BY <1>4, <1>5, <2>4, <3>0
    <3>2. eng'.in = eng.in
      BY <2>2, <2>4, <3>1
    <3>3. Unread' = eng.in
      BY <2>2, <3>1, <3>2
    <3>4. Unread = eng.in \o Coming
      BY <3>1, UnreadIs
    <3>5. Coming \in Seq(FromServer)
      BY <1>1, InputTypes DEF Coming
    <3> QED
      BY <3>3, <3>4, <3>5
  <2> QED
    BY <2>3, <2>4
<1> QED
  BY <1>2, <1>3, <1>6 DEF Ends
\* Steps that end the engine: it gives nothing any more.
LEMMA ClosingSteps ==
  ASSUME TlsInv, ChannelInv,
         CLOSED(eng') \/ eng'.hs = CLOSING, eng'.in \in Seq(FromServer),
         incoming' \in Seq(UnitsOf(FromServer)),
         UNCHANGED <<served, got, written>>, rest' \in {rest, << >>},
         \/ pc' = "idle"
         \/ UNCHANGED <<op, writeError>> /\ (pc # "idle" \/ op # "read")
  PROVE  ChannelInv' /\ Ends
<1>1. written' + Len(rest') <= MaxWritten
  BY NoMoreToWrite
<1>2. CLOSED(eng') \/ eng'.hs = 8
  BY Steps
<1>3. pc' # "idle" /\ op' = "read" => ~writeError'
  BY Zenon DEF ChannelInv
<1>4. ChannelInv'
  BY <1>1, <1>2, <1>3, Steps DEF ChannelInv
<1>5. ~Live' /\ Unread' = << >>
  BY <1>2, Steps DEF Live, Unread
<1>6. Unread \in Seq(FromServer) /\ << >> \o Unread = Unread
  BY InputTypes, NothingJoined
<1> QED
  BY <1>4, <1>5, <1>6 DEF Ends

\* Steps of the handshake: nothing has been carried yet.
LEMMA OpeningSteps ==
  ASSUME TlsInv, ChannelInv, ~CLOSED(eng), eng.hs < OPEN, eng'.in = << >>,
         incoming' \in Seq(UnitsOf(FromServer)), DataOf(incoming') = << >>,
         UNCHANGED <<sock, writeError, served, got, written, rest>>,
         pc' # "idle" /\ op' = "read" => ~writeError
  PROVE  ChannelInv' /\ (Stays \/ Opens)
<1>1. << >> \in Seq(FromServer) /\ << >> \o << >> = << >>
  OBVIOUS
<1>2. ChannelInv'
  BY <1>1 DEF ChannelInv
<1>3. ~Live /\ Unread = << >>
  BY Steps DEF Live, Unread
<1>4. Coming' = << >>
  BY DEF Coming
<1>5. Unread' = << >>
  <2>1. (Gives' => Unread' = eng'.in \o Coming') /\ (~Gives' => Unread' = << >>)
    BY DEF Unread, Gives, Coming
  <2> QED
    BY <1>1, <1>4, <2>1
<1>6. served = << >> /\ got = << >> /\ written = 0
  BY DEF ChannelInv, TlsInv, QueueInv
<1>7. CASE Live'
  BY <1>2, <1>3, <1>5, <1>6, <1>7 DEF Opens
<1>8. CASE ~Live'
  <2>1. Live' <=> Live
    BY <1>3, <1>8
  <2> QED
    BY <1>2, <1>3, <1>5, <2>1 DEF Stays
<1> QED
  BY <1>7, <1>8

-----------------------------------------------------------------------------
(* The steps of the client move the channel *)

LEMMA UserMoves ==
  ASSUME TlsInv, ChannelInv, User
  PROVE  ChannelInv' /\ Moves
<1> USE DEF callVars, sslVars, socketVars, serverVars, historyVars, Begin, SocketStops
<1>t. EngineOK(eng) /\ MaxWritten \in Nat /\ written \in Nat
  BY QueueTypes, TlsAssumption DEF TlsInv, BufferInv
<1>d. /\ EngineOK(DiscardIncoming(eng)) /\ DiscardIncoming(eng).hs = eng.hs
      /\ CLOSED(DiscardIncoming(eng)) <=> CLOSED(eng)
      /\ SENDAPP(eng) => DiscardIncoming(eng) = eng
      /\ DiscardIncoming(eng).in \in {eng.in, << >>}
  BY <1>t, EngineDiscards
<1>r. written + Len(rest) <= MaxWritten /\ written + Len(<< >>) <= MaxWritten
  BY NoMoreToWrite
<1>i. incoming \in Seq(UnitsOf(FromServer))
  BY DEF ChannelInv
<1>1. CASE Connect
  <2>1. /\ eng' = EngineInit /\ incoming' = << >> /\ written' = 0 /\ rest' = << >>
        /\ served' = << >> /\ got' = << >> /\ op' = "connect"
    BY <1>1 DEF Connect
  <2>2. eng'.hs = 1 /\ eng'.in = << >>
    BY <2>1, EngineBegins
  <2>3. << >> \in Seq(FromServer) /\ << >> \in Seq(UnitsOf(FromServer)) /\ Len(<< >>) = 0
    OBVIOUS
  <2>4. ChannelInv'
    BY <1>t, <2>1, <2>2, <2>3, DataOfNothing DEF ChannelInv
  <2>5. ~Live' /\ Unread' = << >>
    BY <2>2, Steps DEF Live, Unread
  <2> QED
    BY <2>1, <2>4, <2>5 DEF Moves, Begins
<1>2. CASE ConnectFails \/ ConnectedCall
  <2>1. /\ eng' = eng /\ UNCHANGED <<served, got, written, rest>> /\ pc' = "idle"
        /\ sock' \in {"none", "CLOSED"} /\ incoming' = << >>
    BY <1>2 DEF ConnectFails, ConnectedCall
  <2>2. writeError => writeError'
    BY <1>2, Zenon DEF ConnectFails, ConnectedCall
  <2> QED
    BY <2>1, <2>2, EndingSteps DEF Moves
<1>3. CASE StopNow
  <2>1. /\ eng' \in {eng, DiscardIncoming(eng)} /\ UNCHANGED <<served, got, written, rest>>
        /\ pc' = "idle" /\ sock' = "none" /\ incoming' = << >>
    BY <1>3 DEF StopNow
  <2>2. writeError => writeError'
    BY <1>3, Zenon DEF StopNow
  <2>3. /\ eng'.in \in {eng.in, << >>} /\ eng'.hs = eng.hs
        /\ CLOSED(eng') <=> CLOSED(eng)
    BY <1>d, <2>1
  <2> QED
    BY <2>1, <2>2, <2>3, EndingSteps DEF Moves
<1>4. CASE \E n \in 1..MaxWritten : Write(n)
  <2>1. PICK n \in 1..MaxWritten : Write(n)
    BY <1>4
  <2>2. n \in Nat /\ Len(Ints(written, n)) = n
    BY <1>t, <2>1, IntsSeq
  <2>3. /\ UNCHANGED <<eng, writeError, served, got, written, incoming, sock>>
        /\ rest' = Ints(written, n) /\ op' = "write" /\ written + n <= MaxWritten
    BY <2>1 DEF Write
  <2> QED
    BY <1>i, <2>2, <2>3, StayingSteps DEF Moves
<1>5. CASE Available \/ Read \/ Flush
  <2>1. /\ UNCHANGED <<eng, writeError, served, got, written, incoming, sock>>
        /\ rest' = << >> /\ (op' = "read" => ~writeError)
    BY <1>5 DEF Available, Read, Flush, m_soft_connected
  <2> QED
    BY <1>i, <1>r, <2>1, StayingSteps DEF Moves
<1>6. CASE StopFlushes
  <2>1. /\ eng' = DiscardIncoming(eng) /\ buffered # << >>
        /\ UNCHANGED <<writeError, served, got, written, incoming, sock>>
        /\ rest' = << >> /\ op' = "stop"
    BY <1>6 DEF StopFlushes
  <2>2. eng' = eng
    BY <1>d, <2>1 DEF TlsInv, BufferInv
  <2> QED
    BY <1>i, <1>r, <2>1, <2>2, StayingSteps DEF Moves
<1> QED
  BY <1>1, <1>2, <1>3, <1>4, <1>5, <1>6 DEF User

\* The error branches lose what the engine does not hold.
LEMMA FailMoves ==
  ASSUME TlsInv, ChannelInv, Fail, UNCHANGED <<served, got, written>>
  PROVE  ChannelInv' /\ Moves
<1>1. /\ eng' \in {eng, DiscardIncoming(eng)} /\ writeError' = TRUE /\ rest' = << >>
      /\ pc' = "idle" /\ sock' = "none" /\ incoming' = << >>
  BY DEF Fail, SocketStops, Return
<1>2. EngineOK(eng)
  BY DEF TlsInv, BufferInv
<1>3. /\ eng'.in \in {eng.in, << >>} /\ eng'.hs = eng.hs
      /\ CLOSED(eng') <=> CLOSED(eng)
  BY <1>1, <1>2, EngineDiscards
<1> QED
  BY <1>1, <1>3, EndingSteps DEF Moves

LEMMA FlushMoves ==
  ASSUME TlsInv, ChannelInv, FlushReturns
  PROVE  ChannelInv' /\ Moves
<1>1. /\ pc = "flush" /\ pc' = "update" /\ eng' = br_ssl_engine_sendrec_ack(eng)
      /\ UNCHANGED <<op, rest, writeError, sock, incoming, served, got, written>>
  BY DEF FlushReturns, socketVars, serverVars, historyVars
<1>2. EngineOK(eng) /\ SENDREC(eng)
  BY <1>1 DEF TlsInv, BufferInv
<1>3. /\ eng'.in = << >> /\ eng.in = << >> /\ ~CLOSED(eng)
      /\ eng.hs = OPEN => eng'.hs = OPEN /\ ~CLOSED(eng')
      /\ ~CLOSED(eng') => eng.hs <= OPEN
  BY <1>1, <1>2, EngineHasSent
<1>4. incoming \in Seq(UnitsOf(FromServer)) /\ written + Len(rest) <= MaxWritten
  BY DEF ChannelInv
<1>5. op = "read" => ~writeError
  BY <1>1 DEF ChannelInv
<1>6. CASE eng.hs = OPEN
  <2>1. eng'.in = eng.in /\ eng'.hs = eng.hs /\ (CLOSED(eng') <=> CLOSED(eng))
    BY <1>3, <1>6
  <2> QED
    BY <1>1, <1>4, <1>5, <2>1, StayingSteps DEF Moves
<1>7. CASE CLOSED(eng')
  <2>1. << >> \in Seq(FromServer)
    OBVIOUS
  <2> QED
    BY <1>1, <1>3, <1>4, <1>7, <2>1, ClosingSteps DEF Moves
<1>8. CASE eng.hs # OPEN /\ ~CLOSED(eng')
  <2>1. eng.hs < OPEN
    <3>1. eng.hs \in 1..8
      BY <1>2, Steps DEF EngineOK, Engines
    <3> QED
      BY <1>3, <1>8, <3>1, Steps
  <2>2. DataOf(incoming') = << >>
    BY <1>1, <1>3, <2>1 DEF ChannelInv
  <2> QED
    BY <1>1, <1>3, <1>4, <1>5, <2>1, <2>2, OpeningSteps DEF Moves
<1> QED
  BY <1>6, <1>7, <1>8

\* A unit read goes from the socket to the engine with its payload, or into the handshake.
LEMMA ReceiveMoves ==
  ASSUME TlsInv, ChannelInv, Receive
  PROVE  ChannelInv' /\ Moves
<1> DEFINE u == Head(incoming)
<1>1. /\ pc = "update" /\ RECVREC(eng) /\ incoming # << >> /\ sock # "CLOSED"
      /\ eng' = IF u.part = "header" THEN recvrec_ack_header(eng, u.rec)
                ELSE recvrec_ack_body(eng, u.rec)
      /\ incoming' = Tail(incoming)
      /\ UNCHANGED <<pc, op, rest, writeError, sock, served, got, written>>
  BY DEF Receive, MayReceive, Updating, callVars, serverVars, historyVars
<1>2. EngineOK(eng) /\ u \in Units
  BY <1>1 DEF TlsInv, BufferInv, ClientTypes
<1>3. /\ incoming \in Seq(UnitsOf(FromServer)) /\ written + Len(rest) <= MaxWritten
      /\ << >> \in Seq(FromServer)
      /\ (op = "read" => ~writeError)
  BY <1>1 DEF ChannelInv
<1>4. /\ incoming' \in Seq(UnitsOf(FromServer)) /\ u \in UnitsOf(FromServer)
      /\ DataOf(incoming) \in Seq(FromServer) /\ DataOf(incoming') \in Seq(FromServer)
      /\ u.rec.data \in Seq(FromServer)
      /\ DataOf(incoming) = (IF u.part = "rest" THEN u.rec.data ELSE << >>)
                              \o DataOf(incoming')
  BY <1>1, <1>3, DataRead
<1>5. u.part \in {"header", "rest"} /\ u.rec \in Records
  BY <1>2 DEF Units
<1> HIDE DEF u
<1>6. eng.in = << >> /\ ~CLOSED(eng) /\ eng.hs # CLOSING
  BY <1>1 DEF RECVREC, CLOSED
<1>7. CASE u.part = "header"
  <2>1. eng'.hs = eng.hs /\ eng'.in = << >>
    <3>1. eng' = recvrec_ack_header(eng, u.rec)
      BY <1>1, <1>7
    <3> QED
      BY <1>1, <1>2, <3>1, EngineReadsHeader
  <2>2. DataOf(incoming') = DataOf(incoming)
    BY <1>4, <1>7
  <2>3. CASE CLOSED(eng')
    BY <1>1, <1>3, <1>4, <2>1, <2>3, ClosingSteps DEF Moves
  <2>4. CASE ~CLOSED(eng')
    <3>1. eng'.in = eng.in /\ (CLOSED(eng') <=> CLOSED(eng))
      BY <1>6, <2>1, <2>4
    <3> QED
      BY <1>1, <1>3, <1>4, <2>1, <2>2, <3>1, StayingSteps DEF Moves
  <2> QED
    BY <2>3, <2>4
<1>8. CASE u.part = "rest"
  <2>1. eng' = recvrec_ack_body(eng, u.rec)
    BY <1>1, <1>8
  <2>2. /\ EngineOK(eng')
        /\ ~CLOSED(eng') /\ eng'.hs = OPEN =>
             IF eng.hs = OPEN THEN eng'.in = u.rec.data ELSE eng'.in = << >>
        /\ ~CLOSED(eng') /\ eng'.hs < OPEN => eng.hs < OPEN
        /\ ~CLOSED(eng') /\ eng'.hs # OPEN => eng'.in = << >>
        /\ eng'.in \in {<< >>, u.rec.data}
    BY <1>1, <1>2, <1>5, <2>1, EngineReadsBody
  <2>3. eng'.in \in Seq(FromServer)
    BY <1>3, <1>4, <2>2
  <2>4. eng.hs \in 1..8 /\ eng'.hs \in 1..8
    BY <1>2, <2>2, Steps DEF EngineOK, Engines
  <2>5. CASE CLOSED(eng') \/ eng'.hs = CLOSING
    BY <1>1, <1>3, <1>4, <2>3, <2>5, ClosingSteps DEF Moves
  <2>6. CASE ~CLOSED(eng') /\ eng'.hs # CLOSING /\ eng.hs < OPEN
    <3>1. eng'.in = << >>
      BY <2>2, <2>6, Steps
    <3>2. DataOf(incoming) = << >>
      BY <1>6, <2>6 DEF ChannelInv
    <3>3. DataOf(incoming') = << >>
      <4>1. \A s, t \in Seq(FromServer) : s \o t = << >> => t = << >>
        OBVIOUS
      <4> QED
        BY <1>3, <1>4, <3>2, <4>1
    <3> QED
      BY <1>1, <1>3, <1>4, <1>6, <2>6, <3>1, <3>3, OpeningSteps DEF Moves
  <2>7. CASE ~CLOSED(eng') /\ eng'.hs # CLOSING /\ eng.hs = OPEN
    <3>1. eng'.hs = OPEN /\ eng'.in = u.rec.data
      BY <2>2, <2>4, <2>7, Steps
    <3>2. DataOf(incoming) = u.rec.data \o DataOf(incoming')
      BY <1>4, <1>8
    <3>3. << >> \o DataOf(incoming) = DataOf(incoming)
      BY <1>4, NothingJoined
    <3>4. Unread' = Unread
      BY <1>1, <1>6, <2>7, <3>1, <3>2, <3>3 DEF Unread
    <3>5. Live' <=> Live
      BY <1>1, <1>6, <2>7, <3>1 DEF Live
    <3>6. ChannelInv'
      BY <1>1, <1>3, <1>4, <2>3, <3>1, Steps DEF ChannelInv
    <3> QED
      BY <1>1, <3>4, <3>5, <3>6 DEF Stays, Moves
  <2> QED
    BY <1>6, <2>4, <2>5, <2>6, <2>7, Steps
<1> QED
  BY <1>5, <1>7, <1>8

\* What the user writes is put behind what is queued.
LEMMA CopyMoves ==
  ASSUME TlsInv, ChannelInv, Copy
  PROVE  ChannelInv' /\ Moves
<1> DEFINE room == sendapp_len(eng) - Len(buffered)
           n == IF Len(rest) < room THEN Len(rest) ELSE room
           d == SubSeq(rest, 1, n)
<1>1. /\ pc = "update" /\ SENDAPP(eng) /\ op = "write" /\ rest # << >>
      /\ UNCHANGED <<sock, incoming, writeError, served, got, op>>
      /\ eng' = IF n = room THEN br_ssl_engine_sendapp_ack(eng, buffered \o d) ELSE eng
      /\ written' = written + n
      /\ rest' \in {SubSeq(rest, n + 1, Len(rest)), << >>}
  BY DEF Copy, Return, MayGoOn, Quiet, Reached, ForSend, ForRecv, socketVars, serverVars
<1>2. n \in 1..Len(rest) /\ Len(rest) \in Nat /\ written \in Nat /\ MaxWritten \in Nat
  <2>1. /\ Len(eng.out) \in Nat /\ Len(buffered) \in Nat /\ Len(rest) \in Nat
        /\ written \in Nat /\ rest \in Seq(Nat)
    BY QueueTypes
  <2>2. room \in Nat \ {0}
    BY <2>1, OutRoomAssumption DEF TlsInv, BufferInv, sendapp_len
  <2>3. Len(rest) \in Nat \ {0}
    BY <1>1, <2>1
  <2> HIDE DEF room
  <2> QED
    BY <2>1, <2>2, <2>3, TlsAssumption
<1> HIDE DEF n, room
<1>3. d \in Seq(Nat) /\ Len(SubSeq(rest, n + 1, Len(rest))) = Len(rest) - n
  <2>1. rest \in Seq(Nat) /\ n \in 0..Len(rest)
    BY <1>2, QueueTypes
  <2> QED
    BY <2>1, Parts
<1>4. written' + Len(rest') <= MaxWritten
  <2>1. written + Len(rest) <= MaxWritten /\ Len(<< >>) = 0
    BY DEF ChannelInv
  <2>2. CASE rest' = << >>
    BY <1>1, <1>2, <2>1, <2>2
  <2>3. CASE rest' = SubSeq(rest, n + 1, Len(rest))
    <3>1. Len(rest') = Len(rest) - n
      BY <1>3, <2>3
    <3> QED
      BY <1>1, <1>2, <2>1, <3>1
  <2> QED
    BY <1>1, <2>2, <2>3
<1>5. /\ EngineOK(eng) /\ buffered \o d \in Seq(Nat) /\ ~CLOSED(eng) /\ eng.hs = OPEN
      /\ eng.in = << >>
  <2>1. buffered \in Seq(Nat)
    BY QueueTypes
  <2> QED
    BY <1>1, <1>3, <2>1 DEF TlsInv, BufferInv, EngineOK, SharedBuffer, SENDAPP, CLOSED
<1> HIDE DEF d
<1>6. eng'.hs = OPEN /\ eng'.in = << >> /\ ~CLOSED(eng')
  <2>1. CASE n = room
    BY <1>1, <1>5, <2>1, EngineTakesPayload
  <2>2. CASE n # room
    BY <1>1, <1>5, <2>2
  <2> QED
    BY <2>1, <2>2
<1>7. << >> \in Seq(FromServer)
  OBVIOUS
<1>8. ChannelInv'
  <2>1. incoming' = incoming /\ op' = "write"
    BY <1>1
  <2>2. ~(eng'.hs < OPEN)
    BY <1>6, Steps
  <2> QED
    BY <1>4, <1>6, <1>7, <2>1, <2>2 DEF ChannelInv
<1>9. (Live' <=> Live) /\ Unread' = Unread
  BY <1>1, <1>5, <1>6 DEF Live, Unread
<1>10. written < written'
  BY <1>1, <1>2
<1> QED
  BY <1>1, <1>8, <1>9, <1>10 DEF Puts, Moves

\* A record sent carries what it holds to the server.
LEMMA TransmitMoves ==
  ASSUME TlsInv, ChannelInv, Transmit
  PROVE  ChannelInv' /\ Moves
<1>1. /\ pc = "update" /\ pc' = "flush" /\ SENDREC(eng) /\ ~CLOSED(eng)
      /\ UNCHANGED <<op, rest, eng, incoming, sock, writeError, written, got>>
      /\ \/ served' = served
         \/ served' = served \o eng.rec.data /\ sock \in {"ESTABLISHED", "CLOSE_WAIT"}
  BY DEF Transmit, Updating, sslVars, historyVars
<1>2. /\ incoming \in Seq(UnitsOf(FromServer)) /\ written + Len(rest) <= MaxWritten
      /\ (op = "read" => ~writeError)
  BY <1>1 DEF ChannelInv
<1>3. CASE served' = served
  BY <1>1, <1>2, <1>3, StayingSteps DEF Moves
<1>4. CASE served' # served
  <2>1. /\ served' = served \o eng.rec.data /\ sock \in {"ESTABLISHED", "CLOSE_WAIT"}
        /\ eng.rec.data \in Seq(Nat) /\ served \in Seq(Nat)
    BY <1>1, <1>4, QueueTypes
  <2>2. eng.rec.data # << >>
    BY <1>4, <2>1, NothingJoined
  <2>3. eng.hs = OPEN
    BY <1>1, <2>2 DEF TlsInv, BufferInv, EngineOK, RecordOut
  <2>4. Live
    BY <1>1, <2>1, <2>3 DEF Live, TlsInv, QueueInv
  <2>5. Live' /\ Unread' = Unread
    <3>1. Live' <=> Live
      BY <1>1 DEF Live
    <3>2. Unread' = Unread
      BY <1>1 DEF Unread
    <3> QED
      BY <2>4, <3>1, <3>2
  <2>6. ChannelInv'
    BY <1>1, <1>2 DEF ChannelInv
  <2> QED
    BY <1>1, <2>1, <2>2, <2>4, <2>5, <2>6 DEF Delivers, Moves
<1> QED
  BY <1>3, <1>4

LEMMA JoinedThrice ==
  ASSUME NEW T, NEW s \in Seq(T), NEW t \in Seq(T), NEW u \in Seq(T)
  PROVE  (s \o t) \o u = s \o (t \o u)
BY ConcatAssociative

\* Payload leaves the engine from the front of what is unread.
LEMMA TakingSteps ==
  ASSUME TlsInv, ChannelInv, RECVAPP(eng), NEW n \in 1..Len(eng.in),
         eng' = br_ssl_engine_recvapp_ack(eng, n),
         UNCHANGED <<sock, writeError, incoming>>
  PROVE  LET d == SubSeq(eng.in, 1, n) IN
         /\ d \in Seq(FromServer) /\ d # << >>
         /\ eng'.in \in Seq(FromServer) /\ ~CLOSED(eng') /\ eng'.hs = OPEN
         /\ Live' <=> Live
         /\ ~writeError => Unread = d \o Unread'
         /\ writeError => Unread' = Unread
<1> DEFINE s == eng.in
           d == SubSeq(s, 1, n)
           t == SubSeq(s, n + 1, Len(s))
<1>1. s \in Seq(Nat) /\ s \in Seq(FromServer) /\ EngineOK(eng)
  BY QueueTypes DEF ChannelInv, TlsInv, BufferInv
<1>2. n \in 0..Len(s) /\ n > 0
  BY <1>1
<1>3. d \in Seq(FromServer) /\ t \in Seq(FromServer)
  <2> HIDE DEF s
  <2>1. /\ n \in Int /\ n + 1 \in Int /\ Len(s) \in Int
        /\ \A i \in 1..n : s[i] \in FromServer
        /\ \A i \in n + 1..Len(s) : s[i] \in FromServer
    BY <1>1, <1>2
  <2> QED
    BY <1>1, <2>1, SubSeqProperties
<1>4. Len(d) = n /\ d \o t = s
  BY <1>1, <1>2, Parts
<1>5. /\ eng'.in = t /\ eng'.hs = OPEN /\ eng.hs = OPEN /\ ~CLOSED(eng') /\ ~CLOSED(eng)
  BY <1>1, <1>2, EngineGivesPayload
<1>6. Live' <=> Live
  BY <1>5 DEF Live
<1>7. writeError => Unread' = Unread
  BY DEF Unread
<1>8. ASSUME ~writeError PROVE Unread = d \o Unread'
  <2>1. Unread = s \o Coming /\ Unread' = t \o Coming
    <3>1. Gives /\ Gives' /\ Coming' = Coming
      BY <1>5, <1>8 DEF Gives, Coming
    <3>2. (Gives' => Unread' = eng'.in \o Coming')
      BY DEF Unread, Gives, Coming
    <3> QED
      BY <1>5, <3>1, <3>2, UnreadIs
  <2>2. Coming \in Seq(FromServer)
    <3>1. << >> \in Seq(FromServer)
      OBVIOUS
    <3> QED
      BY <3>1, InputTypes DEF Coming
  <2> HIDE DEF d, t, s
  <2>3. (d \o t) \o Coming = d \o (t \o Coming)
    BY <1>3, <2>2, JoinedThrice
  <2> QED
    BY <1>4, <2>1, <2>3
<1>9. d # << >>
  <2>1. Len(<< >>) = 0
    OBVIOUS
  <2> HIDE DEF d
  <2> QED
    BY <1>2, <1>4, <2>1
<1> HIDE DEF d, t
<1> QED
  BY <1>3, <1>5, <1>6, <1>7, <1>8, <1>9 DEF d

LEMMA ReadMoves ==
  ASSUME TlsInv, ChannelInv, ReadReturns
  PROVE  ChannelInv' /\ Moves
<1>1. /\ pc = "update" /\ op = "read" /\ pc' = "idle" /\ rest' = << >>
      /\ UNCHANGED <<writeError, sock, incoming, served, written>>
  BY DEF ReadReturns, Quiet, Return, socketVars, serverVars
<1>2. ~writeError /\ incoming \in Seq(UnitsOf(FromServer))
  BY <1>1 DEF ChannelInv
<1>3. written + Len(rest') <= MaxWritten
  BY <1>1, NoMoreToWrite
<1>4. CASE RECVAPP(eng)
  <2>1. PICK n \in 1..Len(eng.in) :
          /\ got' = got \o SubSeq(eng.in, 1, n)
          /\ eng' = br_ssl_engine_recvapp_ack(eng, n)
    BY <1>4 DEF ReadReturns, ReadAck
  <2> DEFINE d == SubSeq(eng.in, 1, n)
  <2>2. /\ d \in Seq(FromServer) /\ d # << >>
        /\ eng'.in \in Seq(FromServer) /\ ~CLOSED(eng') /\ eng'.hs = OPEN
        /\ Live' <=> Live
        /\ Unread = d \o Unread'
    BY <1>1, <1>2, <1>4, <2>1, TakingSteps
  <2>3. got' = got \o d
    BY <2>1
  <2> HIDE DEF d
  <2>4. ~(eng'.hs < OPEN)
    BY <2>2, Steps
  <2>5. ChannelInv'
    BY <1>1, <1>2, <1>3, <2>2, <2>4 DEF ChannelInv
  <2> QED
    BY <1>1, <2>2, <2>3, <2>5 DEF Takes, Moves
<1>5. CASE ~RECVAPP(eng)
  <2>1. eng' = Push(eng) /\ got' = got
    BY <1>5 DEF ReadReturns
  <2>2. EngineOK(eng)
    BY DEF TlsInv, BufferInv
  <2>3. eng'.in = eng.in /\ eng'.hs = eng.hs /\ (CLOSED(eng') <=> CLOSED(eng))
    BY <2>1, <2>2, EnginePushes DEF CLOSED
  <2> QED
    BY <1>1, <1>2, <1>3, <2>1, <2>3, StayingSteps DEF Moves
<1> QED
  BY <1>4, <1>5

LEMMA DiscardMoves ==
  ASSUME TlsInv, ChannelInv, DiscardUnread
  PROVE  ChannelInv' /\ Moves
<1> DEFINE n == Len(eng.in)
           d == SubSeq(eng.in, 1, n)
<1>1. /\ RECVAPP(eng) /\ eng' = br_ssl_engine_recvapp_ack(eng, n)
      /\ op \in {"connect", "write"}
      /\ UNCHANGED <<pc, op, rest, writeError, sock, incoming, served, written, got>>
  BY DEF DiscardUnread, ForSend, callVars, socketVars, serverVars, historyVars
<1>2. n \in 1..Len(eng.in)
  <2>1. eng.in \in Seq(Nat) /\ eng.in # << >>
    BY <1>1, QueueTypes DEF RECVAPP
  <2> QED
    BY <2>1
<1>3. /\ d \in Seq(FromServer) /\ d # << >>
      /\ eng'.in \in Seq(FromServer) /\ ~CLOSED(eng') /\ eng'.hs = OPEN
      /\ Live' <=> Live
      /\ ~writeError => Unread = d \o Unread'
      /\ writeError => Unread' = Unread
  BY <1>1, <1>2, TakingSteps
<1> HIDE DEF d, n
<1>4. ~(eng'.hs < OPEN)
  BY <1>3, Steps
<1>5. ChannelInv'
  BY <1>1, <1>3, <1>4 DEF ChannelInv
<1>6. CASE writeError
  BY <1>1, <1>3, <1>5, <1>6 DEF Stays, Moves
<1>7. CASE ~writeError
  BY <1>1, <1>3, <1>5, <1>7 DEF Discards, Moves
<1> QED
  BY <1>6, <1>7

LEMMA LoopMoves ==
  ASSUME TlsInv, ChannelInv, Loop
  PROVE  ChannelInv' /\ Moves
<1> USE DEF callVars, sslVars, socketVars, serverVars, historyVars
<1>t. EngineOK(eng)
  BY DEF TlsInv, BufferInv
<1>r. written + Len(rest) <= MaxWritten /\ written + Len(<< >>) <= MaxWritten
  BY NoMoreToWrite
<1>i. incoming \in Seq(UnitsOf(FromServer)) /\ (pc # "idle" /\ op = "read" => ~writeError)
  BY DEF ChannelInv
<1>1. CASE Transmit \/ FlushReturns \/ Receive \/ ReadReturns \/ Copy \/ DiscardUnread
  BY <1>1, TransmitMoves, FlushMoves, ReceiveMoves, ReadMoves, CopyMoves, DiscardMoves
<1>2. CASE TransmitFailed \/ ReceiveFails \/ TimesOut
  BY <1>2, FailMoves DEF TransmitFailed, ReceiveFails, TimesOut
<1>3. CASE Seal
  <2>1. /\ SENDAPP(eng) /\ eng' = br_ssl_engine_sendapp_ack(eng, buffered) /\ pc = "update"
        /\ UNCHANGED <<pc, op, rest, writeError, sock, incoming, served, written, got>>
    BY <1>3 DEF Seal, Updating
  <2>2. buffered \in Seq(Nat)
    BY QueueTypes
  <2>3. eng.in = << >> /\ eng.hs = OPEN
    BY <1>t, <2>1 DEF EngineOK, SharedBuffer, SENDAPP
  <2>4. eng'.in = eng.in /\ eng'.hs = eng.hs /\ (CLOSED(eng') <=> CLOSED(eng))
    BY <1>t, <2>1, <2>2, <2>3, EngineTakesPayload
  <2> QED
    BY <1>i, <1>r, <2>1, <2>4, StayingSteps DEF Moves
<1>4. CASE AvailableReturns \/ WaitTurn
  <2>1. /\ eng' \in {eng, Push(eng), br_ssl_engine_flush(eng)} /\ rest' \in {rest, << >>}
        /\ UNCHANGED <<writeError, sock, incoming, served, written, got>>
        /\ op' = op /\ pc = "update"
    BY <1>4 DEF AvailableReturns, WaitTurn, MayGoOn, Quiet, Return
  <2>2. eng'.in = eng.in /\ eng'.hs = eng.hs /\ (CLOSED(eng') <=> CLOSED(eng))
    BY <1>t, <2>1, EngineFlushes, EnginePushes DEF CLOSED
  <2>3. written + Len(rest') <= MaxWritten
    BY <1>r, <2>1
  <2> QED
    BY <1>i, <2>1, <2>2, <2>3, StayingSteps DEF Moves
<1>5. CASE ConnectReturns \/ WriteReturns
  <2>1. /\ rest' = << >> /\ pc' = "idle"
        /\ UNCHANGED <<eng, writeError, sock, incoming, served, written, got>>
    BY <1>5 DEF ConnectReturns, WriteReturns, Return
  <2> QED
    BY <1>i, <1>r, <2>1, StayingSteps DEF Moves
<1>6. CASE EngineClosed \/ FlushEnds
  <2>1. /\ rest' = << >> /\ pc' = "idle"
        /\ UNCHANGED <<eng, writeError, served, written, got>>
        /\ \/ UNCHANGED <<sock, incoming>>
           \/ sock' = "none" /\ incoming' = << >>
    BY <1>6 DEF EngineClosed, FlushEnds, CallEnds, Return, SocketStops
  <2>2. CASE UNCHANGED <<sock, incoming>>
    BY <1>i, <1>r, <2>1, <2>2, StayingSteps DEF Moves
  <2>3. CASE sock' = "none" /\ incoming' = << >>
    BY <2>1, <2>3, EndingSteps DEF Moves
  <2> QED
    BY <2>1, <2>2, <2>3
<1> QED
  BY <1>1, <1>2, <1>3, <1>4, <1>5, <1>6 DEF Loop

\* Nothing the server sends but data is payload.
LEMMA ArrivingMoves ==
  ASSUME TlsInv, ChannelInv, NEW r \in {HANDSHAKE, RESUMES, BROKEN, CLOSE_NOTIFY}, Arrives(r),
         UNCHANGED <<pc, op, rest, eng, writeError, sock, served, written, got>>
  PROVE  ChannelInv' /\ Moves
<1>1. r.type \in RecordTypes /\ r.data = << >> /\ r = [type |-> r.type, data |-> r.data]
  BY DEF HANDSHAKE, RESUMES, BROKEN, CLOSE_NOTIFY, RecordTypes
<1>2. << >> \in Seq(FromServer)
  OBVIOUS
<1>3. incoming \in Seq(UnitsOf(FromServer)) /\ written + Len(rest) <= MaxWritten
  BY DEF ChannelInv
<1>4. /\ incoming' \in Seq(UnitsOf(FromServer))
      /\ DataOf(incoming') = DataOf(incoming) \o << >>
  <2>1. incoming' = incoming \o <<Header(r), Rest(r)>> /\ r.data \in Seq(FromServer)
    BY <1>1, <1>2 DEF Arrives
  <2>2. DataOf(incoming \o <<Header(r), Rest(r)>>) = DataOf(incoming) \o r.data
    BY <1>1, <1>3, <2>1, DataArrives
  <2>3. incoming \o <<Header(r), Rest(r)>> \in Seq(UnitsOf(FromServer))
    BY <1>1, <1>3, <2>1, DataArrives
  <2> QED
    BY <1>1, <2>1, <2>2, <2>3
<1>5. DataOf(incoming') = DataOf(incoming)
  BY <1>4, InputTypes, NothingJoined
<1>6. pc' # "idle" /\ op' = "read" => ~writeError
  BY DEF ChannelInv
<1> QED
  BY <1>3, <1>4, <1>5, <1>6, StayingSteps DEF Moves

\* Data come in behind what is unread.
LEMMA SuppliesMoves ==
  ASSUME TlsInv, ChannelInv, NEW n \in 1..MaxSupplied, ServerSupplies(n)
  PROVE  ChannelInv' /\ Moves
<1> DEFINE d == Ints(supplied, n)
<1>1. /\ sock = "ESTABLISHED" /\ eng.hs = OPEN /\ supplied + n <= MaxSupplied
      /\ Arrives(Data(d))
      /\ UNCHANGED <<pc, op, rest, eng, writeError, sock, served, written, got>>
  BY DEF ServerSupplies, callVars, sslVars, historyVars
<1>2. n \in Nat \ {0} /\ supplied \in Nat /\ MaxSupplied \in Nat
  BY TlsAssumption DEF TlsInv, ClientTypes
<1>3. d \in Seq(FromServer) /\ d # << >>
  <2>1. d \in Seq(Nat) /\ Len(d) = n /\ \A i \in 1..n : d[i] = supplied + i
    BY <1>2, IntsSeq
  <2> HIDE DEF d
  <2>2. \A i \in 1..n : d[i] \in FromServer
    BY <1>1, <1>2, <2>1 DEF FromServer
  <2>3. Len(<< >>) = 0
    OBVIOUS
  <2>4. d # << >>
    BY <1>2, <2>1, <2>3
  <2> QED
    BY <2>1, <2>2, <2>4
<1> HIDE DEF d
<1>4. incoming \in Seq(UnitsOf(FromServer)) /\ written + Len(rest) <= MaxWritten
  BY DEF ChannelInv
<1>5. /\ incoming' \in Seq(UnitsOf(FromServer))
      /\ DataOf(incoming') = DataOf(incoming) \o d
  <2> DEFINE r == Data(d)
  <2>1. r.type \in RecordTypes /\ r.data = d /\ r = [type |-> r.type, data |-> r.data]
    BY DEF Data, RecordTypes
  <2>2. incoming' = incoming \o <<Header(r), Rest(r)>>
    BY <1>1 DEF Arrives
  <2> HIDE DEF r
  <2> QED
    BY <1>3, <1>4, <2>1, <2>2, DataArrives
<1>6. ChannelInv'
  <2>1. ~(eng.hs < OPEN)
    BY <1>1, Steps
  <2>2. eng'.in \in Seq(FromServer) /\ (pc' # "idle" /\ op' = "read" => ~writeError')
    BY <1>1 DEF ChannelInv
  <2> QED
    BY <1>1, <1>4, <1>5, <2>1, <2>2 DEF ChannelInv
<1>7. (Live' <=> Live) /\ UNCHANGED <<served, written, got>>
  BY <1>1 DEF Live
<1>8. CASE Live
  <2>1. Gives /\ Gives' /\ Coming = DataOf(incoming) /\ Coming' = DataOf(incoming')
    BY <1>1, <1>8 DEF Live, Gives, Coming
  <2>2. Gives' => Unread' = eng'.in \o Coming'
    BY DEF Unread, Gives, Coming
  <2>3. Unread = eng.in \o DataOf(incoming) /\ Unread' = eng.in \o (DataOf(incoming) \o d)
    BY <1>1, <1>5, <2>1, <2>2, UnreadIs
  <2>4. eng.in \in Seq(FromServer) /\ DataOf(incoming) \in Seq(FromServer)
    BY InputTypes
  <2>5. (eng.in \o DataOf(incoming)) \o d = eng.in \o (DataOf(incoming) \o d)
    <3> DEFINE s == eng.in
               t == DataOf(incoming)
    <3>1. s \in Seq(FromServer) /\ t \in Seq(FromServer)
      BY <2>4
    <3> HIDE DEF s, t
    <3>2. (s \o t) \o d = s \o (t \o d)
      BY <1>3, <3>1, JoinedThrice
    <3> QED
      BY <3>2 DEF s, t
  <2>6. Unread' = Unread \o d
    BY <2>3, <2>5
  <2> QED
    BY <1>3, <1>6, <1>7, <1>8, <2>6 DEF Supplies, Moves
<1>9. CASE ~Live
  <2>1. ~Gives
    BY <1>1, <1>9 DEF Live, Gives
  <2>2. ~Gives' /\ (~Gives' => Unread' = << >>)
    BY <1>1, <2>1 DEF Unread, Gives
  <2>3. Unread' = Unread
    BY <2>1, <2>2, UnreadIs
  <2> QED
    BY <1>6, <1>7, <2>3 DEF Stays, Moves
<1> QED
  BY <1>8, <1>9

LEMMA EnvironmentMoves ==
  ASSUME TlsInv, ChannelInv, Environment
  PROVE  ChannelInv' /\ Moves
<1> USE DEF callVars, sslVars, socketVars, serverVars, historyVars
<1>i. /\ incoming \in Seq(UnitsOf(FromServer)) /\ written + Len(rest) <= MaxWritten
      /\ (pc # "idle" /\ op = "read" => ~writeError)
  BY DEF ChannelInv
<1>1. CASE SendConfirmed \/ ServerFin
  <2>1. /\ UNCHANGED <<pc, op, rest, eng, writeError, incoming, served, written, got>>
        /\ \/ sock' = sock
           \/ sock = "ESTABLISHED" /\ sock' = "CLOSE_WAIT"
    BY <1>1 DEF SendConfirmed, ServerFin
  <2> QED
    BY <1>i, <2>1, StayingSteps DEF Moves
<1>2. CASE ServerHandshakes \/ ServerBreaks \/ ServerCloses
  <2>1. /\ UNCHANGED <<pc, op, rest, eng, writeError, sock, served, written, got>>
        /\ \E r \in {HANDSHAKE, RESUMES, BROKEN, CLOSE_NOTIFY} : Arrives(r)
    BY <1>2 DEF ServerHandshakes, ServerBreaks, ServerCloses
  <2> QED
    BY <2>1, ArrivingMoves
<1>3. CASE \E n \in 1..MaxSupplied : ServerSupplies(n)
  BY <1>3, SuppliesMoves
<1>4. CASE SocketDrops
  <2>1. /\ UNCHANGED <<pc, op, rest, eng, writeError, incoming, served, written, got>>
        /\ sock' = "CLOSED"
    BY <1>4 DEF SocketDrops
  <2> QED
    BY <2>1, EndingSteps DEF Moves
<1>5. CASE Restart
  <2>1. /\ eng' = br_ssl_engine_fail(EngineInit) /\ UNCHANGED <<served, written, got>>
        /\ pc' = "idle" /\ rest' = << >> /\ incoming' = << >>
    BY <1>5 DEF Restart
  <2>2. CLOSED(eng') /\ eng'.in = << >>
    BY <2>1, EngineBegins, EngineFails
  <2>3. << >> \in Seq(FromServer) /\ << >> \in Seq(UnitsOf(FromServer))
    OBVIOUS
  <2> QED
    BY <2>1, <2>2, <2>3, ClosingSteps DEF Moves
<1> QED
  BY <1>1, <1>2, <1>3, <1>4, <1>5 DEF Environment

-----------------------------------------------------------------------------
(* The client implements the channel *)

LEMMA ChannelInvInit == TlsInit => ChannelInv
<1> SUFFICES ASSUME TlsInit PROVE ChannelInv
  OBVIOUS
<1>1. << >> \in Seq(FromServer) /\ << >> \in Seq(UnitsOf(FromServer)) /\ Len(<< >>) = 0
  OBVIOUS
<1>2. eng.in = << >> /\ CLOSED(eng)
  BY EngineBegins, EngineFails DEF TlsInit
<1> QED
  BY <1>1, <1>2, TlsAssumption DEF TlsInit, ChannelInv

LEMMA ChannelStep ==
  ASSUME TlsInv, ChannelInv, [TlsNext]_tlsVars
  PROVE  ChannelInv' /\ Moves
<1>1. CASE UNCHANGED tlsVars
  <2>1. UNCHANGED <<pc, op, rest, eng, writeError, sock, incoming, served, written, got>>
    BY <1>1 DEF tlsVars, callVars, sslVars, socketVars, serverVars, historyVars
  <2>2. /\ incoming \in Seq(UnitsOf(FromServer)) /\ written + Len(rest) <= MaxWritten
        /\ (pc # "idle" /\ op = "read" => ~writeError)
    BY DEF ChannelInv
  <2> QED
    BY <2>1, <2>2, StayingSteps DEF Moves
<1>2. CASE User \/ Loop \/ Environment
  BY <1>2, UserMoves, LoopMoves, EnvironmentMoves
<1> QED
  BY <1>1, <1>2 DEF TlsNext

LEMMA ChannelInvariant == TlsSpec => [](TlsInv /\ ChannelInv)
<1>1. TlsInit => TlsInv /\ ChannelInv
  BY TlsInvInit, ChannelInvInit
<1>2. TlsInv /\ ChannelInv /\ [TlsNext]_tlsVars => (TlsInv /\ ChannelInv)'
  BY TlsInvStep, ChannelStep
<1> QED
  BY <1>1, <1>2, PTL DEF TlsSpec

Out == IF Live THEN Queued ELSE << >>

\* What is queued follows from what was written and what the server has.
LEMMA OutIs ==
  ASSUME TlsInv, Live
  PROVE  Out = Ints(Len(served), written - Len(served))
<1>1. /\ served \in Seq(Nat) /\ Queued \in Seq(Nat) /\ written \in Nat /\ Out = Queued
      /\ served \o Queued = Ints(0, written)
  BY QueueTypes DEF TlsInv, QueueInv, Out
<1> DEFINE q == Queued
           m == Len(served)
<1>2. q \in Seq(Nat) /\ served \o q = Ints(0, written) /\ Out = q
  BY <1>1
<1> HIDE DEF q
<1>3. Len(served \o q) = m + Len(q) /\ Len(Ints(0, written)) = written /\ m \in Nat
  <2>1. Len(Ints(0, written)) = written
    BY <1>1, IntsSeq
  <2>2. Len(served \o q) = Len(served) + Len(q) /\ Len(served) \in Nat
    BY <1>1, <1>2, ConcatProperties
  <2> QED
    BY <2>1, <2>2
<1>4. SubSeq(served \o q, m + 1, m + Len(q)) = q
  BY <1>1, <1>2
<1>5. m \in 0..written /\ m + Len(q) = written
  <2>1. Len(q) \in Nat /\ m + Len(q) = written
    BY <1>2, <1>3
  <2> QED
    BY <1>1, <1>3, <2>1
<1>6. SubSeq(Ints(0, written), m + 1, written) = Ints(0 + m, written - m)
  BY <1>1, <1>5, IntsSplit
<1>7. 0 + m = m
  BY <1>3
<1> QED
  BY <1>2, <1>4, <1>5, <1>6, <1>7

\* The bytes written are numbered through: those at the server, then those queued.
Numbered ==
  /\ Live => Out = Ints(Len(served), written - Len(served))
  /\ ~Live => Out = << >>
  /\ Len(served) \in 0..written /\ served = Ints(0, Len(served))
  /\ written \in 0..MaxWritten

LEMMA OutIsNumbered == TlsInv /\ ChannelInv => Numbered
<1> SUFFICES ASSUME TlsInv, ChannelInv PROVE Numbered
  OBVIOUS
<1>1. ~Live => Out = << >>
  BY DEF Out
<1>2. Len(served) \in 0..written /\ served = Ints(0, Len(served))
  BY QueueTypes DEF TlsInv, QueueInv
<1>3. written \in 0..MaxWritten
  <2>1. Len(rest) \in Nat /\ written \in Nat /\ MaxWritten \in Nat
    BY QueueTypes, TlsAssumption
  <2> QED
    BY <2>1 DEF ChannelInv
<1> QED
  BY <1>1, <1>2, <1>3, OutIs DEF Numbered

LEMMA OutStaysNumbered == TlsInv' /\ ChannelInv' => Numbered'
  BY OutIsNumbered, PTL

UnreadTyped == Unread \in Seq(FromServer)

LEMMA UnreadStaysTyped == ChannelInv' => UnreadTyped'
<1>1. ChannelInv => UnreadTyped
  BY InputTypes DEF UnreadTyped
<1> QED
  BY <1>1, PTL

LEMMA Halves ==
  ASSUME NEW T, NEW s \in Seq(T), NEW t \in Seq(T)
  PROVE  /\ Len(s \o t) = Len(s) + Len(t)
         /\ SubSeq(s \o t, 1, Len(s)) = s
         /\ SubSeq(s \o t, Len(s) + 1, Len(s) + Len(t)) = t
<1>1. SubSeq(s \o t, 1, Len(s)) = s
  OBVIOUS
<1>2. SubSeq(s \o t, Len(s) + 1, Len(s) + Len(t)) = t
  OBVIOUS
<1> QED
  BY <1>1, <1>2

LEMMA LongEnough ==
  ASSUME NEW T, NEW s \in Seq(T), s # << >>
  PROVE  Len(s) \in Nat \ {0}
OBVIOUS

LEMMA LiveIsBoolean == Live \in BOOLEAN /\ Live' \in BOOLEAN
BY DEF Live

LEMMA PutIsStep ==
  ASSUME Numbered, Numbered', Puts, ~Live \/ Live'
  PROVE  [Channels!ChannelNext]_(Channels!channelVars)
<1>1. UNCHANGED <<served, got, Unread>> /\ Live' = Live
  BY LiveIsBoolean DEF Puts
<1>2. CASE ~Live
  <2>1. Out' = Out
    BY <1>1, <1>2 DEF Numbered
  <2> QED
    BY <1>1, <2>1 DEF Channels!channelVars, Out
<1>3. CASE Live
  <2> DEFINE m == Len(served)
             n == written - m
             k == written' - m
  <2>1. /\ Out = Ints(m, n) /\ Out' = Ints(m, k)
        /\ m \in Nat /\ n \in 0..k /\ n < k /\ k \in Nat /\ m + k <= MaxWritten
    <3>1. m \in 0..written /\ written \in Nat /\ written' \in 0..MaxWritten
      BY TlsAssumption DEF Numbered
    <3>2. written < written'
      BY DEF Puts
    <3>3. n \in Nat /\ k \in Nat /\ n < k /\ m + k <= MaxWritten
      BY <3>1, <3>2, TlsAssumption
    <3>4. Out = Ints(m, n) /\ Out' = Ints(m, k)
      BY <1>1, <1>3 DEF Numbered
    <3> QED
      BY <3>1, <3>3, <3>4
  <2> HIDE DEF m, n, k
  <2>2. /\ Out \in Seq(Nat) /\ Len(Out) = n /\ Out' \in Seq(Nat) /\ Len(Out') = k
        /\ \A i \in 1..k : Out'[i] = m + i
    <3>1. n \in Nat
      BY <2>1
    <3>2. Ints(m, n) \in Seq(Nat) /\ Len(Ints(m, n)) = n
      BY <2>1, <3>1, IntsSeq
    <3>3. /\ Ints(m, k) \in Seq(Nat) /\ Len(Ints(m, k)) = k
          /\ \A i \in 1..k : Ints(m, k)[i] = m + i
      BY <2>1, IntsSeq
    <3> QED
      BY <2>1, <3>2, <3>3
  <2>3. SubSeq(Out', 1, Len(Out)) = Out
    BY <2>1, <2>2, IntsSplit
  <2>4. Out' \in Seq(1..MaxWritten \cup 1..MaxSupplied)
    <3>1. \A i \in 1..k : Out'[i] \in 1..MaxWritten \cup 1..MaxSupplied
      BY <2>1, <2>2, TlsAssumption
    <3> QED
      BY <2>2, <3>1
  <2>5. Channels!Put
    BY <1>1, <1>3, <2>1, <2>2, <2>3, <2>4 DEF Channels!Put, Out
  <2> QED
    BY <2>5 DEF Channels!ChannelNext
<1> QED
  BY <1>2, <1>3

LEMMA DeliverIsStep ==
  ASSUME Numbered, Numbered', Delivers, served \in Seq(Nat)
  PROVE  [Channels!ChannelNext]_(Channels!channelVars)
<1> DEFINE m == Len(served)
           n == Len(served') - m
           k == written - m
<1>1. UNCHANGED <<written, got, Unread>> /\ Live /\ Live'
  BY DEF Delivers
<1>2. PICK d \in Seq(Nat) : d # << >> /\ served' = served \o d
  BY DEF Delivers
<1>3. Len(d) \in Nat \ {0} /\ Len(served') = Len(served) + Len(d) /\ Len(served) \in Nat
  <2>1. Len(d) \in Nat \ {0}
    BY <1>2, LongEnough
  <2>2. Len(served \o d) = Len(served) + Len(d)
    OBVIOUS
  <2> QED
    BY <1>2, <2>1, <2>2
<1>4. m \in Nat /\ k \in Nat /\ n \in 1..k /\ written - (m + n) = k - n /\ m + n = Len(served')
  <2>1. Len(served') \in 0..written' /\ written' = written /\ written \in Nat
    BY <1>1, TlsAssumption DEF Numbered
  <2> QED
    BY <1>3, <2>1
<1>5. /\ Out = Ints(m, k) /\ Out' = Ints(m + n, k - n)
      /\ served = Ints(0, m) /\ served' = Ints(0, m + n)
  <2>1. Out = Ints(m, k) /\ served = Ints(0, m)
    BY <1>1 DEF Numbered
  <2>2. Out' = Ints(Len(served'), written - Len(served')) /\ served' = Ints(0, Len(served'))
    BY <1>1 DEF Numbered
  <2> QED
    BY <1>4, <2>1, <2>2
<1> HIDE DEF m, n, k
<1>6. /\ Len(Out) = k
      /\ SubSeq(Out, 1, n) = Ints(m, n) /\ SubSeq(Out, n + 1, k) = Ints(m + n, k - n)
  <2>1. Len(Ints(m, k)) = k /\ n \in 0..k
    BY <1>4, IntsSeq
  <2>2. /\ SubSeq(Ints(m, k), 1, n) = Ints(m, n)
        /\ SubSeq(Ints(m, k), n + 1, k) = Ints(m + n, k - n)
    BY <1>4, <2>1, IntsSplit
  <2> QED
    BY <1>5, <2>1, <2>2
<1>7. Ints(0, m) \o Ints(m, n) = Ints(0, m + n)
  <2>1. Ints(0, m) \o Ints(0 + m, n) = Ints(0, m + n)
    <3>1. 0 \in Nat /\ m \in Nat /\ n \in Nat
      BY <1>4
    <3> QED
      BY <3>1, IntsConcat
  <2> QED
    BY <1>4, <2>1
<1>8. n \in 1..Len(Out) /\ served' = served \o SubSeq(Out, 1, n)
      /\ Out' = SubSeq(Out, n + 1, Len(Out))
  BY <1>4, <1>5, <1>6, <1>7
<1>9. Live' = Live
  BY <1>1, LiveIsBoolean
<1>10. Channels!Deliver
  BY <1>1, <1>8, <1>9 DEF Channels!Deliver, Out
<1> QED
  BY <1>10 DEF Channels!ChannelNext

\* The queue to the server is left as it is by a step that writes and delivers nothing.
LEMMA OutKept ==
  ASSUME Numbered, Numbered', Live' <=> Live, UNCHANGED <<served, written>>
  PROVE  Live' = Live /\ Out' = Out
BY LiveIsBoolean DEF Numbered

LEMMA WiderSeq ==
  ASSUME NEW S, NEW T, NEW s \in Seq(S)
  PROVE  s \in Seq(S \cup T) /\ s \in Seq(T \cup S)
OBVIOUS

LEMMA InputIsStep ==
  ASSUME Numbered, Numbered', UnreadTyped, UnreadTyped', Supplies \/ Takes \/ Discards
  PROVE  [Channels!ChannelNext]_(Channels!channelVars)
<1>1. (Live' <=> Live) /\ UNCHANGED <<served, written>>
  BY DEF Supplies, Takes, Discards
<1>2. Live' = Live /\ Out' = Out
  BY <1>1, OutKept
<1>3. CASE Supplies
  <2>1. PICK d \in Seq(FromServer) : d # << >> /\ Unread' = Unread \o d
    BY <1>3 DEF Supplies
  <2>2. /\ Len(Unread') = Len(Unread) + Len(d) /\ SubSeq(Unread', 1, Len(Unread)) = Unread
        /\ Len(d) \in Nat \ {0} /\ Len(Unread) \in Nat
    BY <2>1, Halves, LongEnough DEF UnreadTyped
  <2>3. Unread' \in Seq(1..MaxWritten \cup 1..MaxSupplied)
    BY WiderSeq DEF UnreadTyped, FromServer
  <2>4. Len(Unread) < Len(Unread')
    BY <2>2
  <2>5. Channels!Supply
    BY <1>1, <1>2, <1>3, <2>2, <2>3, <2>4 DEF Channels!Supply, Supplies, Out
  <2> QED
    BY <2>5 DEF Channels!ChannelNext
<1>4. CASE Takes \/ Discards
  <2>1. PICK d \in Seq(FromServer) :
          /\ d # << >> /\ Unread = d \o Unread'
          /\ Takes => got' = got \o d
          /\ ~Takes => got' = got
    BY <1>4 DEF Takes, Discards
  <2> DEFINE n == Len(d)
  <2>2. /\ Len(Unread) = n + Len(Unread') /\ n \in Nat \ {0} /\ Len(Unread') \in Nat
        /\ SubSeq(Unread, 1, n) = d /\ SubSeq(Unread, n + 1, n + Len(Unread')) = Unread'
    BY <2>1, Halves, LongEnough DEF UnreadTyped
  <2> HIDE DEF n
  <2>3. n \in 1..Len(Unread)
    BY <2>2
  <2>4. SubSeq(Unread, n + 1, Len(Unread)) = Unread'
    BY <2>2
  <2>5. CASE Takes
    <3>1. Channels!Take
      BY <1>1, <1>2, <2>1, <2>2, <2>3, <2>4, <2>5 DEF Channels!Take, Out
    <3> QED
      BY <3>1 DEF Channels!ChannelNext
  <2>6. CASE ~Takes
    <3>1. Channels!Discard
      BY <1>1, <1>2, <2>1, <2>3, <2>4, <2>6 DEF Channels!Discard, Out
    <3> QED
      BY <3>1 DEF Channels!ChannelNext
  <2> QED
    BY <2>5, <2>6
<1> QED
  BY <1>3, <1>4

LEMMA EndIsStep ==
  ASSUME Numbered', UnreadTyped, UnreadTyped', Begins \/ Ends
  PROVE  [Channels!ChannelNext]_(Channels!channelVars)
<1>1. Live' = FALSE /\ Out' = << >>
  BY LiveIsBoolean DEF Numbered, Begins, Ends
<1>2. CASE Begins
  <2>1. Channels!Begin
    BY <1>1, <1>2 DEF Begins, Channels!Begin, Out
  <2> QED
    BY <2>1 DEF Channels!ChannelNext
<1>3. CASE Ends
  <2>1. PICK d \in Seq(FromServer) : Unread = Unread' \o d
    BY <1>3 DEF Ends
  <2> DEFINE n == Len(Unread')
  <2>2. Len(Unread) = n + Len(d) /\ n \in Nat /\ Len(d) \in Nat /\ SubSeq(Unread, 1, n) = Unread'
    BY <2>1, Halves DEF UnreadTyped
  <2> HIDE DEF n
  <2>3. n \in 0..Len(Unread)
    BY <2>2
  <2>4. Channels!Close
    BY <1>1, <1>3, <2>2, <2>3 DEF Ends, Channels!Close, Out
  <2> QED
    BY <2>4 DEF Channels!ChannelNext
<1> QED
  BY <1>2, <1>3

LEMMA OpenIsStep ==
  ASSUME Numbered, Numbered', Opens
  PROVE  [Channels!ChannelNext]_(Channels!channelVars)
<1>1. /\ Live = FALSE /\ Live' = TRUE /\ served = << >> /\ got = << >>
      /\ UNCHANGED <<served, got, Unread>> /\ written' = 0
  BY LiveIsBoolean DEF Opens
<1>2. Out = << >> /\ Out' = Ints(0, 0)
  <2>1. Len(<< >>) = 0
    OBVIOUS
  <2> QED
    BY <1>1, <2>1 DEF Numbered
<1>3. Ints(0, 0) = << >>
  BY NoInts
<1>4. Channels!Open
  BY <1>1, <1>2, <1>3 DEF Channels!Open, Out
<1> QED
  BY <1>4 DEF Channels!ChannelNext

LEMMA MovesAreSteps ==
  ASSUME TlsInv, TlsInv', ChannelInv, ChannelInv', Moves
  PROVE  [Channels!ChannelNext]_(Channels!channelVars)
<1>1. Numbered /\ Numbered' /\ UnreadTyped /\ UnreadTyped' /\ served \in Seq(Nat)
  BY OutIsNumbered, OutStaysNumbered, UnreadStaysTyped, InputTypes, QueueTypes DEF UnreadTyped
<1>2. CASE Stays
  <2>1. Live' = Live /\ Out' = Out /\ UNCHANGED <<served, got, Unread>>
    BY <1>1, <1>2, OutKept DEF Stays
  <2> QED
    BY <2>1 DEF Channels!channelVars, Out
<1>3. CASE Puts
  <2>1. ~Live \/ Live'
    BY <1>3 DEF Puts
  <2> QED
    BY <1>1, <1>3, <2>1, PutIsStep
<1>4. CASE Delivers
  BY <1>1, <1>4, DeliverIsStep
<1>5. CASE Supplies \/ Takes \/ Discards
  BY <1>1, <1>5, InputIsStep
<1>6. CASE Begins \/ Ends
  BY <1>1, <1>6, EndIsStep
<1>7. CASE Opens
  BY <1>1, <1>7, OpenIsStep
<1> QED
  BY <1>2, <1>3, <1>4, <1>5, <1>6, <1>7 DEF Moves

LEMMA ChannelInitially == TlsInit => Channels!ChannelInit
<1> SUFFICES ASSUME TlsInit PROVE Channels!ChannelInit
  OBVIOUS
<1>1. Live = FALSE /\ Unread = << >> /\ served = << >> /\ got = << >>
  <2>1. CLOSED(eng)
    BY EngineBegins, EngineFails DEF TlsInit
  <2> QED
    BY <2>1 DEF TlsInit, Live, Unread
<1> QED
  BY <1>1 DEF Channels!ChannelInit

\* The client, its engine and its socket are to the user the two queues of bytes that
\* Channel promises: nothing is lost but by the end, by a discard, or by a new connection
\* (SSLClient.cpp:93-235, 426-550; ssl_engine.c:566-640).
THEOREM ClientIsChannel == TlsSpec => IsChannel
<1>1. TlsInv /\ ChannelInv /\ TlsInv' /\ ChannelInv' /\ [TlsNext]_tlsVars
        => [Channels!ChannelNext]_(Channels!channelVars)
  BY ChannelStep, MovesAreSteps
<1> QED
  BY <1>1, ChannelInitially, ChannelInvariant, PTL
     DEF TlsSpec, IsChannel, Channels!ChannelSpec

LEMMA BeginsWith ==
  ASSUME NEW T, NEW s \in Seq(T), NEW t \in Seq(T)
  PROVE  IsPrefix(s, s) /\ IsPrefix(s, s \o t)
<1>1. Len(s \o t) = Len(s) + Len(t) /\ Len(s) \in Nat /\ Len(t) \in Nat
  OBVIOUS
<1>2. SubSeq(s \o t, 1, Len(s)) = s /\ SubSeq(s, 1, Len(s)) = s
  OBVIOUS
<1> QED
  BY <1>1, <1>2 DEF IsPrefix

\* No step of an open connection skips input, but a call that must send or stops
\* (SSLClient.cpp:205-229, 437-452; ssl_engine.c:566-600).
THEOREM NothingIsSkipped == TlsSpec => ReadSkipsNothing
<1>1. ASSUME TlsInv, ChannelInv, ChannelInv', Moves, Live, Live',
             op' \notin {"connect", "write", "stop"}
      PROVE  IsPrefix(got \o Unread, got' \o Unread')
  <2>1. got \in Seq(Nat) /\ Unread \in Seq(Nat) /\ Unread' \in Seq(Nat)
    <3>1. UnreadTyped /\ UnreadTyped'
      BY <1>1, InputTypes, UnreadStaysTyped DEF UnreadTyped
    <3>2. FromServer \cup Nat = Nat
      BY DEF FromServer
    <3> QED
      BY <1>1, <3>1, <3>2, WiderSeq DEF UnreadTyped, TlsInv, ClientTypes
  <2>2. FromServer \cup Nat = Nat
    BY DEF FromServer
  <2>3. CASE Stays \/ Puts \/ Delivers
    <3>1. got' = got /\ Unread' = Unread
      BY <2>3 DEF Stays, Puts, Delivers
    <3>2. got \o Unread \in Seq(Nat)
      BY <2>1
    <3> QED
      BY <3>1, <3>2, BeginsWith
  <2>4. CASE Supplies
    <3>1. PICK d \in Seq(FromServer) : Unread' = Unread \o d /\ got' = got
      BY <2>4 DEF Supplies
    <3>2. d \in Seq(Nat) /\ got \o Unread \in Seq(Nat)
      BY <2>1, <2>2, WiderSeq
    <3> DEFINE u == Unread
    <3>3. u \in Seq(Nat)
      BY <2>1
    <3> HIDE DEF u
    <3>4. (got \o u) \o d = got \o (u \o d)
      <4>1. Groups(got, u, d)
        BY <2>1, <3>2, <3>3, Grouped
      <4>2. QED
        BY <4>1, Zenon DEF Groups
    <3>5. got' \o Unread' = (got \o Unread) \o d
      BY <3>1, <3>4 DEF u
    <3> QED
      BY <3>2, <3>5, BeginsWith
  <2>5. CASE Takes
    <3>1. PICK d \in Seq(FromServer) : Unread = d \o Unread' /\ got' = got \o d
      BY <2>5 DEF Takes
    <3>2. d \in Seq(Nat) /\ got \o Unread \in Seq(Nat)
      BY <2>1, <2>2, WiderSeq
    <3> DEFINE u == Unread'
    <3>3. u \in Seq(Nat)
      BY <2>1
    <3> HIDE DEF u
    <3>4. (got \o d) \o u = got \o (d \o u)
      <4>1. Groups(got, d, u)
        BY <2>1, <3>2, <3>3, Grouped
      <4>2. QED
        BY <4>1, Zenon DEF Groups
    <3>5. got' \o Unread' = got \o Unread
      BY <3>1, <3>4 DEF u
    <3> QED
      BY <3>2, <3>5, BeginsWith
  <2> QED
    BY <1>1, <2>3, <2>4, <2>5 DEF Moves, Begins, Opens, Discards, Ends
<1>2. /\ TlsInv /\ ChannelInv /\ TlsInv' /\ ChannelInv' /\ [TlsNext]_tlsVars
      => [Live /\ Live' /\ op' \notin {"connect", "write", "stop"}
            => IsPrefix(got \o Unread, got' \o Unread')]_tlsVars
  BY <1>1, ChannelStep
<1> QED
  BY <1>2, ChannelInvariant, PTL DEF TlsSpec, ReadSkipsNothing
=============================================================================
