------------------------------ MODULE KaiBoard ------------------------------
(***************************************************************************)
(* The keyboard controller and the coprocessor, joined by the two lines    *)
(* between them.  Bytes travel one at a time; a restart of the controller  *)
(* loses what its transmitters still hold, a full receiver drops what      *)
(* arrives, and nothing on the command line is acknowledged or framed      *)
(* (LEDCHANGEFOOTER exists and is never sent).                             *)
(***************************************************************************)
EXTENDS Keyboard, Coprocessor, SequencesExt

VARIABLES
  lost,  \* history: a byte of the command line was lost
  cut,   \* history: the controller restarted while it streamed, and has not streamed since
  parted \* history: it restarted between the display and the lights of one sleep or wake-up,
         \* and has finished none since

linkVars == <<lost, cut, parted>>
boardVars == <<vars, coVars, linkVars>>

BoardInit ==
  /\ Init /\ CoInit
  /\ lost = FALSE /\ cut = FALSE /\ parted = FALSE

\* Between the display and the lights.
Parting == {"dark", "waking"}

-----------------------------------------------------------------------------

Key     == PinChange /\ UNCHANGED <<coVars, linkVars>>

ControllerStep ==
  /\ Controller
  /\ cut' = (cut /\ ~(pc = "switch" /\ pc' = "stream"))
  /\ parted' = (parted /\ pc \notin Parting)
  /\ UNCHANGED <<coVars, lost>>

ControllerReset ==
  /\ Reset
  /\ lost' = (lost \/ uart # << >>)
  /\ cut' = (cut \/ pc = "stream")
  /\ parted' = (parted \/ pc \in Parting)
  /\ UNCHANGED coVars

TransmitByte ==
  /\ uart # << >>
  /\ uart' = Tail(uart)
  /\ rx' = Received(rx, Head(uart), RxRoom)
  /\ lost' = (lost \/ Len(rx) = RxRoom)
  /\ UNCHANGED <<pinVars, scanVars, pc, modeVars, STATE_GENERATIVE_TRACKER, sensorVars,
                 textVars, serial, resets, heldVars, rxDebug, coPc, stramingResult, sleepMode,
                 bleVars, overtyped, echoed, cut, parted>>

TransmitDebug ==
  /\ serial # << >>
  /\ serial' = Tail(serial)
  /\ rxDebug' = Received(rxDebug, Head(serial), DebugRoom)
  /\ UNCHANGED <<pinVars, scanVars, pc, modeVars, STATE_GENERATIVE_TRACKER, sensorVars,
                 textVars, uart, resets, heldVars, rx, coPc, stramingResult, sleepMode,
                 bleVars, overtyped, echoed, linkVars>>

\* The transmitters empty themselves long before the coprocessor stops waiting for them.
CoprocessorStep ==
  /\ Coprocess(uart = << >>, serial = << >>)
  /\ UNCHANGED <<vars, linkVars>>

Connection == Connect /\ UNCHANGED <<vars, linkVars>>

BoardNext ==
  \/ Key \/ ControllerStep \/ ControllerReset \/ TransmitByte \/ TransmitDebug
  \/ CoprocessorStep \/ Connection

BoardSpec == BoardInit /\ [][BoardNext]_boardVars

\* Both loops run and the lines transmit; nothing makes the computer connect.
BoardFairSpec ==
  /\ BoardSpec
  /\ WF_boardVars(ControllerStep) /\ WF_boardVars(CoprocessorStep)
  /\ WF_boardVars(TransmitByte) /\ WF_boardVars(TransmitDebug)

-----------------------------------------------------------------------------
(* Properties *)

BoardTypeOK ==
  /\ TypeOK
  /\ rx \in Seq(Byte) /\ Len(rx) <= RxRoom
  /\ rxDebug \in Seq(DebugItem) /\ Len(rxDebug) <= DebugRoom
  /\ coPc \in {"top", "commands", "typing"}
  /\ {connected, stramingResult, sleepMode, crowded, overtyped, echoed, lost, cut, parted}
       \subseteq BOOLEAN
  /\ report \subseteq Byte /\ host \subseteq report
  /\ Cardinality(report) <= ReportRoom

\* What the coprocessor will have taken from the command line once it has read all that is
\* on its way: the codes held, whether the lights are dark, whether a stream is on, and a
\* command that still lacks its argument.
Take(s, b) ==
  CASE s.command = KBDPRESSCODE   -> [s EXCEPT !.command = 0, !.held = @ \cup {b}]
    [] s.command = KBDRELEASECODE -> [s EXCEPT !.command = 0, !.held = @ \ {b}]
    [] s.command = LEDSLEEPMODEHEADER -> [s EXCEPT !.command = 0, !.dark = (b = 49)]
    [] s.command = LEDCHANGEHEADER    -> [s EXCEPT !.command = 0]
    [] s.command = 0 /\ b = STREAMSTARTCODE -> [s EXCEPT !.streaming = TRUE]
    [] s.command = 0 /\ b = STREAMDONECODE  -> [s EXCEPT !.streaming = FALSE]
    [] OTHER -> [s EXCEPT !.command = b]
Outcome ==
  FoldLeft(Take, [held |-> report, dark |-> sleepMode, streaming |-> stramingResult,
                  command |-> 0], rx \o uart)

\* As long as no byte was lost, no press came when the report was full, and no stream typed
\* over a held key, what the computer is told to hold down is what the controller reported,
\* less what is still on its way, though the code of the Delete key is also the first byte
\* of a light command (keyboard_map.h:65, Coprocessor.h:36, 72).
KeysInFlight ==
  ~lost /\ ~crowded /\ ~overtyped => Outcome.held = sentHeld /\ Outcome.command = 0

\* The same of the lights: they go dark and come back with the display.  Only in the second
\* between the two (logic.h:79-86) they differ, or for longer if a restart fell into it: then
\* until the next whole sleep or wake-up, and no other step mends it.
LightsInFlight == ~lost /\ ~parted /\ pc \notin Parting => Outcome.dark = lcdAsleep

\* The same of the stream: the coprocessor types the debug line only while the controller
\* streams, or after a restart in the middle of a stream (Coprocessor.h:82-97).
StreamInFlight ==
  ~lost => /\ pc = "stream" => Outcome.streaming
           /\ Outcome.streaming => pc = "stream" \/ cut

\* The coprocessor takes no argument for a command unless a byte was lost: it sends nothing
\* back on the debug line (main.cpp of the coprocessor, 335-341).
NothingEchoed == echoed => lost

\* When the keys rest and the computer stays connected, the command line drains and
\* everything reported arrives, unless a byte was lost, the report was full or a stream typed
\* over a held key (main.cpp of the coprocessor, 281-347).
KeysArrive ==
  ([]~(lost \/ crowded \/ overtyped) /\ <>[]connected /\ <>[][FALSE]_pinVars)
    => <>[](rx \o uart = << >> /\ report = sentHeld)
=============================================================================
