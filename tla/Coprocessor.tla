----------------------------- MODULE Coprocessor -----------------------------
(***************************************************************************)
(* The firmware of the coprocessor (the ESP32): the loop of its main.cpp,  *)
(* which turns the bytes of the command line into presses and releases on  *)
(* a Bluetooth keyboard and, while a stream is on, types what the debug    *)
(* line brings.                                                            *)
(*                                                                         *)
(* The Bluetooth keyboard library and the computer are external: a report  *)
(* is the set of all codes held, and each change sends the whole of it.    *)
(* The light effects themselves and the joysticks (which press and release *)
(* keys of their own, with pauses of half a second) are left out: a pause  *)
(* is the loop not taking its next step.                                   *)
(***************************************************************************)
EXTENDS Link, FiniteSets

CONSTANTS
  RxRoom,      \* bytes the receiver of the command line can hold
  DebugRoom,   \* items the receiver of the debug line can hold
  ReportRoom,  \* codes a report has room for
  ConnectionLasts \* whether the computer, once connected, stays so

ASSUME RoomAssumption ==
  /\ RxRoom \in Nat \ {0} /\ DebugRoom \in Nat
  /\ ReportRoom \in Nat \ {0}
  /\ ConnectionLasts \in BOOLEAN

VARIABLES
  rx,             \* received bytes of the command line
  rxDebug,        \* received items of the debug line
  coPc,           \* the part of loop() that runs: "top", "commands" or "typing"
  connected,      \* the computer is connected
  stramingResult, \* between STREAMSTARTCODE and STREAMDONECODE
  sleepMode,      \* the lights are dark
  report,         \* external: codes in the report of the keyboard library
  host,           \* external: codes the computer sees down
  crowded,        \* history: a press found no room in the report
  overtyped,      \* history: a stream typed a character whose key was held
  echoed          \* history: a byte was no command and went back on the debug line

rxVars  == <<rx, rxDebug>>
bleVars == <<connected, report, host, crowded>>
coVars  == <<rxVars, coPc, stramingResult, sleepMode, bleVars, overtyped, echoed>>

CoInit ==
  /\ rx = << >> /\ rxDebug = << >>
  /\ coPc = "top" /\ connected = FALSE
  /\ stramingResult = FALSE /\ sleepMode = FALSE
  /\ report = {} /\ host = {} /\ crowded = FALSE
  /\ overtyped = FALSE /\ echoed = FALSE

-----------------------------------------------------------------------------
(* External: the receivers, the keyboard library, the computer *)

\* A receiver that is full drops what arrives.
Received(queue, item, room) == IF Len(queue) < room THEN Append(queue, item) ELSE queue

SendReport(keys) == /\ report' = keys
                    /\ host' = IF connected THEN keys ELSE host
                    /\ UNCHANGED crowded

\* A press that finds no room in the report sends none.
press(c) == IF c \in report \/ Cardinality(report) < ReportRoom
            THEN SendReport(report \cup {c})
            ELSE crowded' = TRUE /\ UNCHANGED <<report, host>>
release(c) == SendReport(report \ {c})

\* write is a press and a release of each character: a key that was held is no longer.
write(text) ==
  /\ SendReport(report \ text)
  /\ overtyped' = (overtyped \/ report \cap text # {})

\* A computer that loses its keyboard takes its keys for released; the library keeps its
\* report and does not send it again by itself.
Connect ==
  /\ ~(ConnectionLasts /\ connected)
  /\ connected' = ~connected
  /\ host' = {}
  /\ UNCHANGED <<rxVars, coPc, stramingResult, sleepMode, report, crowded, overtyped, echoed>>

-----------------------------------------------------------------------------
(* loop() *)

\* Nothing is read while the computer is not connected.
EnterCommands ==
  /\ coPc = "top" /\ connected
  /\ coPc' = "commands"
  /\ UNCHANGED <<rxVars, stramingResult, sleepMode, bleVars, overtyped, echoed>>

Command == coPc = "commands" /\ rx # << >>

\* The argument of a command is read five milliseconds after its first byte, whether it
\* has come or not: a read of an empty receiver gives 255.
\* (Mutant: it is not waited for.)
HasArgumentAtOnce(silent) == TRUE
HasArgument(silent) == Len(rx) >= 2 \/ silent
\* (Mutant: the failed read's -1 is kept as it is.)
ArgumentInt == IF Len(rx) >= 2 THEN rx[2] ELSE 0 - 1
Argument == IF Len(rx) >= 2 THEN rx[2] ELSE 255
\* (Mutant: the argument is left in the receiver.)
DropCommandOnly == Tail(rx)
DropCommand == SubSeq(rx, 3, Len(rx))

PressKey(silent) ==
  /\ Command /\ Head(rx) = KBDPRESSCODE
  /\ HasArgument(silent)
  /\ press(Argument)
  /\ rx' = DropCommand
  /\ UNCHANGED <<rxDebug, coPc, connected, stramingResult, sleepMode, overtyped, echoed>>

ReleaseKey(silent) ==
  /\ Command /\ Head(rx) = KBDRELEASECODE
  /\ HasArgument(silent)
  /\ release(Argument)
  /\ rx' = DropCommand
  /\ UNCHANGED <<rxDebug, coPc, connected, stramingResult, sleepMode, overtyped, echoed>>

LightMode(silent) ==
  /\ Command /\ Head(rx) = LEDCHANGEHEADER
  /\ HasArgument(silent)
  /\ rx' = DropCommand
  /\ UNCHANGED <<rxDebug, coPc, stramingResult, sleepMode, bleVars, overtyped, echoed>>

LightSleep(silent) ==
  /\ Command /\ Head(rx) = LEDSLEEPMODEHEADER
  /\ HasArgument(silent)
  /\ sleepMode' = CASE Argument = 49 -> TRUE
                    [] Argument = 48 -> FALSE
                    [] OTHER -> sleepMode
  /\ rx' = DropCommand
  /\ UNCHANGED <<rxDebug, coPc, stramingResult, bleVars, overtyped, echoed>>

\* What the debug line has brought so far is thrown away, over half a second.
StreamBegin(debugSilent) ==
  /\ Command /\ Head(rx) = STREAMSTARTCODE
  /\ debugSilent
  /\ rx' = Tail(rx) /\ rxDebug' = << >>
  /\ stramingResult' = TRUE
  /\ UNCHANGED <<coPc, sleepMode, bleVars, overtyped, echoed>>

\* Five milliseconds later, whatever is left on the debug line.  (Mutant: the flag stays.)
StreamFinishUnset(debugSilent) ==
  /\ Command /\ Head(rx) = STREAMDONECODE
  /\ debugSilent
  /\ rx' = Tail(rx)
  /\ UNCHANGED <<rxDebug, coPc, stramingResult, sleepMode, bleVars, overtyped, echoed>>
StreamFinish(debugSilent) ==
  /\ Command /\ Head(rx) = STREAMDONECODE
  /\ debugSilent
  /\ rx' = Tail(rx)
  /\ stramingResult' = FALSE
  /\ UNCHANGED <<rxDebug, coPc, sleepMode, bleVars, overtyped, echoed>>

EchoByte ==
  /\ Command
  /\ Head(rx) \notin {KBDPRESSCODE, KBDRELEASECODE, LEDCHANGEHEADER, LEDSLEEPMODEHEADER,
                      STREAMSTARTCODE, STREAMDONECODE}
  /\ rx' = Tail(rx)
  /\ echoed' = TRUE
  /\ UNCHANGED <<rxDebug, coPc, stramingResult, sleepMode, bleVars, overtyped>>

EnterTyping ==
  /\ coPc = "commands" /\ rx = << >>
  /\ coPc' = "typing"
  /\ UNCHANGED <<rxVars, stramingResult, sleepMode, bleVars, overtyped, echoed>>

\* Only characters of seven bits are typed.
Typeable == 0 .. 127

\* A line of debug text is several characters, and may hold those of any held keys.
TypeChar ==
  /\ coPc = "typing" /\ stramingResult /\ rxDebug # << >>
  /\ rxDebug' = Tail(rxDebug)
  /\ \/ Head(rxDebug) \in Typeable /\ write({Head(rxDebug)})
     \/ /\ Head(rxDebug) = DebugText
        /\ \E text \in SUBSET (report \cap Typeable) : write(text)
     \/ /\ Head(rxDebug) \notin Typeable \cup {DebugText}
        /\ UNCHANGED <<report, host, crowded, overtyped>>
  /\ UNCHANGED <<rx, coPc, connected, stramingResult, sleepMode, echoed>>

EndPass ==
  /\ coPc = "typing" /\ ~(stramingResult /\ rxDebug # << >>)
  /\ coPc' = "top"
  /\ UNCHANGED <<rxVars, stramingResult, sleepMode, bleVars, overtyped, echoed>>

\* silent: nothing more is on its way on the command line; debugSilent: on the debug line.
Coprocess(silent, debugSilent) ==
  \/ EnterCommands \/ PressKey(silent) \/ ReleaseKey(silent)
  \/ LightMode(silent) \/ LightSleep(silent) \/ StreamBegin(debugSilent)
  \/ StreamFinish(debugSilent)
  \/ EchoByte \/ EnterTyping \/ TypeChar \/ EndPass
=============================================================================
