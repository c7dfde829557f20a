# A TLA+ model of the Generative kAiBoard firmware

The Generative kAiBoard is a keyboard with two processors. The *keyboard
controller* (an STM32) scans the keys, drives a touch display, keeps the mode
of the device and talks to a chat service over Ethernet and TLS. The
*coprocessor* (an ESP32) is a Bluetooth keyboard that does what the controller
tells it over a serial line, types the answers of the chat, and runs the
lights. This directory holds TLA+ modules for the behaviour of both firmwares,
TLC configurations that check them on small instances, and proofs checked by
TLAPS.

Paths below are relative to
`src/Software/STM32_PlatformIO/Generative_kAiboard/src/` (the controller) and
`src/Software/ESP32_PlatformIO/Generative_kAiboard_CouC/src/` (the coprocessor,
written ESP:file).

## 1. The system

| Component | State | Operations | Correct when | Hard because |
|---|---|---|---|---|
| Key matrix, special keys (`keyboard.h`, `keyboard_map.h`) | level each key was last seen at, the event of this pass | `scanKeyboard`, `scanSpecialKeys`, `processKey*` | no press or release is forgotten or reported twice | one change per scan; several positions share a code; keys move while a pass waits |
| Modes (`main.cpp`, `logic.h`) | `STATE_TRACKER`, `STATE_GENERATIVE_TRACKER` | the five cases of `loop()`, `lockdevice`, `sleepDevice`, `wakeDevice`, `to*Mode`, `streamingProcess`, `checkNFCTag` | a lock holds; a restart comes back to the mode; display, lights and mode agree | handlers wait up to six seconds with the mode half changed; lock and sleep act on press *and* release, in every mode |
| EEPROM (`EEPROM.h`) | the mode byte, four bytes of key counter | `safeCurrentState`, `safeKeycountEEP` | what is read back is what was saved | a write may fail and nobody looks; the counter is written byte by byte |
| Lines to the coprocessor (`Coprocessor.h`) | two transmit and two receive buffers | `pressChar`, `releaseChar`, `changeLightMode`, `sleepModeLight`, `streamGPTResults` | both sides agree on keys, lights and stream | no frame, no acknowledgement; a restart empties transmitters; a full receiver drops; answers and debug text share a line |
| Coprocessor (`ESP:main.cpp`) | receive buffers, `stramingResult`, `sleepMode`, the report of held keys | `loop()` | it does what it was told, and no more | it waits 5 ms for an argument, and reads nothing while unconnected |
| Chat client (`openAI.h`) | `historical_messages`, the reply so far, answer box, status line | `openAI_chat_Stream` | conversation and box hold whole answers; every question ends | cut replies, failures, a deadline and a watchdog of the same length |
| Display (`LCD.h`, `logic.h`) | what is unread on its line, the generative mode | text and value requests, the choice of a mode | the prompt is the text shown, the mode the one chosen | an answer is whatever comes within half a second, terminations sent unasked included; nobody looks at the line before the text to stream is asked for; deadlines wrap |
| Tag reader, distance sensor (`NFC.h`, `ToF.h`) | initialised or not | `initNFC`, `scanNFC`, `initTof`, `scanToF` | only the owner's tag unlocks | an uninitialised count in `scanToF` |
| Watchdog (`utils.h`) | time since reload | `initWatchDog`, reload at the top of `loop()` | a hanging handler ends in a restart, a working one does not | the handlers have waits of their own |
| DHCP client (`lib/Ethernet/src/Dhcp.cpp`) | state, transaction number, address, server | `beginWithDHCP` | the address used was granted; the request ends in time | several servers, answers late, repeated, lost, or to the boot before; leases end and are never renewed |
| Sockets (`lib/Ethernet/src/socket.cpp`, `EthernetClient.cpp`, `EthernetUdp.cpp`, `Dns.cpp`, `time.h`) | the table of sockets, one datagram counter, what is left of a packet | connect, stop, send, receive; lookups; the clock's request | one holder per socket; bytes in order; every call ends that no peer holds up | users keep numbers of closed sockets; the chip hands out words, not bytes; answers late or repeated; peers that leave a connection half open |
| TLS client (`lib/SSLClient/src`) | the record engine and its one buffer, `m_write_idx`, write error | `connect`, `write`, `available`, `read`, `flush`, `stop` | bytes in order, whole, once; calls return | writes are copied behind the engine's back into the buffer records are read into; sends fail, servers close |
| Lights (`ESP:effects.h`, `XYmap.h`, `utils.h`) | running effect, pixels | effects, sliders, joysticks | no access outside the pixel map | an index that may be out of range |

How they interact: everything in the controller is called from one `loop()`,
so its only concurrency is with the keys, the coprocessor, the network and
restarts. The controller writes the *command line* (USART2) and the *debug
line* (`Serial`); the coprocessor reads both, and types what the debug line
brings while a stream is on. The display and the chat service are asked
synchronously, with time limits. The EEPROM survives restarts; the display, the
coprocessor and the computer do not notice them.

The hazards this leads to are listed, each at its line, in `PROJECT.json`.

## 2. The modules

```
KeyMap   Link                 ChatClient        Loop            TlsEngine  Channel
   \     /  \                     |           /    \               |       |
   Keyboard  Coprocessor     MCChatClient  KeyCounter Display    TlsClient --+
   |      \     /                              \    /               |
   |      KaiBoard -- MCKaiBoard               Panel            MCTlsClient
   |                                             |
   MCKeyboard                                 MCPanel
                                                       RxFifo    Sockets    Dhcp
                                                          |         |         |
                                                      MCRxFifo  MCSockets  MCDhcp
```

The proofs are in modules of their own, which extend what they are about:

| Module | Theorems about | Also uses |
|---|---|---|
| `FoldTheorems` | folds over sequences, flattening, induction | |
| `KeyboardProofs` | `Keyboard` | |
| `KaiBoardProofs` | `KaiBoard` (so `Coprocessor` too) | `KeyboardProofs`, `FoldTheorems` |
| `PanelProofs` | `Panel` (so `KeyCounter` and `Display`) | `FoldTheorems` |
| `ChatClientProofs` | `ChatClient` | `FoldTheorems` |
| `TlsClientProofs` | `TlsClient`, `TlsEngine`, the refinement of `Channel` | `FoldTheorems` |
| `SocketsProofs` | `Sockets` | |
| `EthernetProofs` | `Dhcp` and `RxFifo` | `FoldTheorems` |

The keyboard and its coprocessor:

* **KeyMap** is `keyboard_map.h`: key codes, the wiring of the matrix, and
  which codes print (with the off-by-one of `nonPrintableTotal`).
* **Link** has the codes of both lines and the bytes of each message.
* **Keyboard** is the controller. A pass of `loop()` is cut into actions where
  it waits (a `delay`, an EEPROM write, the chat, the EEPROM bus), because
  keys, the coprocessor and a restart can come in between; `pc` says where the
  pass is. Each handler of `logic.h` is an action or two: the assignment of
  `STATE_TRACKER` happens with the test that leads to it, the save, the light
  command and the display follow, in the order and with the waits between them
  that the handler has (`SleepDim` and `SleepLights`, `WakeDevice` and
  `WakeLights`). `uart` and `serial` are the transmit
  buffers. A restart (`Reset`) may come at any step and clears RAM and
  buffers. `down` and `spDown` are the physical keys. `sentHeld`, `orphaned`
  and `unsaved` are history variables, read by no guard.
* **Coprocessor** is `loop()` of the coprocessor from its test of the
  connection on. Reads of two-byte commands wait for the argument or, when the
  line is silent, read 255 as the Arduino core does. Typing a character releases
  its key if it is held, and a debug text, which is several characters, any of
  the held keys that print (`TypeChar`). The Bluetooth library
  (`press`, `release`, `write`, its report) and the computer are external.
* **KaiBoard** joins the two: bytes move one by one from `uart` to `rx` and
  from `serial` to `rxDebug`; `lost` notes a byte of the command line that a
  restart or a full receiver took, `crowded` (in Coprocessor) a press that
  met a full report, which `BleKeyboard` drops, `overtyped` a typed character whose
  key was held, and `parted` a restart in the second between the display and the
  lights.
* **Loop**, **KeyCounter**, **Display** and **Panel** look at the parts of the
  loop that depend on the clock. `millis()` wraps at `W`, `Plus` and `Minus`
  are the arithmetic of the code on it. KeyCounter counts, saves the counter
  one byte per step, and reads it back at a restart; `Shifted` and `Number` are
  the code's pointer moved along the counter and its shifts back. At the first
  power-up the bytes are zeros or, in an erased chip, all at their highest; what
  was read then is `start`. Display asks the display a question (for the mode, the
  prompt, or the text to stream) and takes for its answer whatever arrives before
  the deadline. In query mode the line is read first (`isGenerativeModeChanged`);
  `AskStream`, in streaming mode, asks without. The display is external: it
  answers late or not at all, and sends a termination now and then (`Stray`), which
  `Filtered` turns into a blank in a text and which counts as the mode when it
  comes last.
  Panel lets them take turns in a pass, under one clock and with common
  restarts. (Keyboard takes the answers of the display as given.)

The chat and its network, from the top:

* **ChatClient** is `openAI_chat_Stream` in detail; `Keyboard` only has its
  outline (`ChatConnect`, `ChatText`, `ChatReply`). The conversation is a
  sequence of messages *and separators*, as in the text the code builds. Time
  passes in ticks, with `waited` for the deadline of the client and
  `sinceReload` for the watchdog. The service is external: it refuses what it
  cannot parse or what is too long, otherwise answers in pieces, or stops.
* **Channel** is the abstract specification of a connection: two queues of
  bytes and a flag.
* **TlsEngine** is the record engine of BearSSL as operators on a record: which
  half of the buffer is in use (`iomode`), what has been read and not taken
  (`in`), what is gathered (`out`), the record to be sent (`rec`), and where
  the handshake is (`hs`), full or resumed. A record read while something is
  gathered overwrites it (`Clobbered`), as it does in the shared buffer.
* **TlsClient** is `SSLClient`. A call of the user is one run of the loop of
  `m_update_engine`, an action per turn, because records arrive, sends are
  confirmed and connections break between turns. `buffered` is what `write`
  has copied and not reported (`m_write_idx`). The socket is external but for
  what the Ethernet client does with it. `Channels` is the refinement mapping:
  `out` is what is copied, gathered, or in a record not yet handed over
  (`Queued`), `in` what is taken in or on its way (`Unread`), both empty
  once the connection carries no more data.
* **RxFifo** is the receive path of one socket, for TCP and UDP: packets of any
  length in a chip that hands out words of two bytes, and calls that ask for
  any number of bytes. The discarding reads of `parsePacket` (`GiveUpRest`) hand a
  null address to the same copy; what that does to the memory is not modelled.
* **Sockets** is the table of sockets and everybody who takes one from it: the
  clock, each name lookup, and the connection of the chat. A lookup waits once:
  "try up to three times" (`Dns.cpp:127`) is not what happens, because the result
  of a wait that timed out comes back as 65535 and the loop takes it for an
  answer. The address then stays 0.0.0.0, and the connection to it is refused.
  Connecting and stopping are two steps each, a command to the chip and the wait
  for its state, between which the peer may end the connection. Answers come
  late, repeated or not at all.
* **Dhcp** is the request for an address at power-up against several servers.
  The servers do what RFC 2131 lets them, and free an address when the time of
  its lease is over (`LeaseEnds`); the network delays, repeats and loses.

TlsClient, RxFifo and Sockets meet in what they say of the socket: TlsClient
uses a socket that gives its bytes in order and to nobody else, RxFifo and
Sockets show that the code around the chip provides that. They are not
composed in one state machine: a byte passes through them one after the other,
and the product would be far too large for TLC.

## 3. What is checked

| Run | Properties | Instance, and why it is enough |
|---|---|---|
| `forward` | `HostHeldJustified`, `ChatOnlyFromQuery`, `PinsSettle` | a Control position and the Control special key, which share a code, Enter, and the mode key; one restart; fairness. Two keys of either kind can change between two scans, of which each reports one; two keys with one code are what the scans could confuse; a change of mode in between drops releases; and Enter in the pass of the change is where the chat may be asked. States that differ only in which bytes are on the lines, or in the answer box while nobody looks at it, are taken for one (`McForwardView`; the comment there says why nothing is lost) |
| `modes` | `TypeOK`, `ModeSaved`, `LockHolds`, `DarkKeyboardOnlyByTag`, `UnknownModeLeftByKeys` | Escape, sleep and lock keys, a choice of generative mode (whose text Escape then streams); EEPROM holding 0, 1 or 255 at first; writes may fail; one restart, anywhere |
| `keys` | `BoardTypeOK`, `KeysInFlight`, `KeysArrive` | the Delete key, whose code 212 is also a command byte; receiver of four bytes, so that it overflows in the middle of a command; connection comes and goes; one restart; fairness. No stream: with one the instance has over thirty million states, so that the exemption of a stream that types over a held key is not exercised here |
| `lights` | `LightsInFlight`, `NothingEchoed` | the sleep key (and the sensor that wakes), whose digits are no command bytes; one restart, also between the display and the lights |
| `stream` | `StreamInFlight` | Escape in query mode, a text of one character, one restart |
| `chat` | `AnswerInOrder`, `ConversationFaithful`, `OfferedIsWhole`, `QuestionEnds` | two prompts, one of them broken, answers of one and two pieces; a request of more than seven items is too long for the service; fairness |
| `tls` | `TlsTypeOK`, `BufferNotShared`, `SentInOrder`, `ReadSkipsNothing`, `CallsReturn`, `WrittenIsSent`, `IsChannel` | records of two bytes, four bytes written and two supplied per connection: writes that fill a record, overfill it and leave it half full, and input that comes in the middle of each; any number of connections, the later ones with a session to resume; fairness |
| `fifo` | `ReadInOrder`, `CountsAgree`, `AllIsRead` | packets of up to five bytes and reads of up to four: odd and even packets and reads, in every combination, across packet borders; eleven bytes make at least three packets; fairness |
| `sockets` | `OneHolder`, `SocketIsFree`, `DatagramExact`, `AnswerOfALookup`, `ConnectEnds` | the four sockets the firmware configures, two ports for lookups (a late or repeated answer meets its port again, or does not); any number of connections, refused, left half open or ended by the peer; fairness |
| `dhcp` | `LeaseIsGranted`, `RequestIsShort` | two servers (a wrong one needs no third), two boots, three transactions each, both timeouts of one second; a lease may end at any time |
| `panel` | `CountNeverAhead`, `LossNeedsCarry`, `SaveIsTimely`, `ModeFollows`, `PromptIsText` | a counter of two bytes in base 2, so that three presses carry, at zero or erased at first; a clock of six that starts at 0 or two before its wrap; two choices of mode, three bytes or questions at a time, so that a termination can come before and after an answer; one restart |
| `retry` | `RetryWellFormed`, violated | as `chat` |

What they say:

* `HostHeldJustified`: between two passes, every code the computer was told is
  pressed has a key the scan saw down, or is *orphaned*: its release fell into
  a mode that forwards nothing, or into a restart. So the one-change-per-pass
  scan forgets nothing; mode changes and restarts do, and the model says when.
* `ModeSaved`, `LockHolds`, `UnknownModeLeftByKeys`: where RAM and EEPROM may
  differ, and every way out of locked mode and out of a byte that is no mode.
* `DarkKeyboardOnlyByTag`: the device types behind a dark display in two cases
  only: it was locked in its sleep and then unlocked by the tag, or restarted.
* `ChatOnlyFromQuery`: the pass that leaves query mode can still ask the chat,
  and nothing else outside query mode can.
* `KeysInFlight`, `LightsInFlight`, `StreamInFlight`: replaying what is still in
  the receive and transmit buffers through the command grammar (`Outcome`)
  gives exactly the keys, the darkness and the stream the controller believes
  in, unless a byte was lost (for the keys also: or a press met a full report,
  or a stream typed over a held key). Display and lights differ in the second
  between the two commands, and after a restart in that second until the next
  whole sleep or wake-up: the code has that defect (`logic.h:84`), and
  `LightsInFlight` says that nothing else parts them.
  `StreamInFlight` also names the hazard that remains: after a restart in a
  stream the coprocessor goes on typing the debug line (`cut`).
* `NothingEchoed`: the parser never loses step by itself, only by a loss.
* `KeysArrive`, `PinsSettle`, `QuestionEnds`: see *Fairness*.
* `AnswerInOrder`, `ConversationFaithful`, `OfferedIsWhole`: box and
  conversation hold the service's answers, whole, each after its question,
  through cut replies, timeouts, failures and restarts.

* `BufferNotShared`, `SentInOrder`, `ReadSkipsNothing`: no byte that waits in
  the shared buffer is overwritten by a record coming in, in whatever order
  calls, records and confirmations come; what is sent is what was written, in
  order; what is read is what was supplied, but for what a call that must send
  or stop discards. `IsChannel` says the same of each step by refinement: every
  step of the client with its engine is a step of `Channel` or none. The
  behaviour that makes this hard is the memory shared between `write`, which
  copies without telling, and the engine; what protects it is that
  `m_update_engine` reports what was copied before it looks at the input.
  A reply that overlaps the next request still loses its head
  (`SSLClient.cpp:434`): `ReadSkipsNothing` exempts the calls that discard, and a
  `Channel` may lose input, so that this is described and not excluded.
* `CallsReturn`, `WrittenIsSent`: every call returns and polling pushes out what
  was written, except where the connection ends, or where `flush` of the
  Ethernet client waits on a socket that is no longer ESTABLISHED
  (`EthernetClient.cpp:134`), which only the watchdog ends. This is about the
  client over a socket that takes a record or refuses it and whose stop returns;
  the waits in `socketDisconnect` and, for room, in `socketSend` have no limit in
  the software either (`socket.cpp:356`, `675`). The first of them is in `Sockets`.
* `ReadInOrder`, `CountsAgree`, `AllIsRead`: the byte kept back after an odd read
  is neither lost nor doubled nor stuck.
* `OneHolder`, `SocketIsFree`: a refused connection leaves the chat with the
  number of a closed socket, which the next lookup takes; they do not
  disturb each other, since the chat lets go before the lookup. The table
  never runs out.
* `DatagramExact`: the length of a datagram is wrong only after a send that timed
  out.
* `AnswerOfALookup`: all DNS requests have the same number, so that a late or
  repeated answer can pass for the present one and the chat connect to the host
  of the clock; but only an answer to a lookup from the same local port.
* `ConnectEnds`: see *Fairness*.
* `LeaseIsGranted`, `RequestIsShort`: nothing but the end of its time takes a lease
  granted in this boot from the keyboard that uses it, in whatever order offers
  and acknowledgements come; and the request takes no longer than both
  timeouts. Two defects of the code stay outside `LeaseIsGranted`: no lease is ever
  renewed (`checkLease` is not called), so that after its time the address may be
  given away; and an acknowledgement of an earlier boot is taken, since
  transaction numbers repeat.
* `CountNeverAhead`, `LossNeedsCarry`, `SaveIsTimely`: a counter torn by a restart is
  never ahead of the presses, counted from what the first power-up found (the
  highest count in an erased EEPROM), and behind what was saved only if the
  save carried or found the counter gone round; the save is due on time also
  when the clock wraps.
* `ModeFollows`: the generative mode is the one chosen on the display, through
  choices in quick succession, terminations and late answers. It is not where the
  history variable `modeDoubt` says so: the choice came while an answer was awaited
  or was read with a text (`logic.h:149` reads the line for the text to stream, and
  what the user chose there is typed or lost), or its answer was late, followed by
  a termination, or cut short.
* `PromptIsText`: the prompt, or the text to stream, is the text shown, with a
  blank for each termination. It is not when the answer did not come in time,
  when a choice came into the wait, or when the text to stream was asked for
  with something else on the line (`disturbed`).

One run looks for a violation and finds it, a disagreement between a text of
the repository and what the code does, with its finding in `PROJECT.json`:
`retry`. After "Bad Request Please retry" no request can be parsed until a
restart, since the conversation was emptied with its head and the next
question brings its separator first (`openAI.h:259-263`, `183`).

Four smaller disagreements can be read off the models and have no run: "try up
to three times" (`Dns.cpp:127`), while a lookup waits once; the
display says that the keyboard types in suggestive mode (`logic.h:6`), whose
branch of the loop is empty; "results sent" appears while the coprocessor still
holds characters it may never type (`logic.h:154`); and "timeout 30 seconds"
(`openAI.h:215`) meets a watchdog of 30 s that was reloaded earlier, so that the
wait may end in a restart.

### Bounds

`MaxResets` bounds restarts; one is enough to put a restart between any two
steps, and a second one finds the same EEPROM and empty buffers. `UartRoom`,
`SerialRoom`, `RxRoom` and `DebugRoom` are the buffers (64 to 256 bytes in the
hardware); a small buffer makes the blocking writer and the dropping receiver
happen early, and everything written in one step fits: a pass
that forwards a matrix and a special key writes four bytes, any other step at most
three. `ReportRoom`
is at least the number of keys, as the real six are meant to be.
`ConnectionLasts` switches connection losses off where a run is not about
them; the connection may still come late. In ChatClient one tick is 15 s
(`WaitTime = WatchdogTime = 2`), `ContextRoom` is what the service accepts, and
`MaxHistory` stops further questions.

In TlsClient `OutRoom` is the payload of a record, `Timeout` the 30 s of
`m_run_until` in turns without progress, `MaxWritten` and `MaxSupplied` end a
connection's traffic. In RxFifo `MaxArrived` ends the traffic. In Sockets
`MaxLength` is where the counter of pieces stays (the code counts on, and the
property only tells equal from unequal), `MaxWaiting` what a socket holds. In
Dhcp `MaxBoots` and `MaxTransactions` bound the repetition; the
servers are symmetric. In Panel `MaxPass` is the longest pass, which the
watchdog bounds in the hardware; `MaxPresses`, `MaxTouches`, `MaxAsked` and
`MaxBoots` bound the rest (a termination may come when fewer than `MaxAsked`
questions and items are about), and the constraint `McApart` leaves out behaviours
with both presses, or an erased counter, and a display that is asked or sends:
the counter and the display share only the time and the restarts, which stay.

Three runs say `CHECK_DEADLOCK FALSE`: a peer may send no more (`fifo`), the last
address request may be over (`dhcp`), and questions that may wait unanswered for
ever fill the bound `MaxAsked` (`panel`). In all others somebody can always go
on.

### Fairness

`FairSpec` and `BoardFairSpec` assume weak fairness of each firmware's loop as a
whole (both run forever and every wait in them ends) and of the transmitters
(driven by hardware). Nothing is assumed of keys, connection, tag, sensor or
display; `KeysArrive` supposes that the computer stays connected, that the keys
come to rest, that no byte is lost, no press meets a full report and no stream
types over a held key. `ChatFairSpec` assumes the client's
loop, time and the watchdog; the service owes nothing.

`TlsFairSpec` assumes that the loop of a running call goes on (it is the code's
own `for (;;)`), and that `available` is called again and again, which
`openAI.h:229-236` does while it waits for a reply: strong fairness, since the
polling comes between other calls. The server, the confirmation of a
send and the user's other calls owe nothing. `RxFairSpec` is a caller that
reads while something is available, as the loop of the TLS client and
`parsePacket` do. `SocketsFairSpec` lets the caller go on whenever a wait of it can
end, and the chip, which repeats a request only so often before it says
TIMEOUT (`ChipEnds`). No peer is fair: a connection the peer has ended before it was
looked at (CLOSE_WAIT) and a stop the peer never answers hold the caller for
ever, which `ConnectEnds` exempts by name (`PeerHolds`).

## 4. What is proved

TLAPS checks every theorem for all values of the constants that satisfy the
assumptions named below: any set of keys, any answers, any size of a buffer or
a record, any number of restarts, connections and bytes. Every invariant used
was first checked by TLC on the instance of its run.

### The keyboard and its coprocessor

`KeyboardProofs`, from `KeysAssumption`, `ValuesAssumption`,
`AnswersAssumption` and `BoundsAssumption`:

* `TypeCorrect`: `Spec => []TypeOK`, in four lemmas (`KeyTypesStep`, ...), one
  per group of variables. It rests on lemmas on the key codes (`caseMux` yields
  bytes other than zero) and on the bytes `Link` builds.
* `ModeIsSaved`: `ModeSaved` is inductive by itself.
* `ChatFromQuery`: needs `PassMode`, which says in which mode each place of a
  pass is reached.
* `LockIsHeld`, `DarkOnlyByTag`, `UnknownLeftByKeys`: action properties. Each
  step satisfies `LockExit`, `DarkExit` or `UnknownExit`, given `PassMode` and
  `ModeSaved`: a restart finds another byte only where the save is pending or has
  failed. The last also needs `UnknownIsStored`: a mode byte that is no mode is
  still the one in the EEPROM.
* `HeldIsJustified`: the inductive invariant is `HeldInv`. `HostHeldJustified`
  only speaks of the place between two passes, where it follows from its first
  part; in the middle of a pass a release may be seen by the scan and not yet
  reported. `HeldOrReleased` allows for the event of the pass,
  and `PressesSeen` says that a reported press has its key among those seen.

`KaiBoardProofs`, from these and `RoomAssumption`:

* `BoardTypeCorrect`: `BoardTypes` adds to `BoardTypeOK` that a computer that is
  not connected sees no key.
* `NothingIsEchoed`, `KeysFollow`, `LightsFollow`, `StreamFollows`: one inductive
  invariant, `InFlight`, holds the claims and `LineInv`: a second parser over
  the line, `AfterByte`, that only tracks whether a command, an argument or the
  digit of a light command comes next, finds whole commands in what is in the
  transmit buffer, and nothing unexpected in what is on its way. That is why a
  byte that is the code of a key is not taken for a command. Each step of the
  controller puts one of six kinds of message on the line (`SendsNothing` to
  `SendsDone`); a step of the coprocessor moves the base of the fold. For the lights
  `DisplayAhead` says what is true between display and lights.

### The panel

`PanelProofs`, from `LoopAssumption`, `CounterAssumption`, `IntervalAssumption`
(the interval and two passes fit the clock, as half an hour fits 49 days) and
`DisplayAssumption`:

* `SavedInTime`: `TimelyInv` says that the clock shows the true time since the last
  save up to one wrap (`CounterClock`), and how far a pass has got when it saves
  or not (`SaveIsNear`).
* `PromptIsWhole`, `ModeIsFollowed`: `PanelInv` says what is under way while a text
  or the mode is awaited (`TextUnderWay`: the question and terminations, or one text
  among terminations; `ModeUnderWay`), that nothing but terminations is left unread
  when the keys are looked at (`KeysUndisturbed`), and where the controller's mode
  is the one shown (`ModeKnown`). `FilteredText` and `OneMore` are the lemmas on the
  filter and on what one more byte does.
* `NeverAhead`, `SavedPressesKept`: `CountInv` compares two ways to look at a number,
  from each byte on: what the bytes in the EEPROM amount to (`Number`) and what is
  left of the counter when the pointer stands there (`Shifted`). In a save the low
  bytes are the counter's and the others those of the save before (`SavedLow`,
  `OldHigh`); and until the counter can have gone round, the EEPROM is ahead of
  the counter from no byte on (`NotAhead`). That is stronger than to compare the
  whole numbers, and needed: with only these, a higher byte written next could
  come out ahead. Induction runs over the bytes (`Upward`, `Downward`), and the two
  recursions have solutions (`ShiftedIs`, `NumberIs`). `SavedPressesKept` needs only the
  first part; where the counter has gone round since the last save, the property
  names that.

### The chat and its network

`ChatClientProofs`, from `ChatAssumption` and `AnswersAssumption` (an answer is a
sequence): `OfferHolds`, `ConversationHolds` and `AnswerComesInOrder`. `ChatInv` adds
to the claims what is still to be read: while a reply is read, what came so far is
the beginning of the service's answer, what is on its way follows it, or is a
refusal, and the pair of question and answer is recorded (`ReadInv`).

`TlsClientProofs`, from `OutRoomAssumption` and `TlsAssumption`:

* `TlsTypeCorrect`, `BufferIsNotShared`, `WrittenInOrder`: `TlsInv` is `ClientTypes` (with
  the engine's own invariant `EngineOK`), `BufferInv`, that what is copied behind
  the engine's back lies in a buffer the engine gives for output, and `QueueInv`,
  that the server has the first bytes written and the others are queued.
* `ClientIsChannel`: `TlsSpec` implements `Channel` under the refinement mapping of the
  run. `ChannelInv` adds what the mapping needs of the input; then every step of
  the client is one of nine kinds (`Puts`, `Delivers`, `Takes`, ... ), and each kind is
  a step of `Channel` or none.
* `NothingIsSkipped`: follows from the same nine kinds, only one of which skips
  input.

`SocketsProofs`, from `SocketsAssumption` (at least two sockets; port 123 is no
port of lookups):

* `SocketHasOneHolder`, `SocketIsAlwaysFree`: `TableInv` says who of the three users has
  a socket at each place (`WhoHolds`), and that nothing else is open (`WhatIsOpen`);
  so wherever a socket is opened at most one is in use.
* `DatagramIsExact`: `LengthInv` fixes the one counter at each place.
* `AnswerIsOfALookup`: `AnswerInv` says that every answer on its way (`OnTheWay`) or in a
  socket (`HasArrived`) is of a host that was asked for from the port it goes to,
  and that the open socket of a lookup is at the port asked from.

`EthernetProofs`, from `DhcpAssumption` and `RxAssumption`:

* `RequestEndsInTime`: `RequestIsShort` is not inductive, since nothing in it keeps
  a late turn from waiting again. `TimeInv` adds that the loop only goes on
  while the part of the request before the present wait is within the timeout.
* `GrantHolds`: `LeaseIsGranted` follows from `LeaseInv`: a server that granted a
  request of this boot is the one the keyboard took (`serverIp`), which it does
  not exchange until the next boot; so no later request names another server,
  and a server frees its address only for such a request, or when the time of
  the lease is over (`Kept`).
  `BroadcastKeepsGrants` is the lemma on one broadcast.
* `BytesAreReadInOrder`, `HeadersAreFound`: `FifoInv` says that the chip holds the words
  of the last bytes of one packet and whole packets behind them (`Framed`), as many
  bytes as the code's counts say, less the one kept back. `Ordered` adds the
  numbers of the bytes.

### Sequences

`FoldTheorems` has what the library lacks without operator parameters: that the
folds and `FlattenSeq` of the community modules, with a step given as a *function*,
have a value (`FoldExists`, `FoldIsRun`), and what it is for nothing, one more element at
either end, and sequences put together; and induction over sets of naturals and
of sequences.

### Only model-checked

Liveness: `KeysArrive`, `PinsSettle`, `QuestionEnds`, `CallsReturn`, `WrittenIsSent`,
`AllIsRead`, `ConnectEnds`. They rest on fairness, so on ENABLED, which the prover
does not handle. The refinement `IsChannel` is proved; every other property of
a passing run is a theorem.

## 5. What is not modelled, and why

* Display decoration, videos, buzzer, clock face, prompt keywords: no state that
  another part reads.
* The debug text of anything but the key scan, which only adds more text of the
  same kind to the debug line.
* Timing, other than as order: a `delay` is a place where others may step. Where
  a property depends on durations (the 5 ms before an argument is read, against
  87 us for a byte) the module says so: a read happens early only when the line
  is silent.
* Heap exhaustion by the growing conversation; reads outside an array (the names
  of an unknown mode, the texts of an unknown generative mode).
* Light effects: pixel arithmetic, and an effect that nothing else depends on.
* The cryptography of BearSSL, its server half and its other engines: vendored
  unchanged, and by far the largest part of the repository (more than two
  thirds of its lines of code). Only the record engine is modelled, because
  the TLS client of this repository writes into its buffer.
* Registers and set-up of the W5300, listening sockets, multicast; the parsing
  of DNS records and of DHCP options beyond the two that steer the request.
* `checkLease` and `maintain`: nothing in the firmware calls them, so that a lease
  is never renewed.
* The Bluetooth stack and the other chip drivers: third-party.
* `openAI_chat`, `processPrompt`, `SSLClient::peek` and `removeSession`, client
  certificates and the FMC driver, which nothing calls.

## 6. Plan

Modelling is complete but for these: `Chat`, an abstract specification of what a
question promises, implemented by `ChatClient`; `Host`, an abstract keyboard
("what is held is what is down"), implemented by `KaiBoard` when nothing is lost
and no mode changes; and the bounds of the list of light effects.

To prove: the refinements of `Chat` and `Host` once they are stated.
