# A TLA+ verification of NETSIM

NETSIM simulates an acoustic modem network in real time. Modems play their
analogue output into a sound card; `netsim_core` captures it, detects packets,
hands each packet to one processor per receiving modem, and plays the result to
the receiver. Around that core there are programs that tell the simulation where
the vehicles are (`netsim_manager`), that simulate the channel for datagrams
instead of sound (`netsim_udp`), that survey a channel (`netsim_tool`), that trace
rays (`iBellhop`, a MOOS program behind a gateway), and that display all this
(`netsim_postprocess` and a Liaison plugin).

This directory holds TLA+ modules translated from that code, the TLC
configurations that check them on small instances, and TLAPS proofs of the
properties that matter most for every value of the parameters. Paths below are
relative to the repository's `src/`.

## 1. The system

| Component | State it keeps | Operations | Talks to |
|---|---|---|---|
| `JackThread` capture (`apps/netsim_core/jack_thread.h`) | `audio_in_buffer_`, its mutex and condition variable, `input_port_` | constructor, realtime `jack_process`, `loop()` | publishes `AudioIn<n>` |
| `JackThread` playback (same file) | `audio_out_buffer_`, `audio_out_index_`, `new_packet_`, `empty_buffer_` | `audio_out`, realtime `jack_process` | subscribes to `AudioOut<from, to>` |
| `DetectorThread` (`detector.h`) | `in_packet_`, `prebuffer_`, `frames_since_silence_`, packet ids | `audio_in`, handler of `buffer_size_change` | `AudioIn<n>` to `DetectorAudio<n>` |
| `ProcessorThreadBase` (`lib/core/processor.h`) | none beyond its plugin's | `detector_audio`, `publish_audio_buffer` | `DetectorAudio` to `AudioOut` |
| `LoggerThread` (`logger.h`) | `files_`, the files | `log_audio` for detector and processor audio | both kinds of audio to files and `logger_event` |
| `BridgeThread` (`bridge.h`) | subscriptions | `bridge_out`, `bridge_in` | `DetectorAudio` to and from other hosts |
| `NetSimCore` (`netsim_core_main.cpp`) | the ready counters and flags | constructor: launch, wait, launch | all threads of a host |
| `netsim_manager` (`manager.cpp`) | `env_cfg_`, `env_bounds_` | `process_request`, three forwarded kinds of request | vehicles by TCP, environments by Goby |
| `lib/tcp` | `sessions_`, a session's `self_`, buffer, socket | accept, read, write, disconnect | boost::asio handlers |
| `netsim_udp` (`apps/netsim_udp/main.cpp`) | `forward_buffer_`, `delay_buffer_`, `perf_table_` | datagram in, impulse and performance response, `loop()` | manager, UDP drivers |
| `netsim_tool` (`apps/netsim_tool/main.cpp`) | grid position, slot counter, last statistics | `loop()`, callbacks | manager by TCP, two modem drivers |
| iBellhop (`apps/iBellhop`) | `initial_env`, `node_reports_`, five streams, files | handlers of requests, sound speeds and positions | MOOS; `bellhop.exe`, `toasc.exe` |
| `lib/acousticstoolbox` | none | `output_env` | called by iBellhop |
| MOOS gateway plugin (`lib/moos_translator_plugin`) | `environment_id_` | `goby_to_moos`, `moos_to_goby` | manager and postprocess by Goby, iBellhop by MOOS |
| `netsim_postprocess` | none | two threads: `TLPlotThread`, `AudioImagesThread` | logger and gateways to Liaison |
| Liaison plugin (`lib/liaison`) | per session: button, scale, image, positions, statistics | the click, five handlers, `paintEvent` | manager, postprocess |

What is hard in this code:

* **Two threads and a realtime callback** share the capture deque and the
  playback queue; the capture loop reads, unlocks, publishes, locks and pops.
* **Goby promises order within a group and none between groups.** The buffer
  size, the audio of different modems and the outputs of different processors
  reach a thread in any relative order, and what is published before somebody
  has subscribed is lost to him.
* **State machines over streams**: packet detection with a prebuffer and a
  silence that spans buffers; playback with buffers that drift against cycles.
* **Asynchronous handlers** of TCP connections that close, reset and come back
  at any moment, and a map of sessions keyed by endpoint.
* **Requests matched by less than their identity**: `netsim_udp` matches a
  response to all that waits for its pair; the logger keys open files by packet
  id and receiver.
* **Failures that leave something behind**: streams that stay open after an
  exception, a `SHDFIL` of an earlier request, answers that every browser session
  hears and applies to its own request.
* **Counters compared with equality**, conversions of negative numbers to
  unsigned, uninitialised values.

`PROJECT.json` lists these one by one, each at its line and with the properties
that would catch it going wrong.

## 2. Modules

| Module | Models | Extends / instantiates |
|---|---|---|
| `LossyFifo` | abstract: a stream delivered in order, at most once, that may lose only a whole backlog | |
| `JackCapture` | capture half of `JackThread` | instantiates `LossyFifo` |
| `Detector` | `DetectorThread` | |
| `JackPlayback` | playback half of `JackThread` | |
| `Logger` | `LoggerThread` with detectors and echoing processors | |
| `NetSimUDP` | `netsim_udp` | |
| `TcpServer` | `lib/tcp`: server, sessions and their peers | |
| `Manager` | `netsim_manager` | extends `TcpServer` |
| `NetSimCore` | start-up of the threads on several hosts, and `BridgeThread` | |
| `NetSimTool` | `netsim_tool` | |
| `BellhopEnv` | what `output_env` computes of a sound speed environment | |
| `IBellhop` | iBellhop | extends `BellhopEnv` |
| `TLService` | abstract: requests answered once, in order per environment, to every session alike | |
| `Gateway` | the MOOS gateways with their iBellhops | |
| `Liaison` | the browser sessions of the display | |
| `Display` | the sessions with manager, gateways and postprocess | extends `Gateway` and `Liaison`, instantiates `TLService` |
| `JackThread_proof` | theorems about capture and playback | extends `JackCapture` and `JackPlayback` |
| `DetectorLogger_proof` | theorems about detector and logger | extends `Detector` and `Logger` |
| `NetSimUDP_proof`, `Manager_proof`, `NetSimCore_proof`, `NetSimTool_proof`, `IBellhop_proof`, `Display_proof` | theorems | extend the modules they are about |
| `MC_*` | instances for TLC | extend the modules they are about |

A definition whose name ends in `_Something` (`LoopPop_Forgotten`,
`Entry_OneWay`, ...) is a mutant: the definition after it with a plausible bug.
No action uses it. Each property of a passing run has one that violates it.

### How the models correspond to the code

**JackCapture.** One action per critical section or step outside one:
`RegisterInputPort` and `FinishConstructor` are the end of the constructor (JACK
already runs cycles between them), `JackPush` and `JackNotify` the capture part
of `jack_process` (the notification comes after the unlock), `LoopWait`,
`LoopOverflow`, `LoopTake`, `LoopPublish`, `LoopPop` the parts of `loop()`. A
spurious wake-up is an action of its own. A buffer is its capture number.

**Detector.** `Receive` and the paths of `audio_in` through it (prebuffering,
detection, inside a packet, end of a packet, continuous mode) and
`BufferSizeChange`, which resizes the `boost::circular_buffer`: it pads with null
pointers or drops the newest elements, and never shrinks the capacity. A sample
is whether it reaches the detection threshold.

**JackPlayback.** `audio_out` and `jack_process` hold the mutex throughout, so
each is one action. `Play` is the for loop of `jack_process` over the frames of a
cycle, a recursive function; `SilentFrame` and `PlayFrame` are the two branches of
its body, and `Exhausted` counts the rounds of the while loop inside. Time is the distance `lead` from the cycle to the
packet's start. A start time closer than the calibration makes a negative double
that is converted to unsigned (`jack_thread.h:293`): the resulting frame is
chosen nondeterministically. Buffers that come without a START, as the detector
sends them when its prebuffer was empty, are queued like any others
(`jack_thread.h:413`): they play on behind what is queued, or, if the queue has
run dry, from wherever `audio_out_index_` then stands. The samples are numbered
from the last START on. The mode is a variable that never changes; in continuous
mode the queue is one frame, played again until a newer one replaces it.

**Logger.** Detectors and echo processors feed one queue per group; `log_audio`
is one action including the reference that inserts a null entry into `files_`,
the closing of the file and the event. Files are the sequences of buffers they
hold. A packet has any number of buffers up to `MaxBuffers`. The mode is a
variable that never changes: in packet mode a packet may come without a START, in
continuous mode the detectors also send what lies between the packets, unmarked
and under the id of the last packet (`BetweenPackets`), and send the last buffer
of a packet again behind its END (`Sent`), which puts a null entry into `files_`
that nothing erases (`logger.h:138`). The specifications
of `Logger` and `JackPlayback` carry the component in their names (`LoggerSpec`,
`PlaybackSpec`), because their theorems share a module with those of `Detector`
and `JackCapture`.

**NetSimUDP.** Every callback and `loop()` run on one thread and are one action
each. A datagram keeps the time stamp its sender has given it, any of `Stamps`
(behind this clock, ahead of it or never set, which is 0), and `Delayed` adds the
travel time to that, as `main.cpp:352` does, not to the time of arrival.
`requests` (external) counts the impulse requests nobody has answered; a
response to somebody else's request is `OtherAnswer`. `travel_time` returns an
uninitialised double when every amplitude is zero: any member of `Garbage`.
`UnknownReceiver` is the `at()` that throws and ends the program. `upper_bound`
and `Insert` (external) are those of `std::multimap`; `Entered` is the loop of
`process_impulse_response` over the waiting datagrams, a recursive function that
puts those that win the coin flip into the buffer one after the other.

**TcpServer and Manager.** A connection goes through the backlog to `Accept`
(or `AcceptThrows`, when `remote_endpoint()` throws because the peer has reset
it); a session reads line by line, ends by `ReadError` or `WriteError`, and a
handler left over after `disconnect()` has freed the session is `StaleHandler`,
which does nothing or ends the program. `Lookup` and `Write` are the map of weak
pointers, including the rule that `insert` keeps an existing entry. The order of
handlers that are ready is arbitrary. `ProcessRequest` is the whole of
`process_request`: positions up to the first bad one, statistics, response. An
incomplete position is skipped and the response is `UPDATE_ACCEPTED` all the same
(`manager.cpp:178`); `Reason` is the status that a position deserves.
Latitude, longitude and depth are one coordinate; the `$GPRMC` line goes with
the position; a write completes at once.

**NetSimCore.** `pc` is how far a host's constructor has come; each `Launch...`
waits for the counter the code waits for, and a launched thread subscribes later,
on its own (`Start...`). A publication goes to those who have subscribed.
`Detect` puts a buffer in the queues of local processors and of the bridge;
`BridgeOut` and `BridgeIn` pass it on; `Join` is the moment from which the
publications about one remote modem reach a host.

**NetSimTool.** `loop()` is split by the value of the slot counter into
`LoopWaits`, `LoopMoves`, `LoopTransmits` and `LoopQuits`, each a whole call.
Statistics come within `MaxLatency` calls or never. An announcement of a driver
made before the main thread has subscribed is lost.

**BellhopEnv and IBellhop.** MOOS delivers mail one message at a time, so each
handler is one action. `HandleRequest` is the whole of `handle_request` with what
it calls: the merge (`MergedColumns`), `update_positions` (`PositionsKnown`,
`Receivers`, `SourceDepth`), `calculate_env` (`Calculated`, or `Thrown` when
`output_env` throws) and `read_shd`. `RefuseRequest` are its two early exits and
`EndProgram` the end of the program. A file holds the number of the request it
was written for, so that a property can tell whose output a response names.
`Produced` (external) is `bellhop.exe`: it writes the kind of output (`Ending`)
that the environment file asks for, whoever has written that file. `ReadShd` runs
`toasc.exe` (`Converted`, external: it may fail) on whatever `SHDFIL` holds and
reads whatever `ASCFIL` holds after that, for every type of output. Sound speeds
are published from `initial_env`, although the comment at `iBellhop.cpp:621` says
"last merged environment".
`SspMap`, `Row` and `EnvFile` compute what `output_env` writes of the water
columns; depths are in units of `1/Metre` metre because the grid compares whole
metres. Vehicles move along one line. Reads past the end of a repeated field are
any value of `Junk`; writing past the grid's end ends the program or does nothing
that can be seen. A request with `OVERWRITE` and no water column, or a column
without samples, is undefined in `output_env` and not among the requests.

**Gateway.** One queue in each direction per gateway and community. The five
`goby_to_moos` and `moos_to_goby` routes are the same code for different types;
the bellhop one is followed. `AnswerRequest` is iBellhop as seen from here: one
answer per request, in order, success or not. `ForeignRequest` is another MOOS
program that asks the same iBellhop.

**Liaison and Display.** A session's communications thread posts closures to the
session (`wt`), which handles them one by one; `ui[s]` is its `LiaisonNetsim`. A
click, its scale and the image that answers it share one identity. The browser
shows the button enabled with the response that carries the repainted plot, so
`CanClick` needs the plot to be painted. `PaintEvent` draws the image once and
the positions at the transmission before the last once. Sessions come and go:
`OpenSession` includes a subscription that is too late for the manager's answer,
`ClickTooEarly` the click before that answer, whose `std::stoi` throws. `Display`
adds the manager's routing and the two threads of `netsim_postprocess`, each with
its own queue.

## 3. Runs

`tlc -config MC_X.cfg MC_X` in this directory. Behaviours of most models end
when their bounded inputs are used up, so those configurations switch the
deadlock check off. Capture and playback keep it on.

| Run | Instance | What it shows |
|---|---|---|
| `capture` | deque of 3, 8 cycles: two overflows with deliveries around them | `PopsWhatWasPublished` across the unlocked publication; refinement of `LossyFifo`; no notification is lost (`EveryBufferLeaves`) |
| `detector` | buffers of 2 samples, silence of 3 (so it always spans buffers), prebuffers of 2 and 4 buffers, 7 buffers, 2 resizes, both modes | nothing sent twice, packets well bracketed and ended by the first long enough silence, continuous mode without gaps, a detection with a clean prebuffer sends START and every buffer |
| `playback` | cycles of 2 frames, buffers of 0, 2, 3 samples, minimum of 2 buffers, start times up to 6 frames ahead, packets with and without START, both modes | a packet with a START begins on time, gapless unless the queue ran dry, nothing played twice, a complete packet is played |
| `logger` | 3 modems, 2 transmitters, 3 buffers, packets without START, logger launched at any moment, both modes, one buffer between packets (`MaxQuiet`) | files hold their stream, no file is left open and in packet mode no entry, the end of all logs is announced or, in continuous mode, an entry stands in the way |
| `udp` | 2 modems, 2 datagrams with stamps 0 and 1, four raytraces, MPP table changing at any moment, one foreign answer | each datagram is in exactly one place, none is orphaned, none leaves before its stamp plus the travel time, and the order of a pair is kept unless a later one bears an earlier stamp; the table is read in both directions; all leave |
| `manager` | 3 endpoints on 2 hosts, 2 connections, 2 lines, good, partly bad, incomplete and unknown messages | responses go to the connection that asked, positions only from their owner, the status gives the reason of the first position that is not allowed and says what was applied, the first connection from an endpoint is answered |
| `core` | 3 modems on 2 hosts, 2 transmit 2 buffers, one size change per host | nobody misses a buffer size or a local packet, remote streams are contiguous, start-up completes |
| `tool` | 2 x 2 grid whose step does not divide the interval, slots of 4 calls | each point once and in order with the receiver moved there before, statistics belong to their point, the run completes |
| `bellhop` | 4 messages (`MaxMessages`): up to 3 of 6 requests (merged, overwriting, range-dependent, adaptive, for arrival times, too large) and up to 2 others, and one tick; `bellhop.exe` and `toasc.exe` fail at will; a profile with EOFs, 4 updates that replace samples, add some at the end or in between, or do not match; names in either case | a response names its own output also after failures (`OwnOutput`) and, if both programs have succeeded on a pressure run, its own transmission loss (`TLOfRequest`); speeds are interpolated, at, between and below the samples of a profile as updates have left it, and profiles merged correctly; refusals have their cause |
| `display` | 2 sessions, 2 environments with a gateway each, 2 clicks, 1 foreign request, 3 reports to one session, 6 stimuli in all | the chain refines `TLService`; image and scale agree while one session clicks; dots belong to the plot below them; the button comes back |

The bounds are the smallest at which all cases of the code occur together: two
of whatever can overlap (connections, transmitters, waiting datagrams, resizes,
overflows) and one more than each limit the code tests. The other bounds end the
inputs. In `logger` nothing bounds how far the logger is behind in packet mode; in
continuous mode, where the null entries are the point and more is sent, a detector
goes on once what it sent before has been handled (`MaxLag`), and one of them
receives something between packets. In `bellhop` an update that extends the
profile, a question for the speed and two requests around them fit into the four
messages. In `display` two requests of two sessions meet in one environment or in
two, and two packet starts of one session (the number it takes for dots to be
drawn) meet an answer; a session opened counts for two of the stimuli, and
reports are limited to one session because sessions do not influence each other
through them.

Two runs are expected to be violated; each shows a disagreement between the
code and what the repository says of it (quoted in `PROJECT.json`, "findings"):

| Run | What happens |
|---|---|
| `logger_mixed` | two transmitters with the same packet id write their receptions into one file |
| `manager_reconnect` | a client that connects again from the same endpoint is never answered |

### Fairness

* capture: both threads go on running, so a constructor, a notification and a
  call of `loop()` that have begun are finished. Nothing is assumed of JACK
  calling again, nor of spurious wake-ups.
* playback: JACK keeps calling `jack_process` (it is a realtime client).
* udp: `loop()` is called periodically, time passes, and every request made is
  answered. The last is an assumption about the environment; `netsim_udp` has no
  timeout and does not deliver without it.
* core: launched threads run and read their queues; the main thread rereads the
  counters. Nothing is assumed of JACK, of modems or of hosts finding each other.
* tool: `loop()` is called at its frequency, and statistics under way come or are
  lost. Nothing is assumed of drivers or of the manager.
* display: while anything is queued for any thread of the chain some thread
  handles something (weak fairness of `SystemStep`): each waits for nothing but
  its queue, and the octave and bellhop runs end. With the stimuli bounded every
  queue is then emptied. Nothing is assumed of users or of other programs.
* manager, logger, detector, bellhop: safety only. What the logger must have done
  in the end is stated of the states in which nothing is queued.

## 4. Theorems

All are proved by TLAPS with an SMT solver, Zenon and LS4, for all values of the
constants that satisfy the named assumptions of the modules.

**Capture** (`JackThread_proof`): `TypeCorrect`, `PopIsSafe` (the two critical
sections of `loop()` see the same front), `OrderIsKept`, and `Refinement`
(`Spec => LF!Spec`). The inductive invariant adds to these properties that the
deque itself is increasing, that all published buffers are older than those in
the deque (except the front between publish and pop), and that nothing is newer
than the last capture. `PublishedInOrder` alone is not inductive: a publication
keeps it only because the front is newer than all that was published, which
holds because the clear discards the oldest as well as the newest. The
refinement maps a step as follows: `JackPush` accepts, `LoopPublish` delivers
(the abstract queue loses its head there, one step before the deque does),
`LoopOverflow` loses a full backlog, all others stutter.

**Detector** (`DetectorLogger_proof`): `TypeCorrect`, `NothingSentTwice` (packet mode)
and `DetectionIsWhole` (`CleanStart`). The invariant says that the real buffers
of the prebuffer are distinct, have not been sent (packet mode), are not newer
than the last one received, and that those newer than the last resize or packet
end form a contiguous run up to the newest one (`RecentRun`). The last is what
makes the packet's head gapless; the first two are needed because a detection
sends the whole prebuffer and a resize may reorder nothing but drop and pad.

Three more theorems of the same module each add an invariant of their own.
`NothingMissedContinuously` (`ContinuousIsGapless`) says that in continuous mode
every buffer is sent, in order, the one in which a packet ends twice: as its END
and then unmarked (`detector.h:147-156`, `199-210`). It needs that the last message
sent is the last buffer received and no END (`Gapless`). `PacketsBracketed`
(`WellBracketed`) needs how the packet that is open relates to the last message:
while nothing of it has been sent, that message is the END of the packet before
(`Brackets`). `EndsWithTheSilence` (`EndsAtFirstSilence`) needs what
`frames_since_silence` counts: the silent samples at the end of all those heard
since the detection, across the borders of buffers (`Silence`).

**Playback** (`JackThread_proof`): `PlaybackGoesOnward` (`NeverReplayed`),
`PlaybackHasNoGap` (`GaplessPlayback`) and `PlaybackStartsOnTime`
(`StartsOnTime`), for every cycle length, minimum of buffers, calibration and
packet. The invariant (`PlaybackInv`) describes the queue: its buffers hold
consecutive samples up to the last one sent (`Chain`), what is played next is
later than what was played last (`Ahead`), and exactly the sample after it as long
as the queue has not run dry (`Exact`). `Ahead` is weaker than `Exact` on purpose:
once the queue is dry `audio_out_index_` counts frames of `empty_buffer_`, so of
the buffers that come then, late ones of a packet or all of a packet without START,
samples are skipped but never repeated. `GaplessPlayback` leaves those out
(`starved`) until the next START; `StartsOnTime` is about packets with a START,
whatever packets without one come before or behind it. A cycle is a loop over frames; that each
frame keeps `Ahead` and `Exact` and extends what has been put out is proved by
induction over the frames (`Played`, `PlayedExactly`), and within a frame over the
buffers the while loop pops. `Begun` is needed for the start time: once a packet
is no longer new its start lies within the calibration.

**Logger** (`DetectorLogger_proof`): `FilesHoldWhatWasSent` (`FilesFaithful`),
`NoEntryLeft` (`NothingLeftOpen`) and `LastCloseAnnounced` (`AllClosedAnnounced`),
for any modems, any number of packets of any length, in packet mode with and
without START, in continuous mode with anything sent between them, and a logger
launched at any moment. The invariant (`LogInv`)
says that a queue holds the last buffers of its detector one after the other
(`Streams`), so that the first of a queue and the counters of the detector tell
where the logger is in the stream: in the middle of a packet (`Mid`), or past it
(`Done`). An entry of `files_` exists only in the middle of a packet, of some
transmitter if it is a receiver's (`InFiles`, `OutFiles`), and is null or a file
that holds exactly the buffers that have come (`Entry`; `OutAlone` for receivers as
long as one transmitter alone has come to the id). That is why a launch in the
middle of a packet leaves nothing behind: the null entry the first buffer inserts
goes with the END. `AllClosedAnnounced` is inductive with `ClosedIsPast`: the last
of the receivers to close finds no other entry of the packet, because each of the
others is past it. In continuous mode both theorems say less, as the code does
less: what stays in `files_` after the last packet are null entries only, and
`ALL_LOGS_CLOSED_FOR_PACKET` is missing only if a receiver that had closed its
log has such an entry again.

**UDP** (`NetSimUDP_proof`), for every configuration, all raytraces, outliers and
values of an uninitialised double. `NothingOrphaned` (`NeverOrphaned`) needs the
types of the tables and the property itself; the argument is that every datagram
enters with a request of its own and every response for a pair, wanted or not,
takes all that waits for the pair. `OnePlaceEach` (`ExactlyOnce`),
`PublishedInOrder` (`OrderKept`) and `PublishedNotEarly` (`NeverEarly`) rest on
`ChannelInv`: the datagrams of a pair wait in the order of their arrival
(`Queued`); the delay buffer is sorted by release time, holds none twice, and
has datagrams of a pair with equal travel times in the order of their arrival
unless the later one bears an earlier stamp (`Buffered`); what was published left
in that order and not before its time (`Left`); what is further on is
older than what still waits (`Follows`); and an accepted datagram is at one of the
five places and no other (`Places`). None of the properties is inductive without
`Follows` and `Sorted`: an insertion behind equal keys keeps the order only
because the newcomer is the youngest of its pair and everything behind it in the
buffer is due later. A batch is entered by induction over the waiting datagrams.
Travel times and stamps are integers (`RaysAssumption`, `StampsAssumption`);
nothing is assumed of their sign, nor of a stamp's relation to the clock or to the
order of arrival. So what is proved is what the code does: the delay counts from
the sender's stamp, and since the arrival it has passed only if the sender's clock
was not behind.

**Core** (`NetSimCore_proof`): `TypeCorrect`, `NoSizeMissed` (`EverySizeSeen`)
and `LocalAudioIsWhole` (`LocalStreamsWhole`), for any number of hosts that share
the modems out between them. The invariant adds what the main thread has waited
for (`Waited`: past a wait, all local threads of that kind are ready; this is
where the counter's value is turned into a statement about every thread, by
cardinality), that JACK comes last (`JackLast`), and that a host neither
subscribes to nor is sent its own modems' audio (`NoLoop`): without it the bridge
could add a second copy to a local stream. `RemoteAudioInOrder`
(`RemoteStreamsInOrder`) is proved with a second invariant: at every place on a
remote stream's way, the queue of the bridge, the queues between the hosts and
what the processors have received, there is a contiguous run of buffers, and each
place continues where the next one ends (`Outgoing`, `Incoming`, `Delivered`). It
rests on the bridge being ready before anything else of its host is launched
(`BridgeFirst`), so that no local buffer is published before it listens, and on
audio reaching only modems of some host and never the one that sent it
(`Addressed`).

**Manager** (`Manager_proof`): `ResponsesToSender` (`RightConnection`),
`FirstConnectionAnswered` (`AnsweredIfFresh`), `PositionsOfTheOwner`
(`NavFromOwner`) and `StatusIsTrue` (`StatusTellsWhatWasApplied`), for any number
of connections, any endpoints and any requests whose positions are a finite list
(`LinesAssumption`). `write()` finds a session by its endpoint, not by its
connection, so `RightConnection` is not inductive by itself. The invariant adds
that an entry of `sessions_` is that of a connection from its endpoint
(`Entries`), that of two connections from one endpoint the earlier one is dead
(`OneLive`, because the kernel admits the second only then), and hence that a
response which leaves at all leaves on the connection that asked; that
connections come in order and are accepted once (`Order`, `Waiting`); and that
every position published is of a line that has been read (`UpdatesRead`).
`process_request` takes the positions one after the other up to the first bad
one, a recursive function in the model, and what `StatusIsTrue` says of a response
is not that some such prefix was published but which: all of them with
`UPDATE_ACCEPTED`, else those before the first that is not allowed, whose reason
the status is. What it computes is proved by induction
over the positions in the form the provers accept: the set of the positions for
which the statement fails has no least element (`Least`, `UpTo`).

**Tool** (`NetSimTool_proof`): `StatsOfThePoint` (`StatsBelongToPoint`) if the
statistics of a transmission take less than a slot, which is what the slot is
for: without it they come late and are published for the next point.
`WholeGridVisited` (`GridCovered`) for every grid that has a point, if half of
`slot_seconds` is a whole number of calls of `loop()`; `loop()` compares the
counter with it for equality, and otherwise the manager would never be told the
next position. The
invariants say that the statistics are one slot behind the transmissions
(`OneSlotBehind`), that only the last transmission is in the water
(`OneInWater`), that `r_` and `z_` are the next point in the order of the grid
(`OnGrid`, with the division of the number of transmissions by the columns), and
that the manager has been told that point before it is used (`Told`).

**iBellhop** (`IBellhop_proof`): `OutputOfTheRequest` (`OwnOutput`) and
`LossOfTheRequest` (`TLOfRequest`), for every request, environment and clock.
Their invariant (`FileInv`) describes the directory: which streams an exception
has left open (`StreamsTold`), how the files of a response are named (`Named`),
whose output each file holds (`Contents`), that no environment file is older than
the last one written under its name (`Latest`), that `SHDFIL` and `ASCFIL` are of
pressure requests (`ShdfilOfPressure`, `AscfilOfPressure`), and that `ASCFIL` is
what the last conversion has left (`LastConverted`). `LossOfTheRequest` promises a
request its own loss only if its run was for pressure and `bellhop.exe` and
`toasc.exe` have succeeded on it; what the others report is a stale one, see
section 6. `Latest` is the point of the proof: a
request that follows an exception runs `bellhop.exe` on an old environment file
and overwrites the output of the request that file was written for, or of a later
one of the same name, but never puts an older output in the place of a newer one.
`NoneRefusedWithoutCause` (`RefusedForCause`) needs only that every vehicle heard
of is in `node_reports_` under the name that requests look for, if the vehicle's
own name is in lower case.

**Display** (`Display_proof`), for any number of sessions, modems and gateways.
`DotsBelongToThePlot` (`DotsOfThisPlot`) is about what has been drawn; the
invariant adds that a snapshot waiting to be drawn, the last or the one before it,
of any modem, is empty or was noted since the last answer. It holds because an
answer clears both maps, a packet start moves a snapshot from one to the other and
notes a new one, and a click changes neither. `ImageOfTheScale`
(`ImageMatchesScale`) follows the request of a session that alone has asked for
plots: it is at one place of the chain at most (`Route`: on its way to the
manager, addressed to one gateway, with iBellhop, on the way back, with
`TLPlotThread`, posted to the session), at none while the button is enabled, and
wherever it is it carries the click that set the scale; an image that waits to be
painted is that click's, and the plot is then dirty, so that there can be no
other click before it is painted. That one gateway alone takes the request up is
`GatewaysAssumption`; that a click is something (`ClicksAssumption`) and that a
report is no answer (`ReportsAssumption`) are the only other assumptions.
`ChainServesTheDisplay` (`ImplementsTLService`) is the refinement of `TLService`,
for which every environment of the configuration has a gateway
(`EnvironmentsAssumption`). What an environment has waiting is, in the mapping,
what the chain holds of its requests, picked out of four queues and joined oldest
first: the answers on their way to `TLPlotThread`, the answers in MOOS, the
requests in MOOS, the requests published to the gateways. So the request taken by
the manager is `Ask`, the answer posted by `TLPlotThread` is `Answer`, the answer
handled by a session is `Tell`; what the gateways and iBellhop do in between, and
what other programs ask, moves a request from the beginning of one queue to the
end of the one ahead and is no step at all (`Moved`, `MovedWithin`). What picking
yields of a queue after an `Append` or a `Tail` is proved by the same induction
as above (`PickedAppend`, `PickedTail`). The invariant (`ServiceInv`) adds that
what is of the display in the queues of a gateway is of its environment
(`Chain`), that each request is at one place only and was never answered before
(`Accounted`: requests not yet taken, waiting and answered are disjoint, none is
there twice, and all are among the clicks counted so far), and that a session
that is not connected has nothing posted.

Only model-checked: all liveness properties (fairness and ENABLED are outside
the prover): `EveryBufferLeaves`, `CompletePacketPlays`, `EveryDatagramLeaves`,
`StartupCompletes`, `RunCompletes`, `ButtonComesBack`; and `SpeedInterpolates`
and `RequestOverlaysInitial` of iBellhop, statements about recursive computations
on profiles.

## 5. Plan

The order was: the audio path inside one host (capture, detector, playback,
logger), because it is concurrent and carries the simulation; then the programs
with retained requests (`netsim_udp`, `lib/tcp` with `netsim_manager`); then
start-up and bridge, and the survey tool; then the ray tracer and the display
with the chain between them. What is left, in order:

1. *Theorems about what is modelled.* iBellhop: `RequestOverlaysInitial`.
2. *Abstract specifications*: a channel that delivers each datagram at most once
   after its delay, implemented by `NetSimUDP`; a request-response service
   implemented by `Manager`.
3. *Compositions*: capture, detector and logger of one modem; a `tcp_client` that
   connects again.

## 6. Seen while modelling

Besides the two violated runs, these behaviours are in the models as the code
has them; a reader of the code may want to know of them:

* `jack_thread.h:441` discards the backlog at exactly `max_buffer_size`, while the
  message two lines below and `core_config.proto` say "exceeds".
* `detector.h:61` and `:134`: after a resize the prebuffer holds null pointers,
  which are published as buffers of a packet.
* `detector.h:112`: a detection before the prebuffer has been refilled since the
  last resize opens a packet without a START; `CleanStart` is about the others.
* `jack_thread.h:336`: once the queue is dry the index counts the frames of the
  empty buffer and is applied to the next real one, whose first samples are
  skipped; a packet without START (`detector.h:112`) that comes then loses its
  head, or all of it, and is played without regard to its start time or to the
  minimum (`:413`). `:302`: a packet shorter than the minimum is never played.
* `logger.h:138`: in continuous mode the detector sends unmarked buffers after an
  END under the same id (`detector.h:147-156`, `199-210`). The reference to
  `files_` then inserts a null entry that is never erased, and the test at `:150`
  finds the packet's map not empty: `ALL_LOGS_CLOSED_FOR_PACKET` need not ever be
  sent.
* `logger.h:150`: `ALL_LOGS_CLOSED_FOR_PACKET` is sent whenever the last *open*
  file of a packet closes, hence possibly early and several times.
* `netsim_udp/main.cpp:352`: the delay is added to the sender's own time stamp. If
  that is behind, or was never set, a datagram is published as soon as its
  travel time is known; if the stamps of a pair are not in the order of arrival,
  neither is what is published.
* `manager.cpp:178`: a position that lacks a field is skipped and answered
  `UPDATE_ACCEPTED`, which according to
  `doc/markdown/page15_vehicle_sim_connections.md:118` means that the update was
  accepted.
* `netsim_udp/main.cpp:292`: `at()` throws for an unknown receiver, although the
  message at line 294 says that the response is ignored; `:379` speaks of the
  strongest direct ray and does not look at bounces.
* `tcp_server.cpp:54`: `remote_endpoint()` may throw out of the handler and end
  the manager.
* `netsim_tool/main.cpp:154`: a driver that is ready before the main thread has
  subscribed is never counted; `:207`: points at range or depth 0 are never
  published.

* `iBellhop.cpp:463`: after an exception in `output_env` the streams stay open and
  the next request's environment is not written; `bellhop.exe` then runs on
  whatever that file held. `OwnOutput` bounds the damage to that one request.
* `iBellhop.cpp:167`: `success` is set whatever the writing and the ray tracer did;
  with `read_shd` a request that is not for pressure, or whose run or conversion
  has failed (`:522`), reports the transmission loss of an earlier one, while
  `iBellhop_messages.proto:52` and `:63` speak of requests whose output is a SHD
  file. `TLOfRequest` says of which kind the earlier one is, and, if `toasc.exe`
  has failed, which one.
* `iBellhop.cpp:621`: the comment says that the last merged environment is used;
  the code takes `initial_env`, which requests do not change.
* `iBellhop.h:84`: the vehicle's own position is stored under `ownship` as
  configured, while requests look for it in lower case: with an upper-case name
  an adaptive request is refused for ever. The run has a lower-case name.
* `iBellhop.cpp:145`: the number of receivers is limited before `update_positions`
  computes it, and the product of two unsigned numbers may overflow.
* `iBellhop.cpp:281`: the number of EOFs of the upper sample is used for the lower
  one, which may have fewer after an update; the speed between two such samples is
  read past the end. `SpeedInterpolates` leaves the depths between two such samples
  out.
* `iBellhop.cpp:408`: the window of ranges is that of the first and the last moment;
  two vehicles that pass each other come closer in between.
* `environment.cpp:183`: a column with more samples than the deepest one indexes
  past the end of the grid.
* `liaison_netsim.cpp:223`: any session's answer enables the button of every
  session and is drawn with the scale of the session that draws it;
  `ImageMatchesScale` is about one session clicking. Between a click and its
  answer new dots are drawn over the old image with the new scale.
* `liaison_netsim.cpp:112`: the request number is read and incremented in two
  steps, so two sessions may use the same; nothing reads it. `:147`: `beams` is a
  copy, so what is set in it does not go out.
* `netsim_postprocess`: a packet's start waits behind octave for the logs of the
  packet before, while positions and statistics come directly: the snapshot of
  positions at a start is that of its handling.

## 7. Not modelled

* `bellhop.exe`, `toasc.exe`, octave and their numerics: external; a run succeeds
  or fails.
* The surface, bottom, source and beam parameters `output_env` copies, and the
  layout of its files; the averaging in `read_shd`.
* The impulse, performance and position routes of the MOOS plugin: the same code
  as the route that is modelled.
* `lib/core/boost_serialization.h`: marshalling field by field; a copy in the
  models.
* The layout and the colours of the display; `liaison_load.cpp` and the `main`
  functions; the stand-alone test programs.
* The processors of real plugins: outside the repository; the echo processor of
  `test/processor_echo` stands for them.
* Within modelled parts: the `$GPRMC` text, serialization (a copy of every
  field), logging, a TCP write the kernel cannot take at once, shutdown.
