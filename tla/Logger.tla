------------------------------- MODULE Logger -------------------------------
(***************************************************************************)
(* LoggerThread (logger.h) with the threads it listens to.                 *)
(*                                                                         *)
(* Detectors number their packets from 0, each on its own: the counter in  *)
(* DetectorThread<from_index>::audio_in is a static of a member of a class *)
(* template, so there is one per from_index.  A processor thread sends     *)
(* each buffer it gets from a detector on to AudioOut<from, to>, for every *)
(* to except from (the echo processor of src/test).  Goby keeps the order  *)
(* within a group and promises none between groups, so the logger is fed   *)
(* by one queue per detector and one per pair of modems.  It is launched   *)
(* last, possibly in the middle of a packet, and in continuous mode too,   *)
(* where the detectors also send what lies between the packets, unmarked   *)
(* and with the id of the last packet (-1 before the first).               *)
(***************************************************************************)
EXTENDS Integers, Sequences

CONSTANTS
    Modems,        \* modem indices, a set of naturals
    Transmitters,  \* the modems that transmit
    MaxPackets,    \* bound: packets per transmitter
    MaxBuffers,    \* bound: buffers sent per packet
    MaxQuiet,      \* bound: buffers received between packets, by one detector
    MaxLag,        \* bound, by mode: a detector publishes while fewer wait
    Headless       \* TRUE: a packet may come without its START

ASSUME ModemsAssumption == Modems \subseteq Nat /\ Transmitters \subseteq Modems
ASSUME LoggerBoundsAssumption ==
    /\ MaxPackets \in Nat /\ MaxBuffers \in Nat \ {0, 1}
    /\ MaxQuiet \in Nat /\ MaxLag \in [BOOLEAN -> Nat]

VARIABLES
    cfg_continuous, \* cfg().continuous(), which never changes
    packet,         \* packet[f]: detector f's current packet, or last one
    running,        \* the logger has subscribed
    DetectorAudio,  \* DetectorAudio[f]: for the logger, from detector f
    AudioOut,       \* AudioOut[f][t]: in or behind processor t, from f
    files_,         \* the map of open files, by <<dir, id, modem>>
    content,        \* content[<<dir, id, from, to>>]: a file on disk, by name
    started,        \* the <<f, id>> of the PACKET_START events sent
    announced,      \* how often ALL_LOGS_CLOSED_FOR_PACKET named <<f, id>>
    closed          \* history: <<f, id, t>> whose END the logger has handled

detectors == <<packet, DetectorAudio, AudioOut>>
log == <<files_, content, started, announced, closed>>
logger_vars == <<cfg_continuous, detectors, running, log>>

Ids == -1..(MaxPackets - 1)
Names == ({"in"} \X Ids \X Transmitters \X {-1})
         \cup ({"out"} \X Ids \X Transmitters \X Modems)

\* An entry of files_ is a null pointer or the name of the open file.
NullFile == <<>>

Receivers(f) == Modems \ {f}

LoggerInit ==
    /\ cfg_continuous \in BOOLEAN
    /\ packet = [f \in Transmitters |->
                    [id |-> -1, sent |-> 0, open |-> FALSE, quiet |-> 0]]
    /\ running = FALSE
    /\ DetectorAudio = [f \in Transmitters |-> <<>>]
    /\ AudioOut = [f \in Transmitters |-> [t \in Receivers(f) |-> <<>>]]
    /\ files_ = <<>>
    /\ content = [n \in Names |-> <<>>]
    /\ started = {}
    /\ announced = [p \in Transmitters \X Ids |-> 0]
    /\ closed = {}

-----------------------------------------------------------------------------
(* Detectors and processors *)

\* A buffer by its place in the packet, 0 for one outside of it.
Numbered(id, n, marker) == [id |-> id, seq |-> n, marker |-> marker]

\* In continuous mode the buffer that ends a packet is sent again, unmarked.
Sent(q, b) ==
    IF cfg_continuous /\ b.marker = "END"
    THEN Append(Append(q, b), Numbered(b.id, 0, "NONE")) ELSE Append(q, b)

\* Detector f publishes what it received.
Publish(f, b) ==
    /\ Len(DetectorAudio[f]) < MaxLag[cfg_continuous]
    /\ \A t \in Receivers(f) : Len(AudioOut[f][t]) < MaxLag[cfg_continuous]
    /\ DetectorAudio' = IF running
                        THEN [DetectorAudio EXCEPT ![f] = Sent(@, b)]
                        ELSE DetectorAudio
    /\ AudioOut' = [AudioOut EXCEPT ![f] =
                      [t \in Receivers(f) |-> Sent(@[t], b)]]
    /\ UNCHANGED <<cfg_continuous, running, log>>

\* The n-th buffer of a packet.  MIDDLE stands for the unmarked buffers of the
\* prebuffer after a START as well: log_audio does not tell them apart.
InPacket(f, id, n, marker) ==
    /\ packet' = [packet EXCEPT ![f] = [id |-> id, sent |-> n,
                                        open |-> marker # "END", quiet |-> @.quiet]]
    /\ Publish(f, Numbered(id, n, marker))

\* Only in packet mode may a packet lack its START, and be of one buffer.
BeginPacket(f) ==
    /\ ~packet[f].open
    /\ packet[f].id + 1 < MaxPackets
    /\ \E marker \in IF Headless /\ ~cfg_continuous
                     THEN {"START", "MIDDLE", "END"} ELSE {"START"} :
          InPacket(f, packet[f].id + 1, 1, marker)

\* The last buffer of a packet is sent twice in continuous mode.
GoOn(f) ==
    /\ packet[f].open
    /\ \E marker \in {"MIDDLE", "END"} :
          /\ packet[f].sent + (IF cfg_continuous THEN 2 ELSE 1) >= MaxBuffers
                => marker = "END"
          /\ InPacket(f, packet[f].id, packet[f].sent + 1, marker)

\* In continuous mode what comes between packets is sent too.
BetweenPackets(f) ==
    /\ cfg_continuous /\ ~packet[f].open
    /\ packet[f].quiet < MaxQuiet
    /\ \A g \in Transmitters \ {f} : packet[g].quiet = 0
    /\ packet' = [packet EXCEPT ![f].quiet = @ + 1]
    /\ Publish(f, Numbered(packet[f].id, 0, "NONE"))

\* A processor publishes while the logger is not there: it misses the buffer.
Missed(f, t) ==
    /\ ~running
    /\ AudioOut[f][t] # <<>>
    /\ AudioOut' = [AudioOut EXCEPT ![f][t] = Tail(@)]
    /\ UNCHANGED <<cfg_continuous, packet, DetectorAudio, running, log>>

Launch ==
    /\ ~running
    /\ running' = TRUE
    /\ UNCHANGED <<cfg_continuous, detectors, log>>

-----------------------------------------------------------------------------
(* log_audio *)

ModemIndex_AlwaysFrom(dir, from, to) == from

ModemIndex(dir, from, to) == IF dir = "in" THEN from ELSE to

\* files_[dir][id][modem] after a START has (re)opened it, and after the
\* reference to the entry has inserted a null pointer where there was none.
Opened(b, key, name) ==
    [k \in DOMAIN files_ \cup {key} |->
        IF k = key /\ b.marker = "START" THEN name
        ELSE IF k \in DOMAIN files_ THEN files_[k] ELSE NullFile]

Erased_ResetOnly(fs, b, key) ==
    IF b.marker = "END" THEN [fs EXCEPT ![key] = NullFile] ELSE fs

Erased(fs, b, key) ==
    IF b.marker = "END" THEN [k \in DOMAIN fs \ {key} |-> fs[k]] ELSE fs

\* Opening truncates the file; then the samples go to whatever is open.
Written(fs, b, key, name, from) ==
    LET truncated == IF b.marker = "START" THEN [content EXCEPT ![name] = <<>>]
                     ELSE content
    IN  IF fs[key] = NullFile THEN truncated
        ELSE [truncated EXCEPT ![fs[key]] = Append(@, <<from, b.seq>>)]

\* The END of an output file when no output file of that packet id is left.
LastOne(fs, b) ==
    b.marker = "END" /\ \A t \in Modems : <<"out", b.id, t>> \notin DOMAIN fs

log_audio(b, from, to, dir) ==
    LET key == <<dir, b.id, ModemIndex(dir, from, to)>>
        file_name == <<dir, b.id, from, to>>
        opened == Opened(b, key, file_name)
        erased == Erased(opened, b, key)
    IN  /\ files_' = erased
        /\ content' = Written(opened, b, key, file_name, from)
        /\ started' = IF dir = "in" /\ b.marker = "START"
                      THEN started \cup {<<from, b.id>>} ELSE started
        /\ announced' = IF dir = "out" /\ LastOne(erased, b)
                        THEN [announced EXCEPT ![<<from, b.id>>] = @ + 1]
                        ELSE announced
        /\ closed' = IF dir = "out" /\ b.marker = "END"
                     THEN closed \cup {<<from, b.id, to>>} ELSE closed

LogIn(f) ==
    /\ DetectorAudio[f] # <<>>
    /\ log_audio(Head(DetectorAudio[f]), f, -1, "in")
    /\ DetectorAudio' = [DetectorAudio EXCEPT ![f] = Tail(@)]
    /\ UNCHANGED <<cfg_continuous, packet, AudioOut, running>>

LogOut(f, t) ==
    /\ running
    /\ AudioOut[f][t] # <<>>
    /\ log_audio(Head(AudioOut[f][t]), f, t, "out")
    /\ AudioOut' = [AudioOut EXCEPT ![f][t] = Tail(@)]
    /\ UNCHANGED <<cfg_continuous, packet, DetectorAudio, running>>

-----------------------------------------------------------------------------
LoggerNext ==
    \/ Launch
    \/ \E f \in Transmitters :
          \/ BeginPacket(f)
          \/ GoOn(f)
          \/ BetweenPackets(f)
          \/ LogIn(f)
          \/ \E t \in Receivers(f) : Missed(f, t) \/ LogOut(f, t)

LoggerSpec == LoggerInit /\ [][LoggerNext]_logger_vars

-----------------------------------------------------------------------------
(* Properties *)

Faithful(c, f) == \A i \in 1..Len(c) : c[i] = <<f, i>>

Alone(f, id) == \A g \in Transmitters \ {f} : packet[g].id < id

(* The file of a transmission holds what its transmitter sent, from the    *)
(* START on, in order and without a gap, whoever else transmits meanwhile; *)
(* so does the file of a reception with what was received from the         *)
(* transmitter in its name, as long as no other modem has come to the same *)
(* packet id.                                                              *)
FilesFaithful ==
    \A id \in Ids, f \in Transmitters :
        /\ Faithful(content[<<"in", id, f, -1>>], f)
        /\ Alone(f, id) =>
              \A t \in Receivers(f) : Faithful(content[<<"out", id, f, t>>], f)

AtRest ==
    /\ \A f \in Transmitters :
          /\ ~packet[f].open
          /\ DetectorAudio[f] = <<>>
          /\ \A t \in Receivers(f) : AudioOut[f][t] = <<>>

(* When every packet has ended and everything sent has been handled, the   *)
(* logger keeps no file open, and in packet mode no entry for one, even if *)
(* it was launched in the middle of a packet or the packet had no START.   *)
(* (In continuous mode the unmarked buffers after an END put a null entry  *)
(* back which nothing erases.)                                             *)
NothingLeftOpen ==
    AtRest => /\ \A k \in DOMAIN files_ : files_[k] = NullFile
              /\ ~cfg_continuous => DOMAIN files_ = {}

(* Once the logs of a packet at all receivers, if there are any, have been *)
(* closed, ALL_LOGS_CLOSED_FOR_PACKET has been sent for that packet, as    *)
(* long as no other modem has come to the same packet id.  In continuous   *)
(* mode it may be missing, and then for one reason only: a receiver whose  *)
(* file was closed already has an entry again.                             *)
AllClosedAnnounced ==
    \A f \in Transmitters, id \in Ids :
        /\ Alone(f, id)
        /\ Receivers(f) # {}
        /\ \A t \in Receivers(f) : <<f, id, t>> \in closed
        => \/ announced[<<f, id>>] > 0
           \/ /\ cfg_continuous
              /\ \E t \in Receivers(f) : <<"out", id, t>> \in DOMAIN files_

(* What the name of a reception's file says (logger.h:112-116): the file   *)
(* holds what was received from that transmitter, whoever else transmits.  *)
ReceptionsApart ==
    \A id \in Ids, f \in Transmitters : \A t \in Receivers(f) :
        Faithful(content[<<"out", id, f, t>>], f)
=============================================================================
