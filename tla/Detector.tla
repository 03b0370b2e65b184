------------------------------ MODULE Detector ------------------------------
(***************************************************************************)
(* DetectorThread<from_index> (detector.h): cuts the stream of buffers     *)
(* captured from one modem into packets for the processor threads.         *)
(*                                                                         *)
(* The thread runs two Goby callbacks, one per subscription: audio_in for  *)
(* a captured buffer and a handler for buffer_size_change.  The two groups *)
(* are different, so the callbacks come in any order relative to each      *)
(* other.  A buffer is represented by its position in the captured stream  *)
(* and by its samples, each TRUE if |sample| >= detection_threshold; Null  *)
(* is the empty shared_ptr that boost::circular_buffer::resize pads with.  *)
(***************************************************************************)
EXTENDS Integers, Sequences

CONSTANTS
    Samples,           \* the sample sequences a captured buffer may hold
    BufferSizes,       \* the sizes JACK may switch to, in frames
    PrebufferSamples,  \* sampling_freq * packet_begin_prebuffer_seconds
    SilentSamples,     \* packet_end_silent_seconds * sampling_freq
    Modes,             \* the values cfg().continuous() may have
    MaxHeard,          \* bound: buffers received
    MaxResizes         \* bound: buffer size changes received

ASSUME SamplesAssumption == Samples \subseteq Seq(BOOLEAN)
ASSUME BufferSizesAssumption == BufferSizes \subseteq Nat \ {0}
ASSUME PrebufferAssumption == PrebufferSamples \in Nat
ASSUME SilentAssumption == SilentSamples \in Nat \ {0}
ASSUME ModesAssumption == Modes \subseteq BOOLEAN
ASSUME BoundsAssumption == MaxHeard \in Nat /\ MaxResizes \in Nat

VARIABLES
    continuous,         \* cfg().continuous(), fixed at the start
    in_packet_,
    in_packet_id,
    frames_since_silence,
    prebuffer_,         \* contents of the circular buffer, oldest first
    capacity,           \* its capacity
    global_packet_id,   \* the static counter of this template instance
    published,          \* DetectorAudio<from_index>: everything sent
    heard,              \* how many buffers audio_in has received
    resizes,            \* how many size changes have been handled
    unclean,            \* history: buffers up to this one precede the last
                        \* resize or the end of the last packet
    since               \* history: samples received after the detecting buffer

core == <<in_packet_, in_packet_id, frames_since_silence, global_packet_id>>
vars == <<continuous, core, prebuffer_, capacity, published, heard, resizes,
          unclean, since>>

Null == 0
Markers == {"NONE", "START", "MIDDLE", "END"}

Tagged(buffer, marker, id) ==
    [buffer |-> buffer, marker |-> marker, packet_id |-> id]

Init ==
    /\ continuous \in Modes
    /\ in_packet_ = FALSE
    /\ in_packet_id = -1
    /\ frames_since_silence = 0
    /\ prebuffer_ = <<>>
    /\ capacity = 1
    /\ global_packet_id = 0
    /\ published = <<>>
    /\ heard = 0
    /\ resizes = 0
    /\ unclean = 0
    /\ since = <<>>

-----------------------------------------------------------------------------
(* boost::circular_buffer *)

\* push_back on a full buffer overwrites the oldest element.
PushBack(pb, cap, b) ==
    IF Len(pb) < cap THEN Append(pb, b) ELSE Append(Tail(pb), b)

\* resize pads with null pointers at the back, or drops elements at the back.
Resize(pb, n) ==
    IF n > Len(pb) THEN pb \o [i \in 1..(n - Len(pb)) |-> Null]
                   ELSE SubSeq(pb, 1, n)

\* The capacity grows with a resize and never shrinks.
Grow(cap, n) == IF n > cap THEN n ELSE cap

PrebufferSize(buffer_size) ==
    LET n == PrebufferSamples \div buffer_size IN IF n > 0 THEN n ELSE 1

BufferSizeChange(buffer_size) ==
    /\ resizes < MaxResizes
    /\ resizes' = resizes + 1
    /\ prebuffer_' = Resize(prebuffer_, PrebufferSize(buffer_size))
    /\ capacity' = Grow(capacity, PrebufferSize(buffer_size))
    /\ unclean' = heard
    /\ UNCHANGED <<continuous, core, published, heard, since>>

-----------------------------------------------------------------------------
(* audio_in, one action per path through the function *)

Loud(s) == \E i \in 1..Len(s) : s[i]

\* l is the position of the last loud sample of s, 0 if there is none.
LastLoud(s, l) ==
    /\ l > 0 => s[l]
    /\ \A i \in (l + 1)..Len(s) : ~s[i]

\* Somewhere in s the silence that began f samples before s, or one that
\* begins inside s, has lasted SilentSamples.
SilenceReached(f, s) ==
    \E k \in 1..Len(s) :
        \/ f + k >= SilentSamples /\ \A i \in 1..k : ~s[i]
        \/ k >= SilentSamples /\ \A i \in (k - SilentSamples + 1)..k : ~s[i]

\* The next buffer arrives; the mode is the configuration's and never changes.
Receive ==
    /\ heard < MaxHeard
    /\ heard' = heard + 1
    /\ UNCHANGED continuous

Quiet_NotSent(s) ==
    /\ Receive
    /\ ~in_packet_ /\ ~Loud(s)
    /\ prebuffer_' = PushBack(prebuffer_, capacity, heard + 1)
    /\ UNCHANGED <<core, capacity, published, resizes, unclean, since>>

\* Not in a packet and nothing above the threshold.
Quiet(s) ==
    /\ Receive
    /\ ~in_packet_ /\ ~Loud(s)
    /\ prebuffer_' = PushBack(prebuffer_, capacity, heard + 1)
    /\ published' = IF continuous
                    THEN Append(published, Tagged(heard + 1, "NONE", in_packet_id))
                    ELSE published
    /\ UNCHANGED <<core, capacity, resizes, unclean, since>>

\* What every detection does before it publishes.
Detect(s) ==
    /\ Receive
    /\ ~in_packet_ /\ Loud(s)
    /\ in_packet_' = TRUE
    /\ in_packet_id' = global_packet_id
    /\ global_packet_id' = global_packet_id + 1
    /\ since' = <<>>
    /\ UNCHANGED <<frames_since_silence, capacity, resizes, unclean>>

DetectContinuous(s) ==
    /\ continuous
    /\ Detect(s)
    /\ prebuffer_' = PushBack(prebuffer_, capacity, heard + 1)
    /\ published' = Append(published, Tagged(heard + 1, "START", global_packet_id))

\* The oldest prebuffer element is a null pointer: break, publishing nothing.
DetectHeadless(s) ==
    /\ ~continuous
    /\ Detect(s)
    /\ prebuffer_' = PushBack(prebuffer_, capacity, heard + 1)
    /\ Head(prebuffer_') = Null
    /\ UNCHANGED published

\* The run of buffers a detection sends: the prebuffer, oldest first.
PacketHead(pb, id) ==
    [i \in 1..Len(pb) |-> Tagged(pb[i], IF i = 1 THEN "START" ELSE "NONE", id)]

DetectStart_KeepsPrebuffer(s) ==
    /\ ~continuous
    /\ Detect(s)
    /\ LET pb == PushBack(prebuffer_, capacity, heard + 1)
       IN  /\ Head(pb) # Null
           /\ published' = published \o PacketHead(pb, global_packet_id)
           /\ prebuffer_' = pb

DetectStart_WithoutLast(s) ==
    /\ ~continuous
    /\ Detect(s)
    /\ LET pb == PushBack(prebuffer_, capacity, heard + 1)
       IN  /\ Head(pb) # Null
           /\ published' = published \o PacketHead(SubSeq(pb, 1, Len(pb) - 1),
                                                   global_packet_id)
    /\ prebuffer_' = <<>>

DetectStart_AllStart(s) ==
    /\ ~continuous
    /\ Detect(s)
    /\ LET pb == PushBack(prebuffer_, capacity, heard + 1)
       IN  /\ Head(pb) # Null
           /\ published' = published \o
                [i \in 1..Len(pb) |-> Tagged(pb[i], "START", global_packet_id)]
    /\ prebuffer_' = <<>>

DetectStart(s) ==
    /\ ~continuous
    /\ Detect(s)
    /\ LET pb == PushBack(prebuffer_, capacity, heard + 1)
       IN  /\ Head(pb) # Null
           /\ published' = published \o PacketHead(pb, global_packet_id)
    /\ prebuffer_' = <<>>

PacketContinues_NoReset(s) ==
    /\ Receive
    /\ in_packet_ /\ ~SilenceReached(frames_since_silence, s)
    /\ \E l \in 0..Len(s) :
          /\ LastLoud(s, l)
          /\ frames_since_silence' = frames_since_silence + Len(s) - l
    /\ published' = Append(published, Tagged(heard + 1, "MIDDLE", in_packet_id))
    /\ since' = since \o s
    /\ UNCHANGED <<in_packet_, in_packet_id, global_packet_id, prebuffer_,
                   capacity, resizes, unclean>>

\* In a packet that this buffer does not end.
PacketContinues(s) ==
    /\ Receive
    /\ in_packet_ /\ ~SilenceReached(frames_since_silence, s)
    /\ \E l \in 0..Len(s) :
          /\ LastLoud(s, l)
          /\ frames_since_silence' =
                IF l = 0 THEN frames_since_silence + Len(s) ELSE Len(s) - l
    /\ published' = Append(published, Tagged(heard + 1, "MIDDLE", in_packet_id))
    /\ since' = since \o s
    /\ UNCHANGED <<in_packet_, in_packet_id, global_packet_id, prebuffer_,
                   capacity, resizes, unclean>>

\* In a packet that this buffer ends; in continuous mode the test after the
\* loop sends the buffer once more.
PacketEnds(s) ==
    /\ Receive
    /\ in_packet_ /\ SilenceReached(frames_since_silence, s)
    /\ in_packet_' = FALSE
    /\ frames_since_silence' = 0
    /\ published' = published
                      \o <<Tagged(heard + 1, "END", in_packet_id)>>
                      \o IF continuous
                         THEN <<Tagged(heard + 1, "NONE", in_packet_id)>>
                         ELSE <<>>
    /\ unclean' = heard + 1
    /\ since' = since \o s
    /\ UNCHANGED <<in_packet_id, global_packet_id, prebuffer_, capacity, resizes>>

AudioIn(s) ==
    \/ Quiet(s)
    \/ DetectContinuous(s)
    \/ DetectHeadless(s)
    \/ DetectStart(s)
    \/ PacketContinues(s)
    \/ PacketEnds(s)

Next ==
    \/ \E s \in Samples : AudioIn(s)
    \/ \E b \in BufferSizes : BufferSizeChange(b)

Spec == Init /\ [][Next]_vars

-----------------------------------------------------------------------------
(* Properties *)

(* Every variable stays in its type and the prebuffer within its capacity. *)
TypeOK ==
    /\ continuous \in BOOLEAN
    /\ in_packet_ \in BOOLEAN
    /\ in_packet_id \in Nat \cup {-1}
    /\ frames_since_silence \in Nat
    /\ prebuffer_ \in Seq(0..MaxHeard)
    /\ capacity \in Nat \ {0}
    /\ Len(prebuffer_) <= capacity
    /\ global_packet_id \in Nat
    /\ published \in Seq([buffer : 0..MaxHeard, marker : Markers,
                          packet_id : Nat \cup {-1}])
    /\ heard \in 0..MaxHeard
    /\ resizes \in 0..MaxResizes
    /\ unclean \in 0..heard
    /\ since \in Seq(BOOLEAN)

(* Packet mode sends no captured buffer twice: what a detection takes out  *)
(* of the prebuffer is never sent again, by MIDDLE, by END or by a later   *)
(* detection, whatever resizes happen in between.                          *)
SentAtMostOnce ==
    ~continuous =>
        \A i, j \in 1..Len(published) :
            i # j /\ published[i].buffer # Null
                => published[i].buffer # published[j].buffer

Rank(marker) == CASE marker = "START" -> 1 [] marker = "NONE" -> 2
                  [] marker = "MIDDLE" -> 3 [] marker = "END" -> 4

(* Packet mode sends well-bracketed packets: ids count up by one, a packet *)
(* is START, NONE..., MIDDLE..., END in that order (START and NONE missing *)
(* together when the prebuffer had no audio), one ends before the next one *)
(* begins, and between packets the last thing sent was an END.             *)
WellBracketed ==
    ~continuous =>
        /\ \A i \in 1..(Len(published) - 1) :
             LET a == published[i]
                 b == published[i + 1]
             IN  \/ /\ a.packet_id = b.packet_id
                    /\ a.marker # "END" /\ b.marker # "START"
                    /\ Rank(a.marker) <= Rank(b.marker)
                 \/ /\ b.packet_id = a.packet_id + 1
                    /\ a.marker = "END" /\ b.marker # "NONE"
        /\ published # <<>> /\ ~in_packet_
             => published[Len(published)].marker = "END"

QuietWindow(w) ==
    \E k \in SilentSamples..Len(w) :
        \A i \in (k - SilentSamples + 1)..k : ~w[i]

(* A packet ends with the first buffer that completes a silence of         *)
(* SilentSamples after the detection, counted across buffers, and never    *)
(* earlier or later: the samples heard while the packet lasts contain no   *)
(* such silence, those heard when it has ended do.                         *)
EndsAtFirstSilence ==
    global_packet_id > 0 => (in_packet_ <=> ~QuietWindow(since))

CleanStartStep ==
    LET pb == PushBack(prebuffer_, capacity, heard + 1)
        new == SubSeq(published', Len(published) + 1, Len(published'))
    IN  (/\ ~continuous
         /\ ~in_packet_ /\ in_packet_'
         /\ \A i \in 1..Len(pb) : pb[i] > unclean)
          => /\ Len(new) = Len(pb)
             /\ new[1].marker = "START"
             /\ \A i \in 1..Len(new) :
                   new[i].buffer = heard + 1 - (Len(new) - i)

(* Once the prebuffer holds nothing from before the last resize or from    *)
(* before the end of the last packet, a detection publishes one START and  *)
(* then, without a gap, every buffer up to the detecting one.              *)
CleanStart == [][CleanStartStep]_vars

(* Continuous mode sends every buffer, in order, without a gap.            *)
ContinuousIsGapless ==
    continuous =>
        /\ heard > 0 => /\ published # <<>>
                        /\ published[1].buffer = 1
                        /\ published[Len(published)].buffer = heard
        /\ \A i \in 1..(Len(published) - 1) :
             published[i + 1].buffer - published[i].buffer \in
                 IF published[i].marker = "END" THEN {0} ELSE {1}
=============================================================================
