---------------------------- MODULE JackPlayback ----------------------------
(***************************************************************************)
(* The playback half of JackThread<jack_modem_index> (jack_thread.h), for  *)
(* one output modem: the Goby callback audio_out queues what a processor   *)
(* thread sends, and the realtime callback jack_process plays the queue    *)
(* into the modem's output port; in continuous mode the queue is the last  *)
(* frame received.  Both hold audio_out_mutex_ throughout, so each is one  *)
(* action.  The ports of the other modems use entries of the same maps     *)
(* that this one never touches.                                            *)
(*                                                                         *)
(* The samples received since the last START are numbered 1, 2, ...; a     *)
(* queued buffer is the number of its first sample and its size.  Nothing  *)
(* but a START empties the queue or makes jack_process wait, so a packet   *)
(* that comes without one (the detector's when its prebuffer was empty, or *)
(* the rest of one begun before this process subscribed) goes on with the  *)
(* numbers of the packet before it.  Time is counted in frames and         *)
(* relative to the current cycle, so that the model has no clock: lead is  *)
(* how far in the future buffer_start_time of the packet lies (0 once it   *)
(* has passed, where the code no longer distinguishes).                    *)
(***************************************************************************)
EXTENDS Integers, Sequences

CONSTANTS
    NFrames,      \* frames per cycle, also the size of empty_buffer_
    Sizes,        \* sizes of the buffers the processors send
    MinPlayback,  \* cfg().jack().min_playback_buffer_size()
    Calibration,  \* cfg().jack().calibration_seconds() * fs_
    MaxLead,      \* bound: how far ahead of its playback a packet arrives
    MaxSamples,   \* bound: samples of a packet
    MaxBuffers    \* bound: buffers of a packet

ASSUME FramesAssumption == NFrames \in Nat \ {0} /\ Sizes \subseteq Nat
ASSUME JackConfigAssumption == MinPlayback \in Nat /\ Calibration \in Nat
ASSUME PlaybackBoundsAssumption ==
    MaxLead \in Nat /\ MaxSamples \in Nat /\ MaxBuffers \in Nat

VARIABLES
    continuous,         \* cfg().continuous(), which never changes
    audio_out_buffer_,  \* the queue: records [first, size]
    audio_out_index_,   \* position within the front buffer
    new_packet_,        \* START received, playback not begun
    lead,               \* buffer_start_time of the packet - now
    sent,               \* samples received since the last START
    buffers,            \* buffers received since the last START
    ended,              \* the last buffer received was an END
    out,                \* what the last cycle wrote; <<>> if nothing
    last,               \* history: last sample played since the last START
    starved             \* history: since the last START the queue ran dry
                        \* before an END, or was filled again after running dry

queue == <<audio_out_buffer_, audio_out_index_, new_packet_>>
packet == <<sent, buffers, ended>>
playback_vars == <<continuous, queue, lead, packet, out, last, starved>>

Silence == 0

PlaybackInit ==
    /\ continuous \in BOOLEAN
    /\ audio_out_buffer_ = <<>>
    /\ audio_out_index_ = 0
    /\ new_packet_ = FALSE
    /\ lead = 0
    /\ sent = 0 /\ buffers = 0 /\ ended = TRUE
    /\ out = <<>>
    /\ last = 0
    /\ starved = FALSE

-----------------------------------------------------------------------------
(* audio_out.  The processors forward what the detectors send: a START     *)
(* only after the END of the packet before it, and packets without START.  *)

Buffer(first, size) == [first |-> first, size |-> size]

AudioOutStart(size, start) ==
    /\ ~continuous /\ ended
    /\ size <= MaxSamples
    /\ audio_out_buffer_' = <<Buffer(1, size)>>
    /\ new_packet_' = TRUE
    /\ lead' = start
    /\ sent' = size /\ buffers' = 1 /\ ended' = FALSE
    /\ last' = 0 /\ starved' = FALSE
    /\ UNCHANGED <<continuous, audio_out_index_, out>>

\* Any other buffer, behind a START or not, is queued as it is.  If the queue
\* has run dry, audio_out_index_ stands where it was left in empty_buffer_.
AudioOutMore(size, end) ==
    /\ ~continuous
    /\ sent + size <= MaxSamples /\ buffers < MaxBuffers
    /\ audio_out_buffer_' = Append(audio_out_buffer_, Buffer(sent + 1, size))
    /\ sent' = sent + size /\ buffers' = buffers + 1 /\ ended' = end
    /\ starved' = (starved \/ (audio_out_buffer_ = <<>> /\ audio_out_index_ > 0))
    /\ UNCHANGED <<continuous, audio_out_index_, new_packet_, lead, out, last>>

\* "just keep the last frame"; the detector's frames are a cycle long.
AudioOutContinuous ==
    /\ continuous
    /\ sent + NFrames <= MaxSamples
    /\ audio_out_buffer_' = <<Buffer(sent + 1, NFrames)>>
    /\ sent' = sent + NFrames
    /\ UNCHANGED <<continuous, audio_out_index_, new_packet_, lead, buffers, ended,
                   out, last, starved>>

-----------------------------------------------------------------------------
(* jack_process *)

FrameStart_NoPastTest ==
    IF lead >= Calibration THEN {lead - Calibration} ELSE {NFrames + 1}

\* Values frame_start may take.  A negative double converted to the unsigned
\* jack_nframes_t is undefined: 0 where the conversion saturates, a number
\* beyond any cycle where it wraps around.
FrameStart ==
    IF lead = 0 THEN {0}
    ELSE IF lead >= Calibration THEN {lead - Calibration}
    ELSE {0, NFrames + 1}

Exhausted_OneOnly(q, index) ==
    IF q = <<>> \/ index < q[1].size THEN 0 ELSE 1

\* How many buffers the while loop pops before the next sample.
Exhausted(q, index) ==
    IF q = <<>> \/ index < q[1].size THEN 0
    ELSE CHOOSE n \in 1..Len(q) :
            /\ \A k \in 2..n : q[k].size = 0
            /\ n = Len(q) \/ q[n + 1].size > 0

\* The index after popping n buffers.
NextIndex(n, index) == IF n = 0 THEN index ELSE 0

\* One frame, before the start of the packet and after it.  Once the queue is
\* dry, empty_buffer_ is played.
SilentFrame(s) == [q |-> s.q, index |-> s.index, out |-> Append(s.out, Silence)]

PlayFrame(s) ==
    LET n == Exhausted(s.q, s.index)
        rest == SubSeq(s.q, n + 1, Len(s.q))
        i == NextIndex(n, s.index)
    IN  [q |-> rest,
         index |-> i + 1,
         out |-> Append(s.out, IF rest = <<>> THEN Silence ELSE rest[1].first + i)]

\* The loop over the frames of a cycle: the queue, the index and the samples
\* written after each frame.
Play(q, index, frame_start) ==
    LET frame[f \in 0..NFrames] ==
          IF f = 0 THEN [q |-> q, index |-> index, out |-> <<>>]
          ELSE IF f <= frame_start THEN SilentFrame(frame[f - 1])
          ELSE PlayFrame(frame[f - 1])
    IN  frame[NFrames]

LastPlayed(o) ==
    IF \E f \in 1..Len(o) : o[f] # Silence
    THEN CHOOSE n \in {o[f] : f \in 1..Len(o)} :
            \A f \in 1..Len(o) : o[f] <= n
    ELSE last

\* One cycle later everything is NFrames closer.
Elapse == lead' = IF lead > NFrames THEN lead - NFrames ELSE 0

\* Nothing queued, or the packet does not start in this cycle, or too little
\* of it has arrived: the port's buffer is left as it is.
CycleIdle ==
    /\ \/ audio_out_buffer_ = <<>> /\ UNCHANGED audio_out_index_
       \/ /\ audio_out_buffer_ # <<>> /\ new_packet_
          /\ audio_out_index_' = 0
          /\ \E fs \in FrameStart :
                fs > NFrames \/ Len(audio_out_buffer_) < MinPlayback
    /\ out' = <<>>
    /\ Elapse
    /\ UNCHANGED <<continuous, audio_out_buffer_, new_packet_, packet, last, starved>>

Cycle(index, fs) ==
    \E p \in {Play(audio_out_buffer_, index, fs)} :
        /\ audio_out_buffer_' = p.q
        /\ audio_out_index_' = p.index
        /\ out' = p.out
        /\ last' = LastPlayed(p.out)
        /\ starved' = (starved \/ (p.q = <<>> /\ ~ended))
        /\ Elapse
        /\ UNCHANGED <<continuous, packet>>

CycleBegin_NoOffset ==
    /\ audio_out_buffer_ # <<>> /\ new_packet_
    /\ Len(audio_out_buffer_) >= MinPlayback
    /\ new_packet_' = FALSE
    /\ \E fs \in FrameStart : fs <= NFrames /\ Cycle(0, 0)

CycleBegin_StaysNew ==
    /\ audio_out_buffer_ # <<>> /\ new_packet_
    /\ Len(audio_out_buffer_) >= MinPlayback
    /\ UNCHANGED new_packet_
    /\ \E fs \in FrameStart : fs <= NFrames /\ Cycle(0, fs)

\* The packet starts within this cycle, or at its end.
CycleBegin ==
    /\ audio_out_buffer_ # <<>> /\ new_packet_
    /\ Len(audio_out_buffer_) >= MinPlayback
    /\ new_packet_' = FALSE
    /\ \E fs \in FrameStart : fs <= NFrames /\ Cycle(0, fs)

\* Playback has begun, or what is queued had no START.
CycleContinue ==
    /\ ~continuous /\ audio_out_buffer_ # <<>> /\ ~new_packet_
    /\ Cycle(audio_out_index_, 0)
    /\ UNCHANGED new_packet_

\* The frame is played and stays; one with another jack_frame_time is warned of.
CycleContinuous ==
    /\ continuous /\ audio_out_buffer_ # <<>>
    /\ out' = [f \in 1..NFrames |-> audio_out_buffer_[1].first + f - 1]
    /\ last' = LastPlayed(out')
    /\ Elapse
    /\ UNCHANGED <<continuous, queue, packet, starved>>

JackProcess == CycleIdle \/ CycleBegin \/ CycleContinue \/ CycleContinuous

AudioOut ==
    \/ AudioOutContinuous
    \/ \E size \in Sizes :
        \/ \E start \in 0..MaxLead : AudioOutStart(size, start)
        \/ \E end \in BOOLEAN : AudioOutMore(size, end)

PlaybackNext == JackProcess \/ AudioOut

PlaybackSpec == PlaybackInit /\ [][PlaybackNext]_playback_vars

(* JACK calls jack_process once per cycle for as long as it runs; nothing  *)
(* is assumed of the processors.                                           *)
FairPlaybackSpec == PlaybackSpec /\ WF_playback_vars(JackProcess)

-----------------------------------------------------------------------------
(* Properties *)

\* A step of jack_process: every step of audio_out changes the packet.
CycleStep == UNCHANGED packet

Plays(o, n) == \E f \in 1..Len(o) : o[f] = n

OnTime ==
    LET due == IF lead > Calibration THEN lead - Calibration ELSE 0
    IN  /\ last = 0 /\ Plays(out', 1) => due < NFrames /\ out'[due + 1] = 1
        /\ (/\ new_packet_ /\ sent > 0
            /\ Len(audio_out_buffer_) >= MinPlayback
            /\ lead = 0 \/ lead >= Calibration
            /\ due < NFrames)
              => Plays(out', 1)

Gapless ==
    \A f \in 1..Len(out') :
        /\ out'[f] # Silence =>
              out'[f] = IF f > 1 /\ out'[f - 1] # Silence
                        THEN out'[f - 1] + 1 ELSE last + 1
        /\ (out'[f] = Silence /\ (last > 0 \/ \E g \in 1..f : out'[g] # Silence))
              => ended /\ last' = sent

Onward ==
    \A f \in 1..Len(out') : out'[f] # Silence =>
        /\ out'[f] > IF continuous THEN sent - NFrames ELSE last
        /\ \A g \in 1..(f - 1) : out'[g] < out'[f]

(* The first sample of a packet with a START is written at its start time  *)
(* less the calibration, or at the beginning of the cycle if that has      *)
(* passed, never earlier or later in the cycle; and such a packet that     *)
(* falls due in a cycle and of which enough has arrived, counting a packet *)
(* without START queued behind it, does begin in that cycle.  (The start   *)
(* times closer than the calibration are left out: what happens to them is *)
(* undefined, see FrameStart.)  The start time of a packet without START   *)
(* is not looked at: the first one ever received begins with the next      *)
(* cycle, whatever the minimum; later ones are in GaplessPlayback.         *)
StartsOnTime == [][ CycleStep => OnTime ]_playback_vars

(* In packet mode there is no gap, in a packet or between it and those     *)
(* without START that come before it has been played to its end: the       *)
(* samples of a cycle are the next ones received, in consecutive frames,   *)
(* from the first frame on once playback has begun, and silence follows    *)
(* only when all has been played and its END received.  Two cases are left *)
(* out until the next START: the queue ran dry before an END, and a buffer *)
(* came when it had run dry, as every packet without START does that comes *)
(* later than that: audio_out_index_ stands in empty_buffer_ then, and as  *)
(* many samples are skipped (NeverReplayed covers them).                   *)
GaplessPlayback == [][ CycleStep /\ ~continuous /\ ~starved' => Gapless ]_playback_vars

(* No sample is ever played twice or before an earlier one of its packet,  *)
(* even when buffers come too late.  In continuous mode a cycle plays the  *)
(* newest frame from its beginning to its end, the same one again only if  *)
(* no newer one has come.                                                  *)
NeverReplayed == [][ CycleStep => Onward ]_playback_vars

(* A packet that has arrived completely before its playback began, with at *)
(* least MinPlayback buffers, is eventually played to its last sample,     *)
(* with what was queued behind it, unless buffers of another packet come   *)
(* before that.                                                            *)
CompletePacketPlays ==
    (ended /\ new_packet_ /\ Len(audio_out_buffer_) >= MinPlayback)
        ~> (last = sent \/ ~ended)
=============================================================================
