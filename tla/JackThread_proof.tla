-------------------------- MODULE JackThread_proof --------------------------
(***************************************************************************)
(* Proofs about the two halves of JackThread: JackCapture, for every       *)
(* MaxBufferSize and MaxCaptured, and JackPlayback, for every cycle        *)
(* length, buffer size, minimum and calibration.                           *)
(*                                                                         *)
(* Capture.  The inductive invariant adds to the type invariant and to     *)
(* PopsWhatWasPublished the order of the whole stream: the published       *)
(* buffers and the deque are increasing, and everything published is older *)
(* than everything in the deque (the front itself excepted while it is     *)
(* published and not yet popped).                                          *)
(*                                                                         *)
(* Playback.  The invariant PlaybackInv (below) says that the queue holds  *)
(* consecutive samples up to the last one received, that the position in   *)
(* it is behind everything played, exactly one behind unless the queue ran *)
(* dry, and that only a packet that waits can lie further ahead than the   *)
(* calibration.  The loop over the frames of a cycle has an invariant of   *)
(* its own (Played, PlayedExactly), by induction over the frames.          *)
(***************************************************************************)
EXTENDS JackCapture, JackPlayback, SequenceTheorems, WellFoundedInduction, TLAPS

Increasing(s) == \A i, j \in 1..Len(s) : i < j => s[i] < s[j]

PublishedBeforeDeque ==
    \A i \in 1..Len(published), j \in 1..Len(audio_in_buffer_) :
        \/ published[i] < audio_in_buffer_[j]
        \/ loop = "pop" /\ published[i] <= audio_in_buffer_[j]

NotNewerThanCaptured ==
    /\ \A i \in 1..Len(published) : published[i] <= captured
    /\ \A i \in 1..Len(audio_in_buffer_) : audio_in_buffer_[i] <= captured

IndInv ==
    /\ TypeOK
    /\ PopsWhatWasPublished
    /\ Increasing(published)
    /\ Increasing(audio_in_buffer_)
    /\ PublishedBeforeDeque
    /\ NotNewerThanCaptured

-----------------------------------------------------------------------------
(* The deque operations keep types and order. *)

LEMMA AppendType ==
    ASSUME NEW S, NEW s \in Seq(S), NEW e \in S
    PROVE  /\ Append(s, e) \in Seq(S)
           /\ Len(Append(s, e)) = Len(s) + 1
           /\ Append(s, e)[Len(s) + 1] = e
           /\ \A i \in 1..Len(s) : Append(s, e)[i] = s[i]
OBVIOUS

LEMMA TailType ==
    ASSUME NEW S, NEW s \in Seq(S), s # <<>>
    PROVE  /\ Tail(s) \in Seq(S)
           /\ Len(s) \in Nat \ {0}
           /\ Head(s) = s[1]
           /\ Head(s) \in S
           /\ Len(Tail(s)) = Len(s) - 1
           /\ \A i \in 1..Len(Tail(s)) : Tail(s)[i] = s[i + 1]
OBVIOUS

LEMMA AppendIncreasing ==
    ASSUME NEW N \in Nat, NEW s \in Seq(1..N), NEW e \in 1..N,
           Increasing(s), \A i \in 1..Len(s) : s[i] < e
    PROVE  Increasing(Append(s, e))
<1> DEFINE a == Append(s, e)
<1>1. /\ Len(a) = Len(s) + 1
      /\ a[Len(s) + 1] = e
      /\ \A i \in 1..Len(s) : a[i] = s[i]
  BY AppendType
<1> SUFFICES ASSUME NEW i \in 1..Len(a), NEW j \in 1..Len(a), i < j
             PROVE  a[i] < a[j]
  BY DEF Increasing
<1>2. Len(s) \in Nat
  OBVIOUS
<1>3. i \in 1..Len(s) /\ (j \in 1..Len(s) \/ j = Len(s) + 1)
  BY <1>1, <1>2, SMTT(30)
<1> HIDE DEF a
<1> QED BY <1>1, <1>3 DEF Increasing

LEMMA TailIncreasing ==
    ASSUME NEW N \in Nat, NEW s \in Seq(1..N), s # <<>>, Increasing(s)
    PROVE  /\ Increasing(Tail(s))
           /\ \A i \in 1..Len(Tail(s)) : Head(s) < Tail(s)[i]
<1>1. \A i \in 1..Len(Tail(s)) : i + 1 \in 1..Len(s) /\ Tail(s)[i] = s[i + 1]
  BY TailType
<1>2. 1 \in 1..Len(s) /\ Head(s) = s[1]
  BY TailType
<1> QED BY <1>1, <1>2 DEF Increasing

-----------------------------------------------------------------------------
LEMMA InitIndInv == Init => IndInv
<1> SUFFICES ASSUME Init PROVE IndInv
  OBVIOUS
<1>1. TypeOK
  <2>1. <<>> \in Seq(1..MaxCaptured)
    OBVIOUS
  <2>2. 0 \in 0..MaxCaptured
    BY MaxCapturedAssumption
  <2> QED BY <2>1, <2>2 DEF Init, TypeOK, LoopStates
<1> QED BY <1>1 DEF Init, IndInv, PopsWhatWasPublished, Increasing,
                 PublishedBeforeDeque, NotNewerThanCaptured

LEMMA NextIndInv == IndInv /\ [Next]_vars => IndInv'
<1> SUFFICES ASSUME IndInv, [Next]_vars PROVE IndInv'
  OBVIOUS
<1>0. /\ TypeOK /\ PopsWhatWasPublished
      /\ Increasing(published) /\ Increasing(audio_in_buffer_)
      /\ PublishedBeforeDeque /\ NotNewerThanCaptured
  BY DEF IndInv
<1> USE MaxCapturedAssumption
\* Steps that leave the two sequences alone and change only where a thread is.
<1>1. ASSUME UNCHANGED <<audio_in_buffer_, captured, published>>,
             TypeOK', PopsWhatWasPublished', loop # "pop", loop' # "pop"
      PROVE  IndInv'
  BY <1>0, <1>1 DEF IndInv, Increasing, PublishedBeforeDeque, NotNewerThanCaptured
<1>2. CASE Constructor
  <2>1. TypeOK' /\ PopsWhatWasPublished'
    BY <1>0, <1>2 DEF Constructor, RegisterInputPort, FinishConstructor, TypeOK,
                      LoopStates, PopsWhatWasPublished
  <2> QED BY <1>1, <1>2, <2>1 DEF Constructor, RegisterInputPort, FinishConstructor
<1>3. CASE JackPush
  <2>1. /\ captured + 1 \in 1..MaxCaptured
        /\ captured' = captured + 1
        /\ audio_in_buffer_' = Append(audio_in_buffer_, captured + 1)
        /\ UNCHANGED <<input_port_, loop, temp_buffer, published>>
        /\ jack' = "notify"
    BY <1>0, <1>3 DEF JackPush, TypeOK
  <2>2. /\ audio_in_buffer_' \in Seq(1..MaxCaptured)
        /\ Len(audio_in_buffer_') = Len(audio_in_buffer_) + 1
        /\ audio_in_buffer_'[Len(audio_in_buffer_) + 1] = captured + 1
        /\ \A i \in 1..Len(audio_in_buffer_) :
              audio_in_buffer_'[i] = audio_in_buffer_[i]
    BY <1>0, <2>1, AppendType DEF TypeOK
  <2>3. TypeOK'
    BY <1>0, <2>1, <2>2 DEF TypeOK
  <2>4. PopsWhatWasPublished'
    <3>1. ASSUME audio_in_buffer_ # <<>>
          PROVE  /\ audio_in_buffer_' # <<>>
                 /\ Head(audio_in_buffer_') = Head(audio_in_buffer_)
      <4>1. Len(audio_in_buffer_) \in Nat \ {0}
        BY <1>0, <3>1, TailType DEF TypeOK
      <4>2. Head(audio_in_buffer_) = audio_in_buffer_[1]
        BY <1>0, <3>1, TailType DEF TypeOK
      <4>3. audio_in_buffer_' # <<>>
        BY <2>2, <4>1
      <4>4. Head(audio_in_buffer_') = audio_in_buffer_'[1]
        BY <2>2, <4>3, TailType
      <4> QED BY <2>2, <4>1, <4>2, <4>3, <4>4
    <3> QED BY <1>0, <2>1, <3>1 DEF PopsWhatWasPublished
  <2>5. Increasing(audio_in_buffer_)'
    <3>1. \A i \in 1..Len(audio_in_buffer_) : audio_in_buffer_[i] < captured + 1
      BY <1>0 DEF NotNewerThanCaptured, TypeOK
    <3>2. Increasing(Append(audio_in_buffer_, captured + 1))
      BY <1>0, <2>1, <3>1, AppendIncreasing DEF TypeOK
    <3> QED BY <2>1, <3>2
  <2>6. PublishedBeforeDeque'
    BY <1>0, <2>1, <2>2 DEF PublishedBeforeDeque, NotNewerThanCaptured, TypeOK
  <2>7. NotNewerThanCaptured'
    BY <1>0, <2>1, <2>2 DEF NotNewerThanCaptured, TypeOK
  <2>8. Increasing(published)'
    BY <1>0, <2>1 DEF Increasing
  <2> QED BY <2>3, <2>4, <2>5, <2>6, <2>7, <2>8 DEF IndInv
<1>4. CASE JackNotify
  <2>1. TypeOK' /\ PopsWhatWasPublished'
    BY <1>0, <1>4 DEF JackNotify, TypeOK, LoopStates, PopsWhatWasPublished
  <2> QED BY <1>0, <1>4, <2>1 DEF JackNotify, IndInv, Increasing,
                                  PublishedBeforeDeque, NotNewerThanCaptured
<1>5. CASE LoopWait
  <2>1. TypeOK' /\ PopsWhatWasPublished'
    BY <1>0, <1>5 DEF LoopWait, TypeOK, LoopStates, PopsWhatWasPublished
  <2> QED BY <1>1, <1>5, <2>1 DEF LoopWait
<1>6. CASE SpuriousWakeup
  <2>1. TypeOK' /\ PopsWhatWasPublished'
    BY <1>0, <1>6 DEF SpuriousWakeup, TypeOK, LoopStates, PopsWhatWasPublished
  <2> QED BY <1>1, <1>6, <2>1 DEF SpuriousWakeup
<1>7. CASE LoopOverflow
  <2>1. audio_in_buffer_' = <<>> /\ audio_in_buffer_' \in Seq(1..MaxCaptured)
    BY <1>7 DEF LoopOverflow
  <2>2. TypeOK' /\ PopsWhatWasPublished'
    BY <1>0, <1>7, <2>1 DEF LoopOverflow, TypeOK, LoopStates, PopsWhatWasPublished
  <2> QED BY <1>0, <1>7, <2>1, <2>2 DEF LoopOverflow, IndInv, Increasing,
                                  PublishedBeforeDeque, NotNewerThanCaptured
<1>8. CASE LoopTake
  <2>1. Head(audio_in_buffer_) \in 1..MaxCaptured
    BY <1>0, <1>8, TailType DEF LoopTake, TypeOK
  <2>2. TypeOK' /\ PopsWhatWasPublished'
    BY <1>0, <1>8, <2>1 DEF LoopTake, TypeOK, LoopStates, PopsWhatWasPublished
  <2> QED BY <1>1, <1>8, <2>2 DEF LoopTake
<1>9. CASE LoopPublish
  <2>1. /\ loop = "publish" /\ loop' = "pop"
        /\ published' = Append(published, temp_buffer)
        /\ UNCHANGED <<audio_in_buffer_, input_port_, captured, jack, temp_buffer>>
    BY <1>9 DEF LoopPublish
  <2>2. /\ audio_in_buffer_ # <<>>
        /\ temp_buffer = Head(audio_in_buffer_)
        /\ temp_buffer = audio_in_buffer_[1]
        /\ temp_buffer \in 1..MaxCaptured
        /\ 1 \in 1..Len(audio_in_buffer_)
    BY <1>0, <2>1, TailType DEF PopsWhatWasPublished, TypeOK
  <2>3. /\ published' \in Seq(1..MaxCaptured)
        /\ Len(published') = Len(published) + 1
        /\ published'[Len(published) + 1] = temp_buffer
        /\ \A i \in 1..Len(published) : published'[i] = published[i]
    BY <1>0, <2>1, <2>2, AppendType DEF TypeOK
  <2>4. TypeOK'
    BY <1>0, <2>1, <2>3 DEF TypeOK, LoopStates
  <2>5. PopsWhatWasPublished'
    BY <1>0, <2>1, <2>2, <2>3 DEF PopsWhatWasPublished, TypeOK
  <2>6. Increasing(published)'
    <3>1. \A i \in 1..Len(published) : published[i] < temp_buffer
      BY <1>0, <2>1, <2>2 DEF PublishedBeforeDeque
    <3>2. Increasing(Append(published, temp_buffer))
      BY <1>0, <2>2, <3>1, AppendIncreasing DEF TypeOK
    <3> QED BY <2>1, <3>2
  <2>7. PublishedBeforeDeque'
    <3>1. \A j \in 1..Len(audio_in_buffer_) : temp_buffer <= audio_in_buffer_[j]
      BY <1>0, <2>2 DEF Increasing, TypeOK
    <3> QED BY <1>0, <2>1, <2>3, <3>1 DEF PublishedBeforeDeque, TypeOK
  <2>8. NotNewerThanCaptured'
    BY <1>0, <2>1, <2>2, <2>3 DEF NotNewerThanCaptured, TypeOK
  <2>9. Increasing(audio_in_buffer_)'
    BY <1>0, <2>1 DEF Increasing
  <2> QED BY <2>4, <2>5, <2>6, <2>7, <2>8, <2>9 DEF IndInv
<1>10. CASE LoopPop
  <2>1. /\ loop = "pop" /\ loop' = "take" /\ temp_buffer' = 0
        /\ audio_in_buffer_' = Tail(audio_in_buffer_)
        /\ UNCHANGED <<input_port_, captured, jack, published>>
    BY <1>10 DEF LoopPop
  <2>2. /\ audio_in_buffer_ # <<>>
        /\ Head(audio_in_buffer_) = audio_in_buffer_[1]
        /\ 1 \in 1..Len(audio_in_buffer_)
        /\ audio_in_buffer_' \in Seq(1..MaxCaptured)
        /\ \A i \in 1..Len(audio_in_buffer_') :
             /\ i + 1 \in 1..Len(audio_in_buffer_)
             /\ audio_in_buffer_'[i] = audio_in_buffer_[i + 1]
    BY <1>0, <2>1, TailType DEF PopsWhatWasPublished, TypeOK
  <2>3. TypeOK' /\ PopsWhatWasPublished'
    BY <1>0, <2>1, <2>2 DEF TypeOK, LoopStates, PopsWhatWasPublished
  <2>4. /\ Increasing(Tail(audio_in_buffer_))
        /\ \A i \in 1..Len(Tail(audio_in_buffer_)) :
              Head(audio_in_buffer_) < Tail(audio_in_buffer_)[i]
    BY <1>0, <2>2, TailIncreasing DEF TypeOK
  <2>5. PublishedBeforeDeque'
    <3>0. published' = published
      BY <2>1
    <3> SUFFICES \A i \in 1..Len(published), j \in 1..Len(audio_in_buffer_') :
                     published[i] < audio_in_buffer_'[j]
      BY <3>0 DEF PublishedBeforeDeque
    <3> TAKE i \in 1..Len(published), j \in 1..Len(audio_in_buffer_')
    <3>1. i \in 1..Len(published) /\ j \in 1..Len(audio_in_buffer_')
      OBVIOUS
    <3>2. /\ published \in Seq(1..MaxCaptured)
          /\ audio_in_buffer_ \in Seq(1..MaxCaptured)
      BY <1>0 DEF TypeOK
    <3>3. published[i] \in Nat
      BY <3>1, <3>2
    <3>4. audio_in_buffer_[1] \in Nat
      <4>1. 1 \in 1..Len(audio_in_buffer_)
        BY <2>2
      <4>2. audio_in_buffer_[1] \in 1..MaxCaptured
        BY <3>2, <4>1
      <4> QED BY <4>2
    <3>5. audio_in_buffer_'[j] \in Nat
      <4>1. audio_in_buffer_' \in Seq(1..MaxCaptured)
        BY <2>2
      <4> QED BY <3>1, <4>1
    <3>6. published[i] <= audio_in_buffer_[1]
      BY <1>0, <2>2, <3>1, <3>3, <3>4, SMTT(30) DEF PublishedBeforeDeque
    <3>7. audio_in_buffer_[1] < audio_in_buffer_'[j]
      <4>1. j \in 1..Len(Tail(audio_in_buffer_))
        BY <2>1, <3>1
      <4>2. Head(audio_in_buffer_) < Tail(audio_in_buffer_)[j]
        BY <2>4, <4>1
      <4> QED BY <2>1, <2>2, <4>2
    <3> QED BY <3>3, <3>4, <3>5, <3>6, <3>7
  <2>6. NotNewerThanCaptured'
    BY <1>0, <2>1, <2>2 DEF NotNewerThanCaptured
  <2>7. Increasing(published)'
    BY <1>0, <2>1 DEF Increasing
  <2>8. Increasing(audio_in_buffer_)'
    BY <2>1, <2>4
  <2> QED BY <2>3, <2>5, <2>6, <2>7, <2>8 DEF IndInv
<1>11. CASE UNCHANGED vars
  BY <1>0, <1>11 DEF vars, IndInv, TypeOK, PopsWhatWasPublished, Increasing,
                     PublishedBeforeDeque, NotNewerThanCaptured
<1> QED BY <1>2, <1>3, <1>4, <1>5, <1>6, <1>7, <1>8, <1>9, <1>10, <1>11
        DEF Next, RealtimeThread, Loop

LEMMA InvariantHolds == Spec => []IndInv
BY InitIndInv, NextIndInv, PTL DEF Spec

-----------------------------------------------------------------------------
(* Type correctness of the capture side of JackThread. *)
THEOREM TypeCorrect == Spec => []TypeOK
<1>1. IndInv => TypeOK
  BY DEF IndInv
<1> QED BY <1>1, InvariantHolds, PTL

(* In every interleaving with jack_process, loop() pops exactly the buffer *)
(* that it has just published and never pops an empty deque.               *)
THEOREM PopIsSafe == Spec => []PopsWhatWasPublished
<1>1. IndInv => PopsWhatWasPublished
  BY DEF IndInv
<1> QED BY <1>1, InvariantHolds, PTL

(* The detector is sent the captured buffers in order and none twice.      *)
THEOREM OrderIsKept == Spec => []PublishedInOrder
<1>1. IndInv => PublishedInOrder
  BY DEF IndInv, Increasing, PublishedInOrder
<1> QED BY <1>1, InvariantHolds, PTL

-----------------------------------------------------------------------------
(* The two threads together implement the lossy stream LossyFifo: every    *)
(* step of the code is a step of the abstract stream or leaves it alone.   *)
THEOREM Refinement == Spec => ImplementsLossyFifo
<1>1. Init => LF!Init
  BY DEF Init, LF!Init
<1>2. IndInv /\ [Next]_vars => [LF!Next]_LF!vars
  <2> SUFFICES ASSUME IndInv, [Next]_vars PROVE [LF!Next]_LF!vars
    OBVIOUS
  <2>0. TypeOK /\ PopsWhatWasPublished
    BY DEF IndInv
  <2>1. CASE Constructor
    BY <2>1 DEF Constructor, RegisterInputPort, FinishConstructor, LF!vars
  <2>2. CASE JackPush
    <3>1. ASSUME loop = "pop"
          PROVE  Tail(Append(audio_in_buffer_, captured + 1))
                   = Append(Tail(audio_in_buffer_), captured + 1)
      <4>1. audio_in_buffer_ # <<>> /\ audio_in_buffer_ \in Seq(1..MaxCaptured)
        BY <2>0, <3>1 DEF TypeOK, PopsWhatWasPublished
      <4>2. captured + 1 \in 1..MaxCaptured
        BY <2>0, <2>2, MaxCapturedAssumption DEF JackPush, TypeOK
      <4> QED BY <4>1, <4>2
    <3>2. LF!Accept
      BY <2>2, <3>1 DEF JackPush, LF!Accept
    <3> QED BY <3>2 DEF LF!Next
  <2>3. CASE JackNotify
    BY <2>3 DEF JackNotify, LF!vars
  <2>4. CASE LoopWait
    BY <2>4 DEF LoopWait, LF!vars
  <2>5. CASE SpuriousWakeup
    BY <2>5 DEF SpuriousWakeup, LF!vars
  <2>6. CASE LoopOverflow
    <3>1. LF!LoseBacklog
      BY <2>6 DEF LoopOverflow, LF!LoseBacklog
    <3> QED BY <3>1 DEF LF!Next
  <2>7. CASE LoopTake
    BY <2>7 DEF LoopTake, LF!vars
  <2>8. CASE LoopPublish
    <3>1. LF!Deliver
      BY <2>0, <2>8 DEF LoopPublish, PopsWhatWasPublished, LF!Deliver
    <3> QED BY <3>1 DEF LF!Next
  <2>9. CASE LoopPop
    BY <2>9 DEF LoopPop, LF!vars
  <2>10. CASE UNCHANGED vars
    BY <2>10 DEF vars, LF!vars
  <2> QED BY <2>1, <2>2, <2>3, <2>4, <2>5, <2>6, <2>7, <2>8, <2>9, <2>10
          DEF Next, RealtimeThread, Loop
<1> QED BY <1>1, <1>2, InvariantHolds, PTL DEF Spec, ImplementsLossyFifo, LF!Spec

-----------------------------------------------------------------------------
(* JackPlayback: the queue and where playback is in it *)

Queued == [first : Nat \ {0}, size : Nat]

\* The queued buffers hold consecutive samples, up to number s.
Chain(q, s) ==
    /\ q \in Seq(Queued)
    /\ \A i \in 1..Len(q) : i < Len(q) => q[i + 1].first = q[i].first + q[i].size
    /\ \A i \in 1..Len(q) : i = Len(q) => q[i].first + q[i].size = s + 1
    /\ \A i \in 1..Len(q) : q[i].first + q[i].size <= s + 1

\* What is played next is later than sample h.
Ahead(q, index, h) ==
    q # <<>> => q[1].first + index > h /\ q[1].first + q[1].size > h

\* Sample h + 1 is played next, if it exists.
Exact(q, index, h, s) ==
    IF q = <<>> THEN h = s ELSE index <= q[1].size /\ q[1].first + index = h + 1

PlaybackTypes ==
    /\ continuous \in BOOLEAN /\ new_packet_ \in BOOLEAN
    /\ ended \in BOOLEAN /\ starved \in BOOLEAN
    /\ audio_out_index_ \in Nat /\ lead \in Nat /\ sent \in Nat /\ buffers \in Nat

\* Unless a packet waits for its start, a start time is at most as far ahead
\* as the calibration.
Begun == ~new_packet_ => lead <= Calibration

Packets ==
    ~continuous =>
        /\ last \in Nat /\ last <= sent
        /\ Chain(audio_out_buffer_, sent)
        /\ Ahead(audio_out_buffer_, audio_out_index_, last)
        /\ new_packet_ => /\ audio_out_buffer_ # <<>> /\ audio_out_buffer_[1].first = 1
                          /\ last = 0 /\ ~starved
        /\ ~new_packet_ /\ ~starved =>
              /\ Exact(audio_out_buffer_, audio_out_index_, last, sent)
              /\ audio_out_buffer_ = <<>> => ended

Frames ==
    continuous =>
        /\ ~new_packet_ /\ lead = 0
        /\ audio_out_buffer_ # <<>> =>
              /\ sent >= NFrames
              /\ audio_out_buffer_ = <<Buffer(sent - NFrames + 1, NFrames)>>

PlaybackInv == PlaybackTypes /\ Begun /\ Packets /\ Frames

-----------------------------------------------------------------------------
(* Counting *)

LEMMA Least ==
    ASSUME NEW T, T \subseteq Nat, T # {}
    PROVE  \E x \in T : \A y \in T : x <= y
<1>1. PICK R : IsWellFoundedOn(R, Nat) /\ \A a, b \in Nat : <<a, b>> \in R <=> a < b
  <2>1. IsWellFoundedOn(OpToRel(<, Nat), Nat)
    BY NatLessThanWellFounded
  <2>2. \A a, b \in Nat : <<a, b>> \in OpToRel(<, Nat) <=> a < b
    BY DEF OpToRel
  <2> QED BY <2>1, <2>2, Zenon
<1>2. PICK x \in T : \A y \in T : ~(<<y, x>> \in R)
  <2>1. IsWellFoundedOn(R, Nat)
    BY <1>1
  <2> QED BY <2>1, WFMin
<1>3. ASSUME NEW y \in T PROVE x <= y
  <2>1. y \in Nat /\ x \in Nat /\ ~(y < x)
    BY <1>1, <1>2
  <2> QED BY <2>1
<1> QED BY <1>3

(* A set that holds 0 and, with a number below a bound, the next one.      *)
LEMMA UpTo ==
    ASSUME NEW S, NEW bound \in Nat, 0 \in S,
           \A n \in 0..(bound - 1) : n \in S => n + 1 \in S
    PROVE  0..bound \subseteq S
<1> SUFFICES ASSUME (0..bound) \ S # {} PROVE FALSE
  OBVIOUS
<1> DEFINE T == (0..bound) \ S
<1>1. T \subseteq Nat /\ T # {}
  OBVIOUS
<1> HIDE DEF T
<1>2. PICK x \in T : \A y \in T : x <= y
  BY <1>1, Least
<1>3. x \in 0..bound /\ x \notin S /\ x # 0 /\ x \in Nat
  BY DEF T
<1>4. x - 1 \in 0..(bound - 1) /\ x - 1 \notin T
  BY <1>1, <1>2, <1>3
<1>5. x - 1 \in S
  BY <1>4 DEF T
<1>6. (x - 1) + 1 \in S
  BY <1>4, <1>5
<1> QED BY <1>3, <1>6

-----------------------------------------------------------------------------
(* Taking buffers off the queue *)

LEMMA ChainTypes ==
    ASSUME NEW s, NEW q, Chain(q, s)
    PROVE  /\ q \in Seq(Queued) /\ Len(q) \in Nat
           /\ \A i \in 1..Len(q) : q[i].first \in Nat /\ q[i].first >= 1 /\ q[i].size \in Nat
           /\ q # <<>> <=> Len(q) >= 1
<1>1. q \in Seq(Queued)
  BY DEF Chain
<1>2. \A i \in 1..Len(q) : q[i] \in Queued
  BY <1>1, ElementOfSeq
<1>3. \A i \in 1..Len(q) : q[i].first \in Nat /\ q[i].first >= 1 /\ q[i].size \in Nat
  BY <1>2 DEF Queued
<1> QED BY <1>1, <1>3

(* The while loop pops the front when it has been played, and the empty    *)
(* buffers behind it; the next sample is the one behind the front.         *)
LEMMA Popping ==
    ASSUME NEW s \in Nat, NEW q, Chain(q, s), q # <<>>, NEW index \in Nat, index >= q[1].size
    PROVE  LET n == Exhausted(q, index)
           IN  /\ n \in 1..Len(q)
               /\ n = Len(q) => q[1].first + q[1].size = s + 1
               /\ n # Len(q) => q[n + 1].first = q[1].first + q[1].size /\ q[n + 1].size > 0
<1> DEFINE T == {m \in 1..Len(q) : m = Len(q) \/ q[m + 1].size > 0}
           good(m) == (\A k \in 2..m : q[k].size = 0) /\ (m = Len(q) \/ q[m + 1].size > 0)
           n == CHOOSE m \in 1..Len(q) : good(m)
<1>1. /\ Len(q) \in Nat /\ Len(q) >= 1
      /\ \A i \in 1..Len(q) : q[i].first \in Nat /\ q[i].size \in Nat
  BY ChainTypes
<1>2. T \subseteq Nat /\ Len(q) \in T
  BY <1>1
<1>3. PICK x \in T : \A y \in T : x <= y
  <2> HIDE DEF T
  <2> QED BY <1>2, Least
<1>4. x \in 1..Len(q) /\ x \in Nat /\ (x = Len(q) \/ q[x + 1].size > 0)
  BY <1>1
<1>5. \A k \in 2..x : q[k].size = 0
  <2> SUFFICES ASSUME NEW k \in 2..x, q[k].size # 0 PROVE FALSE
    OBVIOUS
  <2>1. k \in 1..Len(q) /\ k - 1 \in 1..Len(q) /\ (k - 1) + 1 = k /\ ~(x <= k - 1)
    BY <1>1, <1>4
  <2>2. q[k].size > 0
    BY <1>1, <2>1
  <2>3. k - 1 \in T
    BY <2>1, <2>2
  <2> QED BY <1>3, <2>1, <2>3
<1>6. n \in 1..Len(q) /\ good(n)
  <2>1. good(x)
    BY <1>4, <1>5
  <2> HIDE DEF good
  <2> QED BY <1>4, <2>1
<1>7. Exhausted(q, index) = n
  <2>1. ~(q = <<>> \/ index < q[1].size)
    BY <1>1
  <2> QED BY <2>1, Zenon DEF Exhausted
<1> HIDE DEF n, T
<1>8. n \in Nat /\ 1 \in 1..Len(q)
  BY <1>1, <1>6
\* The empty buffers begin where the front ends.
<1> DEFINE front == q[1].first + q[1].size
           S == {j \in 0..(n - 1) : q[j + 1].first + q[j + 1].size = front}
<1>9. 0..(n - 1) \subseteq S
  <2>1. 0 \in S
    BY <1>6, <1>8
  <2>2. ASSUME NEW j \in 0..((n - 1) - 1), j \in S PROVE j + 1 \in S
    <3>1. /\ j + 1 \in 0..(n - 1) /\ j + 1 \in 1..Len(q) /\ j + 1 < Len(q)
          /\ (j + 1) + 1 \in 2..n /\ (j + 1) + 1 \in 1..Len(q)
      BY <1>1, <1>6, <1>8
    <3>2. q[(j + 1) + 1].first = q[j + 1].first + q[j + 1].size
      BY <3>1 DEF Chain
    <3>3. q[(j + 1) + 1].size = 0 /\ q[(j + 1) + 1].first \in Nat
      BY <1>1, <1>6, <3>1
    <3>4. q[j + 1].first + q[j + 1].size = front
      BY <2>2
    <3>5. q[(j + 1) + 1].first + q[(j + 1) + 1].size = front
      BY <3>2, <3>3, <3>4
    <3> QED BY <3>1, <3>5
  <2>3. n - 1 \in Nat
    BY <1>6, <1>8
  <2> HIDE DEF S
  <2> QED BY <2>1, <2>2, <2>3, UpTo
<1>10. q[n].first + q[n].size = front
  <2>1. n - 1 \in S /\ (n - 1) + 1 = n
    <3>1. n - 1 \in 0..(n - 1) /\ (n - 1) + 1 = n
      BY <1>6, <1>8
    <3> HIDE DEF S
    <3> QED BY <1>9, <3>1
  <2>2. q[(n - 1) + 1].first + q[(n - 1) + 1].size = front
    BY <2>1
  <2> QED BY <2>1, <2>2
<1>11. n = Len(q) => front = s + 1
  BY <1>6, <1>10 DEF Chain
<1>12. n # Len(q) => q[n + 1].first = front /\ q[n + 1].size > 0
  <2>1. n # Len(q) => n < Len(q)
    BY <1>1, <1>6
  <2> QED BY <1>6, <1>10, <2>1 DEF Chain
<1> QED BY <1>6, <1>7, <1>11, <1>12

LEMMA ChainRest ==
    ASSUME NEW s \in Nat, NEW q, Chain(q, s), NEW n \in 0..Len(q)
    PROVE  LET r == SubSeq(q, n + 1, Len(q))
           IN  /\ Chain(r, s)
               /\ r = <<>> <=> n = Len(q)
               /\ r # <<>> => r[1] = q[n + 1]
               /\ n = 0 => r = q
<1> DEFINE r == SubSeq(q, n + 1, Len(q))
<1>1. /\ q \in Seq(Queued) /\ Len(q) \in Nat
      /\ \A i \in 1..Len(q) : q[i].first \in Nat /\ q[i].size \in Nat
  BY ChainTypes
<1>2. /\ r \in Seq(Queued) /\ Len(r) = Len(q) - n
      /\ \A i \in 1..Len(r) : r[i] = q[n + i]
  <2>1. n + 1 \in 1..(Len(q) + 1)
    BY <1>1
  <2>2. \A i \in (n + 1)..Len(q) : q[i] \in Queued
    BY <1>1, ElementOfSeq
  <2>3. /\ Len(r) = IF n + 1 <= Len(q) THEN Len(q) - (n + 1) + 1 ELSE 0
        /\ \A i \in 1..(Len(q) - (n + 1) + 1) : r[i] = q[(n + 1) + i - 1]
    BY <1>1, <2>1
  <2>4. r \in Seq(Queued)
    BY <1>1, <2>1
  <2>5. Len(r) = Len(q) - n
    BY <1>1, <2>3
  <2>6. \A i \in 1..Len(r) : i \in 1..(Len(q) - (n + 1) + 1) /\ (n + 1) + i - 1 = n + i
    BY <1>1, <2>5
  <2> HIDE DEF r
  <2> QED BY <2>3, <2>4, <2>5, <2>6
<1> HIDE DEF r
<1>3. \A i \in 1..Len(r) : /\ n + i \in 1..Len(q) /\ (i < Len(r) <=> n + i < Len(q))
                           /\ (i = Len(r) <=> n + i = Len(q))
                           /\ (i < Len(r) => i + 1 \in 1..Len(r) /\ n + (i + 1) = (n + i) + 1)
  BY <1>1, <1>2
<1>4. ASSUME NEW i \in 1..Len(r), i < Len(r) PROVE r[i + 1].first = r[i].first + r[i].size
  <2>1. q[(n + i) + 1].first = q[n + i].first + q[n + i].size
    BY <1>3, <1>4 DEF Chain
  <2>2. r[i] = q[n + i] /\ r[i + 1] = q[(n + i) + 1]
    BY <1>2, <1>3, <1>4
  <2> QED BY <2>1, <2>2
<1>5. \A i \in 1..Len(r) : i = Len(r) => r[i].first + r[i].size = s + 1
  BY <1>2, <1>3 DEF Chain
<1>6. \A i \in 1..Len(r) : r[i].first + r[i].size <= s + 1
  BY <1>2, <1>3 DEF Chain
<1>7. Chain(r, s)
  BY <1>2, <1>4, <1>5, <1>6 DEF Chain
<1>8. /\ r = <<>> <=> n = Len(q)
      /\ r # <<>> => r[1] = q[n + 1]
  BY <1>1, <1>2
<1>9. n = 0 => r = q
  BY <1>1 DEF r
<1> QED BY <1>7, <1>8, <1>9 DEF r
-----------------------------------------------------------------------------
(* The loop over the frames of a cycle *)

\* After f frames, with packets up to sample s received, samples up to l played
\* before this cycle and up to h so far.
Played(p, h, f, fs, l, s) ==
    /\ Chain(p.q, s) /\ p.index \in Nat /\ p.out \in Seq(Nat) /\ Len(p.out) = f
    /\ h \in Nat /\ l <= h /\ h <= s
    /\ Ahead(p.q, p.index, h)
    /\ \A k \in 1..f : p.out[k] <= h
    /\ h = l => \A k \in 1..f : p.out[k] = Silence
    /\ h # l => \E k \in 1..f : p.out[k] = h
    /\ \A k \in 1..f : p.out[k] # Silence =>
          p.out[k] > l /\ \A j \in 1..(k - 1) : p.out[j] < p.out[k]
    /\ \A k \in 1..f : k <= fs => p.out[k] = Silence
    /\ \A k \in 1..f : k > fs /\ p.out[k] = Silence =>
          p.q = <<>> /\ \A j \in k..f : p.out[j] = Silence

\* If nothing had been missed, nothing is missed.
PlayedExactly(p, h, f, l, s) ==
    /\ Exact(p.q, p.index, h, s)
    /\ f > 0 /\ p.out[f] # Silence => p.out[f] = h
    /\ \A k \in 1..f : p.out[k] # Silence =>
          p.out[k] = IF k > 1 /\ p.out[k - 1] # Silence THEN p.out[k - 1] + 1 ELSE l + 1

\* A frame more of the samples written.
LEMMA OneMore ==
    ASSUME NEW o \in Seq(Nat), NEW v \in Nat
    PROVE  LET w == Append(o, v)
           IN  /\ w \in Seq(Nat) /\ Len(w) = Len(o) + 1 /\ Len(o) \in Nat
               /\ \A k \in 1..Len(o) : w[k] = o[k] /\ w[k] \in Nat
               /\ w[Len(o) + 1] = v
               /\ \A k \in 1..Len(w) : k \in 1..Len(o) \/ k = Len(o) + 1
<1>1. /\ Append(o, v) \in Seq(Nat) /\ Len(Append(o, v)) = Len(o) + 1
      /\ \A k \in 1..Len(o) : Append(o, v)[k] = o[k]
      /\ Append(o, v)[Len(o) + 1] = v
  BY AppendProperties
<1>2. Len(o) \in Nat /\ \A k \in 1..Len(o) : o[k] \in Nat
  BY ElementOfSeq
<1> QED BY <1>1, <1>2

LEMMA SilentFrameKeeps ==
    ASSUME NEW p, NEW h, NEW f \in Nat, NEW fs \in Nat, NEW l \in Nat, NEW s \in Nat,
           Played(p, h, f, fs, l, s), f + 1 <= fs
    PROVE  /\ Played(SilentFrame(p), h, f + 1, fs, l, s)
           /\ PlayedExactly(p, h, f, l, s) => PlayedExactly(SilentFrame(p), h, f + 1, l, s)
<1> DEFINE w == Append(p.out, Silence)
           r == SilentFrame(p)
<1>1. r.q = p.q /\ r.index = p.index /\ r.out = w
  BY DEF SilentFrame
<1>2. /\ w \in Seq(Nat) /\ Len(w) = f + 1
      /\ \A k \in 1..f : w[k] = p.out[k] /\ w[k] \in Nat
      /\ w[f + 1] = 0
      /\ \A k \in 1..(f + 1) : k \in 1..f \/ k = f + 1
  <2>1. p.out \in Seq(Nat) /\ Len(p.out) = f /\ Silence \in Nat /\ Silence = 0
    BY DEF Played, Silence
  <2> QED BY <2>1, OneMore
<1>3. h \in Nat /\ l <= h
  BY DEF Played
<1> HIDE DEF w, r
<1>4. \A k \in 1..f : k <= fs /\ w[k] = 0
  <2>1. \A k \in 1..f : k <= fs
    OBVIOUS
  <2>2. \A k \in 1..f : k <= fs => p.out[k] = 0
    BY DEF Played, Silence
  <2> QED BY <1>2, <2>1, <2>2
<1>5. \A k \in 1..(f + 1) : k <= fs /\ w[k] = 0
  BY <1>2, <1>4
<1>6. h = l
  <2>1. \A k \in 1..f : p.out[k] = 0
    BY <1>2, <1>4
  <2>2. h # l => \E k \in 1..f : p.out[k] = h
    BY DEF Played
  <2> QED BY <1>3, <2>1, <2>2
<1>7. Played(r, h, f + 1, fs, l, s)
  <2>1. /\ Chain(r.q, s) /\ r.index \in Nat /\ r.out \in Seq(Nat) /\ Len(r.out) = f + 1
        /\ h <= s /\ Ahead(r.q, r.index, h)
    BY <1>1, <1>2 DEF Played
  <2> QED BY <1>1, <1>3, <1>5, <1>6, <2>1 DEF Played, Silence
<1>8. PlayedExactly(p, h, f, l, s) => PlayedExactly(r, h, f + 1, l, s)
  BY <1>1, <1>2, <1>5 DEF PlayedExactly, Silence
<1> QED BY <1>7, <1>8 DEF r

(* A frame played: silence once the queue is dry, else the next sample.    *)
LEMMA NextSample ==
    ASSUME NEW s \in Nat, NEW q, Chain(q, s), NEW index \in Nat
    PROVE  LET n == Exhausted(q, index)
               rest == SubSeq(q, n + 1, Len(q))
               i == NextIndex(n, index)
           IN  /\ Chain(rest, s) /\ i \in Nat
               /\ q = <<>> => rest = <<>>
               /\ rest # <<>> =>
                     /\ i < rest[1].size
                     /\ \A h \in Nat : Ahead(q, index, h) => rest[1].first + i > h
                     /\ \A h \in Nat : Exact(q, index, h, s) => rest[1].first + i = h + 1
               /\ rest = <<>> => \A h \in Nat : Exact(q, index, h, s) => h = s
<1> DEFINE n == Exhausted(q, index)
           rest == SubSeq(q, n + 1, Len(q))
           i == NextIndex(n, index)
<1>0. /\ q \in Seq(Queued) /\ Len(q) \in Nat
      /\ \A k \in 1..Len(q) : q[k].first \in Nat /\ q[k].first >= 1 /\ q[k].size \in Nat
      /\ q # <<>> <=> Len(q) >= 1
  BY ChainTypes
<1>1. CASE q = <<>> \/ index < q[1].size
  <2>1. n = 0 /\ i = index
    BY <1>1 DEF Exhausted, NextIndex
  <2>2. 0 \in 0..Len(q)
    BY <1>0
  <2>3. rest = q
    BY <2>1, <2>2, ChainRest
  <2> HIDE DEF n, i, rest
  <2>4. q # <<>> => q[1].first \in Nat /\ q[1].size \in Nat
    BY <1>0
  <2>5. CASE q = <<>>
    BY <2>1, <2>3, <2>5 DEF Exact, n, i, rest
  <2>6. CASE q # <<>>
    <3>1. index < q[1].size
      BY <1>1, <2>6
    <3>2. \A h \in Nat : Ahead(q, index, h) => q[1].first + index > h
      BY <2>6 DEF Ahead
    <3>3. \A h \in Nat : Exact(q, index, h, s) => q[1].first + index = h + 1
      BY <2>6 DEF Exact
    <3> QED BY <2>1, <2>3, <2>6, <3>1, <3>2, <3>3 DEF n, i, rest
  <2> QED BY <2>5, <2>6
<1>2. CASE q # <<>> /\ index >= q[1].size
  <2>1. /\ n \in 1..Len(q)
        /\ n = Len(q) => q[1].first + q[1].size = s + 1
        /\ n # Len(q) => q[n + 1].first = q[1].first + q[1].size /\ q[n + 1].size > 0
    BY <1>2, Popping
  <2>2. n \in 0..Len(q) /\ n # 0
    BY <2>1
  <2>3. i = 0
    BY <2>2 DEF NextIndex
  <2> HIDE DEF n, i
  <2>4. /\ Chain(rest, s)
        /\ rest = <<>> <=> n = Len(q)
        /\ rest # <<>> => rest[1] = q[n + 1]
    BY <2>2, ChainRest
  <2> HIDE DEF rest
  <2>5. q[1].first \in Nat /\ q[1].size \in Nat
    BY <1>0, <1>2
  <2>6. \A h \in Nat : Ahead(q, index, h) => q[1].first + q[1].size > h
    BY <1>2 DEF Ahead
  <2>7. \A h \in Nat : Exact(q, index, h, s) => q[1].first + q[1].size = h + 1
    <3> SUFFICES ASSUME NEW h \in Nat, Exact(q, index, h, s) PROVE q[1].first + q[1].size = h + 1
      OBVIOUS
    <3>1. index <= q[1].size /\ q[1].first + index = h + 1
      BY <1>2 DEF Exact
    <3> QED BY <1>2, <2>5, <3>1
  <2>8. CASE rest = <<>>
    <3>1. q[1].first + q[1].size = s + 1
      BY <2>1, <2>4, <2>8
    <3>2. \A h \in Nat : Exact(q, index, h, s) => h = s
      BY <2>5, <2>7, <3>1
    <3> QED BY <1>2, <2>3, <2>4, <2>8, <3>2 DEF n, i, rest
  <2>9. CASE rest # <<>>
    <3>1. rest[1].first = q[1].first + q[1].size /\ rest[1].size > 0
      BY <2>1, <2>4, <2>9
    <3>2. rest[1].first + i = q[1].first + q[1].size
      BY <2>3, <2>5, <3>1
    <3>3. i < rest[1].size /\ i \in Nat
      BY <2>3, <3>1
    <3>4. \A h \in Nat : Ahead(q, index, h) => rest[1].first + i > h
      BY <2>6, <3>2
    <3>5. \A h \in Nat : Exact(q, index, h, s) => rest[1].first + i = h + 1
      BY <2>7, <3>2
    <3> QED BY <1>2, <2>4, <2>9, <3>3, <3>4, <3>5, Zenon DEF n, i, rest
  <2> QED BY <2>8, <2>9
<1>3. (q = <<>> \/ index < q[1].size) \/ (q # <<>> /\ index >= q[1].size)
  BY <1>0
<1> QED BY <1>1, <1>2, <1>3, Zenon

LEMMA PlayFrameKeeps ==
    ASSUME NEW p, NEW h, NEW f \in Nat, NEW fs \in Nat, NEW l \in Nat, NEW s \in Nat,
           Played(p, h, f, fs, l, s), f + 1 > fs
    PROVE  \E g : /\ Played(PlayFrame(p), g, f + 1, fs, l, s)
                  /\ PlayedExactly(p, h, f, l, s) => PlayedExactly(PlayFrame(p), g, f + 1, l, s)
<1> DEFINE n == Exhausted(p.q, p.index)
           rest == SubSeq(p.q, n + 1, Len(p.q))
           i == NextIndex(n, p.index)
           v == IF rest = <<>> THEN Silence ELSE rest[1].first + i
           w == Append(p.out, v)
           r == PlayFrame(p)
<1>1. r.q = rest /\ r.index = i + 1 /\ r.out = w
  BY Zenon DEF PlayFrame
<1>2. /\ Chain(p.q, s) /\ p.index \in Nat /\ p.out \in Seq(Nat) /\ Len(p.out) = f
      /\ h \in Nat /\ l <= h /\ h <= s /\ Ahead(p.q, p.index, h)
  BY DEF Played
<1>3. /\ Chain(rest, s) /\ i \in Nat
      /\ p.q = <<>> => rest = <<>>
      /\ rest # <<>> =>
            /\ i < rest[1].size
            /\ rest[1].first + i > h
            /\ Exact(p.q, p.index, h, s) => rest[1].first + i = h + 1
      /\ rest = <<>> => (Exact(p.q, p.index, h, s) => h = s)
  <2>1. /\ Chain(rest, s) /\ i \in Nat
        /\ p.q = <<>> => rest = <<>>
        /\ rest # <<>> =>
              /\ i < rest[1].size
              /\ \A k \in Nat : Ahead(p.q, p.index, k) => rest[1].first + i > k
              /\ \A k \in Nat : Exact(p.q, p.index, k, s) => rest[1].first + i = k + 1
        /\ rest = <<>> => \A k \in Nat : Exact(p.q, p.index, k, s) => k = s
    BY <1>2, NextSample, Zenon
  <2> HIDE DEF n, i, rest
  <2> QED BY <1>2, <2>1, Zenon
<1> HIDE DEF n, i, rest
<1>4. rest # <<>> => /\ rest[1].first \in Nat /\ rest[1].size \in Nat
                     /\ rest[1].first + rest[1].size <= s + 1
  <2>1. rest # <<>> => 1 \in 1..Len(rest)
    BY <1>3, ChainTypes
  <2> QED BY <1>3, <2>1, ChainTypes DEF Chain
<1>5. /\ rest = <<>> => v = 0
      /\ rest # <<>> => v = rest[1].first + i
  BY DEF Silence
<1>6. v \in Nat
  BY <1>3, <1>4, <1>5
<1> HIDE DEF v
<1>7. /\ w \in Seq(Nat) /\ Len(w) = f + 1
      /\ \A k \in 1..f : w[k] = p.out[k] /\ w[k] \in Nat
      /\ w[f + 1] = v
      /\ \A k \in 1..(f + 1) : k \in 1..f \/ k = f + 1
  BY <1>2, <1>6, OneMore
<1> HIDE DEF w, r
\* What was written before this frame.
<1>8. /\ \A k \in 1..f : w[k] <= h
      /\ h = l => \A k \in 1..f : w[k] = 0
      /\ h # l => \E k \in 1..f : w[k] = h
      /\ \A k \in 1..f : k <= fs => w[k] = 0
  BY <1>7 DEF Played, Silence
<1>9. \A k \in 1..f : w[k] # 0 => w[k] > l /\ \A j \in 1..(k - 1) : w[j] < w[k]
  <2> SUFFICES ASSUME NEW k \in 1..f, w[k] # 0 PROVE w[k] > l /\ \A j \in 1..(k - 1) : w[j] < w[k]
    OBVIOUS
  <2>1. p.out[k] > l /\ \A j \in 1..(k - 1) : p.out[j] < p.out[k]
    BY <1>7 DEF Played, Silence
  <2>2. \A j \in 1..(k - 1) : j \in 1..f
    OBVIOUS
  <2> QED BY <1>7, <2>1, <2>2
<1>10. \A k \in 1..f : k > fs /\ w[k] = 0 => rest = <<>> /\ \A j \in k..f : w[j] = 0
  <2> SUFFICES ASSUME NEW k \in 1..f, k > fs, w[k] = 0 PROVE rest = <<>> /\ \A j \in k..f : w[j] = 0
    OBVIOUS
  <2>1. p.q = <<>> /\ \A j \in k..f : p.out[j] = 0
    BY <1>7 DEF Played, Silence
  <2>2. \A j \in k..f : j \in 1..f
    OBVIOUS
  <2> QED BY <1>3, <1>7, <2>1, <2>2
<1>11. CASE rest = <<>>
  <2>1. v = 0
    BY <1>5, <1>11
  <2>2. \A k \in 1..(f + 1) : w[k] <= h
    BY <1>2, <1>7, <1>8, <2>1
  <2>3. h = l => \A k \in 1..(f + 1) : w[k] = 0
    BY <1>7, <1>8, <2>1
  <2>4. h # l => \E k \in 1..(f + 1) : w[k] = h
    BY <1>8
  <2>5. \A k \in 1..(f + 1) : w[k] # 0 => w[k] > l /\ \A j \in 1..(k - 1) : w[j] < w[k]
    BY <1>7, <1>9, <2>1
  <2>6. \A k \in 1..(f + 1) : k <= fs => w[k] = 0
    BY <1>7, <1>8, <2>1
  <2>7. \A k \in 1..(f + 1) : k > fs /\ w[k] = 0 => \A j \in k..(f + 1) : w[j] = 0
    <3> SUFFICES ASSUME NEW k \in 1..(f + 1), k > fs, w[k] = 0, NEW j \in k..(f + 1) PROVE w[j] = 0
      OBVIOUS
    <3>1. CASE j = f + 1
      BY <1>7, <2>1, <3>1
    <3>2. CASE j # f + 1
      <4>1. k \in 1..f /\ j \in k..f
        BY <3>2
      <4> QED BY <1>10, <4>1
    <3> QED BY <3>1, <3>2
  <2>8. Ahead(r.q, r.index, h)
    BY <1>1, <1>11 DEF Ahead
  <2>9. Played(r, h, f + 1, fs, l, s)
    <3>1. /\ Chain(r.q, s) /\ r.index \in Nat /\ r.out \in Seq(Nat) /\ Len(r.out) = f + 1 /\ r.q = <<>>
      BY <1>1, <1>3, <1>7, <1>11
    <3> QED BY <1>1, <1>2, <2>2, <2>3, <2>4, <2>5, <2>6, <2>7, <2>8, <3>1 DEF Played, Silence
  <2>10. ASSUME PlayedExactly(p, h, f, l, s) PROVE PlayedExactly(r, h, f + 1, l, s)
    <3>1. Exact(r.q, r.index, h, s)
      BY <1>1, <1>3, <1>11, <2>10 DEF PlayedExactly, Exact
    <3>2. \A k \in 1..f : w[k] # 0 => w[k] = IF k > 1 /\ w[k - 1] # 0 THEN w[k - 1] + 1 ELSE l + 1
      <4>1. \A k \in 1..f : k > 1 => k - 1 \in 1..f
        OBVIOUS
      <4> QED BY <1>7, <2>10, <4>1 DEF PlayedExactly, Silence
    <3> QED BY <1>1, <1>7, <2>1, <3>1, <3>2 DEF PlayedExactly, Silence
  <2> QED BY <2>9, <2>10 DEF r
<1>12. CASE rest # <<>>
  <2>1. /\ v \in Nat /\ v > h /\ v > l /\ v # 0 /\ v <= s /\ v # l
        /\ rest[1].first + (i + 1) > v /\ rest[1].first + rest[1].size > v
    <3> DEFINE a == rest[1].first
               z == rest[1].size
    <3>1. /\ a \in Nat /\ z \in Nat /\ a + z <= s + 1
          /\ i < z /\ a + i > h /\ v = a + i
      BY <1>3, <1>4, <1>5, <1>12
    <3>2. i \in Nat /\ h \in Nat /\ l <= h
      BY <1>2, <1>3
    <3> HIDE DEF a, z
    <3>3. /\ v \in Nat /\ v > h /\ v > l /\ v # 0 /\ v <= s /\ v # l
          /\ a + (i + 1) > v /\ a + z > v
      BY <3>1, <3>2
    <3> QED BY <3>3 DEF a, z
  <2>2. \A k \in 1..(f + 1) : w[k] <= v
    BY <1>2, <1>7, <1>8, <2>1
  <2>3. f + 1 \in 1..(f + 1) /\ w[f + 1] = v
    BY <1>7
  <2>4. \A k \in 1..(f + 1) : w[k] # 0 => w[k] > l /\ \A j \in 1..(k - 1) : w[j] < w[k]
    <3> SUFFICES ASSUME NEW k \in 1..(f + 1), w[k] # 0
                 PROVE  w[k] > l /\ \A j \in 1..(k - 1) : w[j] < w[k]
      OBVIOUS
    <3>1. CASE k \in 1..f
      BY <1>9, <3>1
    <3>2. CASE k = f + 1
      <4>1. \A j \in 1..(k - 1) : j \in 1..f
        BY <3>2
      <4> QED BY <1>2, <1>7, <1>8, <2>1, <3>2, <4>1
    <3> QED BY <1>7, <3>1, <3>2
  <2>5. \A k \in 1..(f + 1) : k <= fs => w[k] = 0
    BY <1>7, <1>8
  <2>6. \A k \in 1..(f + 1) : k > fs => w[k] # 0
    BY <1>7, <1>10, <1>12, <2>1
  <2>7. Ahead(r.q, r.index, v)
    BY <1>1, <2>1 DEF Ahead
  <2>8. Played(r, v, f + 1, fs, l, s)
    <3>1. Chain(r.q, s) /\ r.index \in Nat /\ r.out \in Seq(Nat) /\ Len(r.out) = f + 1
      BY <1>1, <1>3, <1>7
    <3>2. l <= v
      BY <1>2, <2>1
    <3> QED BY <1>1, <2>1, <2>2, <2>3, <2>4, <2>5, <2>6, <2>7, <3>1, <3>2 DEF Played, Silence
  <2>9. ASSUME PlayedExactly(p, h, f, l, s) PROVE PlayedExactly(r, v, f + 1, l, s)
    <3>1. v = h + 1
      BY <1>3, <1>5, <1>12, <2>9 DEF PlayedExactly
    <3>2. Exact(r.q, r.index, v, s)
      <4>1. i + 1 <= rest[1].size /\ rest[1].first + (i + 1) = v + 1
        <5> DEFINE a == rest[1].first
                   z == rest[1].size
        <5>1. a \in Nat /\ z \in Nat /\ i < z /\ v = a + i
          BY <1>3, <1>4, <1>5, <1>12
        <5>2. i \in Nat
          BY <1>3
        <5> HIDE DEF a, z
        <5>3. i + 1 <= z /\ a + (i + 1) = v + 1
          BY <5>1, <5>2
        <5> QED BY <5>3 DEF a, z
      <4> QED BY <1>1, <1>12, <4>1 DEF Exact
    <3>3. \A k \in 1..f : w[k] # 0 => w[k] = IF k > 1 /\ w[k - 1] # 0 THEN w[k - 1] + 1 ELSE l + 1
      <4>1. \A k \in 1..f : k > 1 => k - 1 \in 1..f
        OBVIOUS
      <4> QED BY <1>7, <2>9, <4>1 DEF PlayedExactly, Silence
    <3>4. f > 0 /\ w[f] # 0 => w[f] = h
      <4>1. f > 0 => f \in 1..f
        OBVIOUS
      <4> QED BY <1>7, <2>9, <4>1 DEF PlayedExactly, Silence
    <3>5. ~(f > 0 /\ w[f] # 0) => h = l
      <4> SUFFICES ASSUME ~(f > 0 /\ w[f] # 0), h # l PROVE FALSE
        OBVIOUS
      <4>1. PICK k \in 1..f : w[k] = h
        BY <1>8
      <4>2. h # 0 /\ f > 0 /\ f \in 1..f
        BY <1>2, <4>1
      <4>3. f <= fs
        BY <1>10, <1>12, <4>2
      <4>4. k <= fs
        BY <4>3
      <4> QED BY <1>8, <4>1, <4>2, <4>4
    <3>6. v = IF f + 1 > 1 /\ w[(f + 1) - 1] # 0 THEN w[(f + 1) - 1] + 1 ELSE l + 1
      <4>1. (f + 1) - 1 = f /\ (f + 1 > 1 <=> f > 0)
        OBVIOUS
      <4> QED BY <3>1, <3>4, <3>5, <4>1
    <3>7. ASSUME NEW k \in 1..(f + 1), w[k] # 0
          PROVE  w[k] = IF k > 1 /\ w[k - 1] # 0 THEN w[k - 1] + 1 ELSE l + 1
      <4>1. CASE k \in 1..f
        BY <3>3, <3>7, <4>1
      <4>2. CASE k = f + 1
        BY <1>7, <3>6, <4>2
      <4> QED BY <1>7, <4>1, <4>2
    <3> QED BY <1>1, <1>7, <3>2, <3>7 DEF PlayedExactly, Silence
  <2> QED BY <2>8, <2>9 DEF r
<1> QED BY <1>11, <1>12

\* One frame of the loop, and the states after the first m frames.
OneFrame(p, f, fs) == IF f <= fs THEN SilentFrame(p) ELSE PlayFrame(p)

Beginning(q, index) == [q |-> q, index |-> index, out |-> <<>>]

FirstFrames(g, m, q, index, fs) ==
    /\ g = [f \in 0..m |-> g[f]]
    /\ g[0] = Beginning(q, index)
    /\ \A f \in 1..m : g[f] = OneFrame(g[f - 1], f, fs)

LEMMA FramesExist ==
    ASSUME NEW q, NEW index, NEW fs, NEW bound \in Nat
    PROVE  \E g : FirstFrames(g, bound, q, index, fs)
<1> DEFINE S == {m \in 0..bound : \E g : FirstFrames(g, m, q, index, fs)}
<1>1. 0 \in S
  <2> DEFINE g == [f \in 0..0 |-> Beginning(q, index)]
  <2>1. FirstFrames(g, 0, q, index, fs)
    BY DEF FirstFrames
  <2> HIDE DEF g
  <2> QED BY <2>1
<1>2. ASSUME NEW n \in 0..(bound - 1), n \in S PROVE n + 1 \in S
  <2>1. PICK g : FirstFrames(g, n, q, index, fs)
    BY <1>2
  <2> DEFINE new == OneFrame(g[n], n + 1, fs)
             h == [f \in 0..(n + 1) |-> IF f = n + 1 THEN new ELSE g[f]]
  <2>2. n \in Nat /\ n + 1 \in 0..bound
    OBVIOUS
  <2> HIDE DEF new
  <2>3. /\ h = [f \in 0..(n + 1) |-> h[f]]
        /\ h[n + 1] = new
        /\ \A f \in 0..n : h[f] = g[f]
    BY <2>2
  <2> HIDE DEF h
  <2>4. h[0] = Beginning(q, index)
    <3>1. g[0] = Beginning(q, index)
      BY <2>1, Zenon DEF FirstFrames
    <3>2. 0 \in 0..n
      BY <2>2
    <3>3. h[0] = g[0]
      BY <2>3, <3>2
    <3> QED BY <3>1, <3>3
  <2>5. ASSUME NEW f \in 1..(n + 1) PROVE h[f] = OneFrame(h[f - 1], f, fs)
    <3>1. CASE f = n + 1
      <4>1. f - 1 = n /\ n \in 0..n
        BY <2>2, <3>1
      <4> QED BY <2>3, <3>1, <4>1 DEF new
    <3>2. CASE f # n + 1
      <4>1. f \in 1..n /\ f \in 0..n /\ f - 1 \in 0..n
        BY <2>2, <3>2
      <4>2. g[f] = OneFrame(g[f - 1], f, fs)
        BY <2>1, <4>1 DEF FirstFrames
      <4> QED BY <2>3, <4>1, <4>2
    <3> QED BY <3>1, <3>2
  <2>6. FirstFrames(h, n + 1, q, index, fs)
    BY <2>3, <2>4, <2>5 DEF FirstFrames
  <2> QED BY <2>2, <2>6
<1> HIDE DEF S
<1>3. 0..bound \subseteq S
  BY <1>1, <1>2, UpTo
<1>4. bound \in S
  BY <1>3
<1> QED BY <1>4 DEF S

(* Play is the state after the last frame.                                 *)
LEMMA PlayByFrames ==
    ASSUME NEW q, NEW index, NEW fs
    PROVE  \E g : FirstFrames(g, NFrames, q, index, fs) /\ Play(q, index, fs) = g[NFrames]
<1> DEFINE body(g, f) == IF f = 0 THEN [q |-> q, index |-> index, out |-> <<>>]
                         ELSE IF f <= fs THEN SilentFrame(g[f - 1]) ELSE PlayFrame(g[f - 1])
           frame == CHOOSE g : g = [f \in 0..NFrames |-> body(g, f)]
<1>1. Play(q, index, fs) = frame[NFrames]
  BY Zenon DEF Play
<1>2. NFrames \in Nat
  BY FramesAssumption
<1>3. ASSUME NEW g
      PROVE  g = [f \in 0..NFrames |-> body(g, f)] <=> FirstFrames(g, NFrames, q, index, fs)
  <2>1. ASSUME NEW f \in 1..NFrames PROVE body(g, f) = OneFrame(g[f - 1], f, fs)
    <3>1. f # 0
      BY <1>2
    <3>2. body(g, f) = IF f <= fs THEN SilentFrame(g[f - 1]) ELSE PlayFrame(g[f - 1])
      BY <3>1
    <3> QED BY <3>2 DEF OneFrame
  <2>2. body(g, 0) = Beginning(q, index)
    BY DEF Beginning
  <2>3. \A f \in 0..NFrames : f = 0 \/ f \in 1..NFrames
    BY <1>2
  <2>4. 0 \in 0..NFrames /\ \A f \in 1..NFrames : f \in 0..NFrames
    BY <1>2
  <2> HIDE DEF body
  <2>5. ASSUME g = [f \in 0..NFrames |-> body(g, f)] PROVE FirstFrames(g, NFrames, q, index, fs)
    <3>1. \A f \in 0..NFrames : g[f] = body(g, f)
      BY <2>5, Zenon
    <3>2. g = [f \in 0..NFrames |-> g[f]]
      BY <2>5
    <3>3. g[0] = Beginning(q, index)
      BY <2>2, <2>4, <3>1
    <3>4. \A f \in 1..NFrames : g[f] = OneFrame(g[f - 1], f, fs)
      BY <2>1, <2>4, <3>1
    <3> QED BY <3>2, <3>3, <3>4 DEF FirstFrames
  <2>6. ASSUME FirstFrames(g, NFrames, q, index, fs) PROVE g = [f \in 0..NFrames |-> body(g, f)]
    <3>1. g = [f \in 0..NFrames |-> g[f]]
      BY <2>6 DEF FirstFrames
    <3>2. \A f \in 0..NFrames : g[f] = body(g, f)
      BY <2>1, <2>2, <2>3, <2>6 DEF FirstFrames
    <3> QED BY <3>1, <3>2
  <2> QED BY <2>5, <2>6
<1> HIDE DEF body
<1>4. PICK g : FirstFrames(g, NFrames, q, index, fs)
  BY <1>2, FramesExist
<1>5. \E h : h = [f \in 0..NFrames |-> body(h, f)]
  BY <1>3, <1>4
<1>6. frame = [f \in 0..NFrames |-> body(frame, f)]
  BY <1>5, Zenon
<1> HIDE DEF frame
<1>7. FirstFrames(frame, NFrames, q, index, fs)
  BY <1>3, <1>6
<1> QED BY <1>1, <1>7

(* A whole cycle.                                                          *)
LEMMA CyclePlays ==
    ASSUME NEW q, NEW index \in Nat, NEW fs \in Nat, NEW l \in Nat, NEW s \in Nat,
           Chain(q, s), l <= s, Ahead(q, index, l)
    PROVE  \E h : /\ Played(Play(q, index, fs), h, NFrames, fs, l, s)
                  /\ Exact(q, index, l, s) => PlayedExactly(Play(q, index, fs), h, NFrames, l, s)
<1>1. PICK g : FirstFrames(g, NFrames, q, index, fs) /\ Play(q, index, fs) = g[NFrames]
  BY PlayByFrames
<1> DEFINE ok(m) == \E h : /\ Played(g[m], h, m, fs, l, s)
                           /\ Exact(q, index, l, s) => PlayedExactly(g[m], h, m, l, s)
           S == {m \in 0..NFrames : ok(m)}
<1>2. NFrames \in Nat
  BY FramesAssumption
<1>3. 0 \in S
  <2>1. g[0].q = q /\ g[0].index = index /\ g[0].out = <<>>
    <3>1. g[0] = Beginning(q, index)
      BY <1>1, Zenon DEF FirstFrames
    <3> QED BY <3>1 DEF Beginning
  <2>2. Len(<<>>) = 0 /\ <<>> \in Seq(Nat) /\ 1..0 = {}
    OBVIOUS
  <2>3. Played(g[0], l, 0, fs, l, s)
    BY <2>1, <2>2 DEF Played
  <2>4. Exact(q, index, l, s) => PlayedExactly(g[0], l, 0, l, s)
    BY <2>1, <2>2 DEF PlayedExactly
  <2> QED BY <1>2, <2>3, <2>4
<1>4. ASSUME NEW n \in 0..(NFrames - 1), n \in S PROVE n + 1 \in S
  <2>1. /\ n \in Nat /\ n + 1 \in 0..NFrames /\ n + 1 \in 1..NFrames /\ (n + 1) - 1 = n
    BY <1>2
  <2>2. PICK h : /\ Played(g[n], h, n, fs, l, s)
                 /\ Exact(q, index, l, s) => PlayedExactly(g[n], h, n, l, s)
    BY <1>4
  <2>3. g[n + 1] = OneFrame(g[n], n + 1, fs)
    BY <1>1, <2>1 DEF FirstFrames
  <2>4. CASE n + 1 <= fs
    <3>1. g[n + 1] = SilentFrame(g[n])
      BY <2>3, <2>4 DEF OneFrame
    <3> QED BY <2>1, <2>2, <2>4, <3>1, SilentFrameKeeps
  <2>5. CASE n + 1 > fs
    <3>1. g[n + 1] = PlayFrame(g[n])
      BY <2>1, <2>3, <2>5 DEF OneFrame
    <3>2. PICK k : /\ Played(g[n + 1], k, n + 1, fs, l, s)
                   /\ PlayedExactly(g[n], h, n, l, s) => PlayedExactly(g[n + 1], k, n + 1, l, s)
      BY <2>1, <2>2, <2>5, <3>1, PlayFrameKeeps
    <3> QED BY <2>1, <2>2, <3>2
  <2>6. n + 1 <= fs \/ n + 1 > fs
    BY <2>1
  <2> QED BY <2>4, <2>5, <2>6
<1>5. 0..NFrames \subseteq S
  <2> HIDE DEF S
  <2> QED BY <1>2, <1>3, <1>4, UpTo
<1>6. NFrames \in S
  BY <1>2, <1>5
<1> QED BY <1>1, <1>6

(* LastPlayed is the last sample played.                                   *)
LEMMA LastPlayedIs ==
    ASSUME NEW p, NEW h, NEW f \in Nat, NEW fs \in Nat, NEW l \in Nat, NEW s \in Nat, last = l,
           Played(p, h, f, fs, l, s)
    PROVE  LastPlayed(p.out) = h
<1> DEFINE o == p.out
           S == {o[k] : k \in 1..Len(o)}
<1>1. /\ o \in Seq(Nat) /\ Len(o) = f /\ h \in Nat /\ l <= h
      /\ \A k \in 1..Len(o) : o[k] <= h
      /\ h = l => \A k \in 1..Len(o) : o[k] = Silence
      /\ h # l => \E k \in 1..Len(o) : o[k] = h
  BY DEF Played
<1>2. \A k \in 1..Len(o) : o[k] \in Nat
  BY <1>1, ElementOfSeq
<1> HIDE DEF o
<1>3. CASE h = l
  <2>1. ~\E k \in 1..Len(o) : o[k] # Silence
    BY <1>1, <1>3
  <2> QED BY <1>3, <2>1 DEF LastPlayed, o
<1>4. CASE h # l
  <2>1. PICK k \in 1..Len(o) : o[k] = h
    BY <1>1, <1>4
  <2>2. o[k] # Silence
    BY <1>1, <1>4, <2>1 DEF Silence
  <2>3. LastPlayed(o) = CHOOSE n \in S : \A j \in 1..Len(o) : o[j] <= n
    BY <2>2 DEF LastPlayed
  <2>4. h \in S /\ \A j \in 1..Len(o) : o[j] <= h
    BY <1>1, <2>1
  <2>5. ASSUME NEW n \in S, \A j \in 1..Len(o) : o[j] <= n PROVE n = h
    <3>1. PICK j \in 1..Len(o) : n = o[j]
      OBVIOUS
    <3>2. n \in Nat /\ n <= h
      BY <1>1, <1>2, <3>1
    <3>3. h <= n
      BY <2>1, <2>5
    <3> QED BY <1>1, <3>2, <3>3
  <2>6. (CHOOSE n \in S : \A j \in 1..Len(o) : o[j] <= n) = h
    <3> DEFINE top(n) == \A j \in 1..Len(o) : o[j] <= n
    <3>1. h \in S /\ top(h) /\ \A n \in S : top(n) => n = h
      BY <2>4, <2>5
    <3> HIDE DEF S, top
    <3>2. (CHOOSE n \in S : top(n)) = h
      BY <3>1
    <3> QED BY <3>2 DEF top
  <2> QED BY <2>3, <2>6 DEF o
<1> QED BY <1>3, <1>4

-----------------------------------------------------------------------------
(* The invariant of playback *)

LEMMA StartIsFrame ==
    ASSUME PlaybackTypes, NEW fs \in FrameStart
    PROVE  /\ fs \in Nat
           /\ fs <= NFrames => fs = IF lead > Calibration THEN lead - Calibration ELSE 0
<1>1. lead \in Nat /\ NFrames \in Nat /\ Calibration \in Nat
  BY FramesAssumption, JackConfigAssumption DEF PlaybackTypes
<1> QED BY <1>1 DEF FrameStart

LEMMA Outcome ==
    ASSUME PlaybackInv, ~continuous, NEW index \in Nat, NEW fs \in Nat,
           Ahead(audio_out_buffer_, index, last)
    PROVE  \E h : /\ Played(Play(audio_out_buffer_, index, fs), h, NFrames, fs, last, sent)
                  /\ LastPlayed(Play(audio_out_buffer_, index, fs).out) = h
                  /\ Exact(audio_out_buffer_, index, last, sent) =>
                        PlayedExactly(Play(audio_out_buffer_, index, fs), h, NFrames, last, sent)
<1>1. PICK q, l, s : q = audio_out_buffer_ /\ l = last /\ s = sent
  OBVIOUS
<1>2. l \in Nat /\ s \in Nat /\ l <= s /\ Chain(q, s) /\ Ahead(q, index, l)
  BY <1>1 DEF PlaybackInv, PlaybackTypes, Packets
<1>3. PICK h : /\ Played(Play(q, index, fs), h, NFrames, fs, l, s)
               /\ Exact(q, index, l, s) => PlayedExactly(Play(q, index, fs), h, NFrames, l, s)
  BY <1>2, CyclePlays
<1>4. LastPlayed(Play(q, index, fs).out) = h
  <2>1. NFrames \in Nat
    BY FramesAssumption
  <2> QED BY <1>1, <1>2, <1>3, <2>1, LastPlayedIs
<1> QED BY <1>1, <1>3, <1>4

\* A cycle that plays: p is what the loop over the frames makes, h the last
\* sample played then, fs where the packet starts.
Cycled(p, h, fs) ==
    /\ fs \in Nat
    /\ audio_out_buffer_' = p.q /\ audio_out_index_' = p.index /\ out' = p.out /\ last' = h
    /\ starved' = (starved \/ (p.q = <<>> /\ ~ended))
    /\ new_packet_' = FALSE /\ continuous' = continuous /\ sent' = sent
    /\ buffers' = buffers /\ ended' = ended /\ Elapse
    /\ Played(p, h, NFrames, fs, last, sent)
    /\ ~starved => PlayedExactly(p, h, NFrames, last, sent)
    /\ IF new_packet_ THEN fs \in FrameStart /\ fs <= NFrames ELSE fs = 0

LEMMA PacketCycle ==
    ASSUME PlaybackInv, CycleBegin \/ CycleContinue
    PROVE  ~continuous /\ audio_out_buffer_ # <<>> /\ \E p, h, fs : Cycled(p, h, fs)
<1>1. ~continuous /\ audio_out_buffer_ # <<>>
  BY DEF CycleBegin, CycleContinue, PlaybackInv, Frames
<1>2. /\ last \in Nat /\ sent \in Nat /\ audio_out_index_ \in Nat
      /\ new_packet_ \in BOOLEAN /\ continuous \in BOOLEAN
  BY <1>1 DEF PlaybackInv, PlaybackTypes, Packets
<1>3. CASE CycleBegin
  <2>1. PICK fs \in FrameStart : fs <= NFrames /\ Cycle(0, fs)
    BY <1>3 DEF CycleBegin
  <2>2. fs \in Nat
    BY <2>1, StartIsFrame DEF PlaybackInv
  <2>3. new_packet_ /\ new_packet_' = FALSE
    BY <1>3 DEF CycleBegin
  <2>4. last = 0 /\ audio_out_buffer_[1].first = 1 /\ ~starved
    BY <1>1, <2>3 DEF PlaybackInv, Packets
  <2>5. audio_out_buffer_[1].size \in Nat
    <3>1. Chain(audio_out_buffer_, sent)
      BY <1>1 DEF PlaybackInv, Packets
    <3> QED BY <1>1, <3>1, ChainTypes
  <2>6. Ahead(audio_out_buffer_, 0, last) /\ Exact(audio_out_buffer_, 0, last, sent)
    BY <1>1, <2>4, <2>5 DEF Ahead, Exact
  <2>7. PICK p : p = Play(audio_out_buffer_, 0, fs)
    OBVIOUS
  <2>8. PICK h : /\ Played(p, h, NFrames, fs, last, sent)
                 /\ LastPlayed(p.out) = h
                 /\ PlayedExactly(p, h, NFrames, last, sent)
    BY <1>1, <2>2, <2>6, <2>7, Outcome
  <2>9. /\ audio_out_buffer_' = p.q /\ audio_out_index_' = p.index /\ out' = p.out
        /\ last' = LastPlayed(p.out)
        /\ starved' = (starved \/ (p.q = <<>> /\ ~ended))
        /\ continuous' = continuous /\ sent' = sent /\ buffers' = buffers /\ ended' = ended /\ Elapse
    BY <2>1, <2>7, Zenon DEF Cycle, packet
  <2>10. Cycled(p, h, fs)
    BY <2>1, <2>2, <2>3, <2>8, <2>9 DEF Cycled
  <2> QED BY <1>1, <2>10
<1>4. CASE CycleContinue
  <2>1. ~new_packet_ /\ new_packet_' = new_packet_ /\ Cycle(audio_out_index_, 0)
    BY <1>4 DEF CycleContinue
  <2>2. Ahead(audio_out_buffer_, audio_out_index_, last)
    BY <1>1 DEF PlaybackInv, Packets
  <2>3. ~starved => Exact(audio_out_buffer_, audio_out_index_, last, sent)
    BY <1>1, <2>1 DEF PlaybackInv, Packets
  <2>4. PICK p : p = Play(audio_out_buffer_, audio_out_index_, 0)
    OBVIOUS
  <2>5. PICK h : /\ Played(p, h, NFrames, 0, last, sent)
                 /\ LastPlayed(p.out) = h
                 /\ ~starved => PlayedExactly(p, h, NFrames, last, sent)
    BY <1>1, <1>2, <2>2, <2>3, <2>4, Outcome
  <2>6. /\ audio_out_buffer_' = p.q /\ audio_out_index_' = p.index /\ out' = p.out
        /\ last' = LastPlayed(p.out)
        /\ starved' = (starved \/ (p.q = <<>> /\ ~ended))
        /\ continuous' = continuous /\ sent' = sent /\ buffers' = buffers /\ ended' = ended /\ Elapse
    BY <2>1, <2>4, Zenon DEF Cycle, packet
  <2>7. new_packet_' = FALSE
    BY <1>2, <2>1
  <2>8. Cycled(p, h, 0)
    BY <2>1, <2>5, <2>6, <2>7 DEF Cycled
  <2> QED BY <1>1, <2>8
<1> QED BY <1>3, <1>4

LEMMA Elapses ==
    ASSUME PlaybackTypes, Elapse
    PROVE  /\ lead' \in Nat /\ lead' <= lead
           /\ lead <= NFrames + Calibration => lead' <= Calibration
<1>1. lead \in Nat /\ NFrames \in Nat /\ Calibration \in Nat
  BY FramesAssumption, JackConfigAssumption DEF PlaybackTypes
<1> QED BY <1>1 DEF Elapse

LEMMA PlaybackInitially == PlaybackInit => PlaybackInv
<1> SUFFICES ASSUME PlaybackInit PROVE PlaybackInv
  OBVIOUS
<1>1. audio_out_buffer_ = <<>> /\ audio_out_buffer_ \in Seq(Queued) /\ Len(audio_out_buffer_) = 0
  BY DEF PlaybackInit
<1>2. Chain(audio_out_buffer_, sent)
  BY <1>1 DEF Chain
<1>3. PlaybackTypes /\ Begun /\ Frames
  <2>1. PlaybackTypes
    BY DEF PlaybackInit, PlaybackTypes
  <2>2. lead = 0 /\ ~new_packet_ /\ audio_out_buffer_ = <<>>
    BY DEF PlaybackInit
  <2>3. 0 <= Calibration
    BY JackConfigAssumption
  <2> QED BY <2>1, <2>2, <2>3 DEF Begun, Frames
<1>4. Packets
  BY <1>1, <1>2 DEF PlaybackInit, Packets, Ahead, Exact
<1> QED BY <1>3, <1>4 DEF PlaybackInv

LEMMA CycleKeeps ==
    ASSUME PlaybackInv, CycleBegin \/ CycleContinue
    PROVE  PlaybackInv'
<1>1. ~continuous /\ audio_out_buffer_ # <<>>
  BY PacketCycle
<1>2. PICK p, h, fs : Cycled(p, h, fs)
  BY PacketCycle
<1>3. PlaybackTypes /\ Begun
  BY DEF PlaybackInv
<1>4. /\ p.index \in Nat /\ h \in Nat /\ h <= sent /\ Chain(p.q, sent) /\ Ahead(p.q, p.index, h)
  BY <1>2 DEF Cycled, Played
<1>5. /\ audio_out_buffer_' = p.q /\ audio_out_index_' = p.index /\ last' = h
      /\ starved' = (starved \/ (p.q = <<>> /\ ~ended))
      /\ new_packet_' = FALSE /\ continuous' = continuous /\ sent' = sent
      /\ buffers' = buffers /\ ended' = ended
  BY <1>2 DEF Cycled
<1>6. lead' \in Nat /\ lead' <= Calibration
  <2>1. lead \in Nat /\ NFrames \in Nat /\ Calibration \in Nat
    BY <1>3, FramesAssumption, JackConfigAssumption DEF PlaybackTypes
  <2>2. /\ lead' \in Nat /\ lead' <= lead
        /\ lead <= NFrames + Calibration => lead' <= Calibration
    BY <1>2, <1>3, Elapses DEF Cycled
  <2>3. CASE new_packet_
    <3>1. fs \in FrameStart /\ fs <= NFrames
      BY <1>2, <2>3 DEF Cycled
    <3>2. fs = IF lead > Calibration THEN lead - Calibration ELSE 0
      BY <1>3, <3>1, StartIsFrame
    <3>3. lead <= NFrames + Calibration
      BY <2>1, <3>1, <3>2
    <3> QED BY <2>2, <3>3
  <2>4. CASE ~new_packet_
    BY <1>3, <2>1, <2>2, <2>4 DEF Begun
  <2> QED BY <2>3, <2>4
<1>7. PlaybackTypes'
  BY <1>3, <1>4, <1>5, <1>6 DEF PlaybackTypes
<1>8. Begun'
  BY <1>6 DEF Begun
<1>9. Frames'
  BY <1>1, <1>5 DEF Frames
<1>10. ~starved' => ~starved /\ (p.q = <<>> => ended)
  BY <1>5
<1>11. ~starved => Exact(p.q, p.index, h, sent)
  BY <1>2 DEF Cycled, PlayedExactly
<1>12. Packets'
  BY <1>4, <1>5, <1>10, <1>11 DEF Packets
<1> QED BY <1>7, <1>8, <1>9, <1>12 DEF PlaybackInv

LEMMA IdleKeeps ==
    ASSUME PlaybackInv, CycleIdle
    PROVE  PlaybackInv'
<1>1. /\ continuous' = continuous /\ audio_out_buffer_' = audio_out_buffer_
      /\ new_packet_' = new_packet_ /\ sent' = sent /\ buffers' = buffers /\ ended' = ended
      /\ last' = last /\ starved' = starved /\ Elapse
  BY DEF CycleIdle, packet
<1>2. \/ audio_out_buffer_ = <<>> /\ audio_out_index_' = audio_out_index_
      \/ audio_out_buffer_ # <<>> /\ new_packet_ /\ audio_out_index_' = 0
  BY DEF CycleIdle
<1>3. PlaybackTypes
  BY DEF PlaybackInv
<1>4. lead' \in Nat /\ lead' <= lead /\ lead \in Nat
  BY <1>1, <1>3, Elapses DEF PlaybackTypes
<1>5. PlaybackTypes'
  BY <1>1, <1>2, <1>3, <1>4 DEF PlaybackTypes
<1>6. Begun'
  BY <1>1, <1>4, JackConfigAssumption DEF PlaybackInv, Begun
<1>7. Frames'
  <2>1. lead = 0 => lead' = 0
    BY <1>4
  <2> QED BY <1>1, <2>1 DEF PlaybackInv, Frames
<1>8. Packets'
  <2>1. CASE continuous
    BY <1>1, <2>1 DEF Packets
  <2>2. CASE ~continuous /\ audio_out_buffer_ = <<>>
    <3>1. audio_out_index_' = audio_out_index_
      BY <1>2, <2>2
    <3> QED BY <1>1, <3>1 DEF PlaybackInv, Packets
  <2>3. CASE ~continuous /\ audio_out_buffer_ # <<>>
    <3>1. new_packet_ /\ audio_out_index_' = 0
      BY <1>2, <2>3
    <3>2. /\ last \in Nat /\ last <= sent /\ Chain(audio_out_buffer_, sent)
          /\ audio_out_buffer_[1].first = 1 /\ last = 0 /\ ~starved
      BY <2>3, <3>1 DEF PlaybackInv, Packets
    <3>3. audio_out_buffer_[1].size \in Nat
      BY <2>3, <3>2, ChainTypes
    <3>4. Ahead(audio_out_buffer_, 0, last)
      BY <3>2, <3>3 DEF Ahead
    <3> QED BY <1>1, <2>3, <3>1, <3>2, <3>4 DEF Packets
  <2> QED BY <2>1, <2>2, <2>3
<1> QED BY <1>5, <1>6, <1>7, <1>8 DEF PlaybackInv

LEMMA ContinuousKeeps ==
    ASSUME PlaybackInv, CycleContinuous
    PROVE  PlaybackInv'
<1>1. /\ continuous /\ continuous' = continuous /\ audio_out_buffer_' = audio_out_buffer_
      /\ audio_out_index_' = audio_out_index_
      /\ new_packet_' = new_packet_ /\ sent' = sent /\ buffers' = buffers /\ ended' = ended
      /\ starved' = starved /\ Elapse
  BY DEF CycleContinuous, packet, queue
<1>2. lead' \in Nat /\ lead' <= lead /\ lead \in Nat
  BY <1>1, Elapses DEF PlaybackInv, PlaybackTypes
<1>3. PlaybackTypes'
  BY <1>1, <1>2 DEF PlaybackInv, PlaybackTypes
<1>4. Begun' /\ Frames'
  <2>1. lead = 0 => lead' = 0
    BY <1>2
  <2> QED BY <1>1, <2>1, JackConfigAssumption DEF PlaybackInv, Frames, Begun
<1>5. Packets'
  BY <1>1 DEF Packets
<1> QED BY <1>3, <1>4, <1>5 DEF PlaybackInv

LEMMA StartKeeps ==
    ASSUME PlaybackInv, NEW size \in Sizes, NEW start \in 0..MaxLead, AudioOutStart(size, start)
    PROVE  PlaybackInv'
<1>1. /\ ~continuous /\ continuous' = continuous
      /\ audio_out_buffer_' = <<Buffer(1, size)>> /\ audio_out_index_' = audio_out_index_
      /\ new_packet_' = TRUE /\ lead' = start
      /\ sent' = size /\ buffers' = 1 /\ ended' = FALSE /\ last' = 0 /\ starved' = FALSE
  BY DEF AudioOutStart
<1>2. size \in Nat /\ start \in Nat
  BY FramesAssumption, PlaybackBoundsAssumption
<1>3. PlaybackTypes'
  BY <1>1, <1>2 DEF PlaybackInv, PlaybackTypes
<1>4. Begun' /\ Frames'
  BY <1>1 DEF Begun, Frames
<1> DEFINE q == <<Buffer(1, size)>>
<1>5. q # <<>> /\ Len(q) = 1 /\ q[1] = Buffer(1, size) /\ q \in Seq(Queued)
  BY <1>2 DEF Buffer, Queued
<1>6. q[1].first = 1 /\ q[1].size = size
  BY <1>5 DEF Buffer
<1> HIDE DEF q
<1>7. Chain(q, size)
  BY <1>2, <1>5, <1>6 DEF Chain
<1>8. audio_out_index_ \in Nat
  BY DEF PlaybackInv, PlaybackTypes
<1>9. Ahead(q, audio_out_index_, 0)
  BY <1>2, <1>6, <1>8 DEF Ahead
<1>10. Packets'
  <2>1. audio_out_buffer_' = q
    BY <1>1 DEF q
  <2> QED BY <1>1, <1>2, <1>5, <1>6, <1>7, <1>9, <2>1 DEF Packets
<1> QED BY <1>3, <1>4, <1>10 DEF PlaybackInv

LEMMA MoreKeeps ==
    ASSUME PlaybackInv, NEW size \in Sizes, NEW end \in BOOLEAN, AudioOutMore(size, end)
    PROVE  PlaybackInv'
<1> DEFINE q == audio_out_buffer_
           b == Buffer(sent + 1, size)
           r == Append(q, b)
<1>1. /\ ~continuous /\ continuous' = continuous
      /\ audio_out_buffer_' = r /\ audio_out_index_' = audio_out_index_
      /\ new_packet_' = new_packet_ /\ lead' = lead
      /\ sent' = sent + size /\ buffers' = buffers + 1 /\ ended' = end
      /\ last' = last /\ starved' = (starved \/ (q = <<>> /\ audio_out_index_ > 0))
  BY DEF AudioOutMore
<1>2. size \in Nat /\ sent \in Nat /\ buffers \in Nat /\ audio_out_index_ \in Nat
  BY FramesAssumption DEF PlaybackInv, PlaybackTypes
<1>3. PlaybackTypes'
  BY <1>1, <1>2 DEF PlaybackInv, PlaybackTypes
<1>4. Begun' /\ Frames'
  BY <1>1 DEF PlaybackInv, Begun, Frames
<1>5. /\ last \in Nat /\ last <= sent /\ Chain(q, sent) /\ Ahead(q, audio_out_index_, last)
  BY <1>1 DEF PlaybackInv, Packets
<1>6. b \in Queued /\ b.first = sent + 1 /\ b.size = size
  BY <1>2 DEF Buffer, Queued
<1>7. /\ q \in Seq(Queued) /\ Len(q) \in Nat
      /\ \A i \in 1..Len(q) : q[i].first \in Nat /\ q[i].size \in Nat
      /\ q # <<>> <=> Len(q) >= 1
  BY <1>5, ChainTypes
<1> HIDE DEF b
<1>8. /\ r \in Seq(Queued) /\ Len(r) = Len(q) + 1 /\ r # <<>>
      /\ \A i \in 1..Len(q) : r[i] = q[i]
      /\ r[Len(q) + 1] = b
  BY <1>6, <1>7, AppendProperties
<1> HIDE DEF r, q
<1>9. Chain(r, sent + size)
  <2>1. \A i \in 1..Len(r) : i \in 1..Len(q) \/ i = Len(q) + 1
    BY <1>7, <1>8
  <2>2. ASSUME NEW i \in 1..Len(r), i < Len(r) PROVE r[i + 1].first = r[i].first + r[i].size
    <3>1. i \in 1..Len(q) /\ r[i] = q[i]
      BY <1>7, <1>8, <2>2
    <3>2. CASE i < Len(q)
      <4>1. i + 1 \in 1..Len(q) /\ r[i + 1] = q[i + 1]
        BY <1>7, <1>8, <3>2
      <4> QED BY <1>5, <3>1, <3>2, <4>1 DEF Chain
    <3>3. CASE i = Len(q)
      <4>1. r[i + 1] = b
        BY <1>8, <3>3
      <4>2. q[i].first + q[i].size = sent + 1
        BY <1>5, <3>1, <3>3 DEF Chain
      <4> QED BY <1>6, <3>1, <4>1, <4>2
    <3> QED BY <1>7, <3>1, <3>2, <3>3
  <2>3. ASSUME NEW i \in 1..Len(r)
        PROVE  /\ i = Len(r) => r[i].first + r[i].size = (sent + size) + 1
               /\ r[i].first + r[i].size <= (sent + size) + 1
    <3>1. CASE i \in 1..Len(q)
      <4>1. /\ r[i] = q[i] /\ i # Len(r) /\ q[i].first + q[i].size <= sent + 1
            /\ q[i].first \in Nat /\ q[i].size \in Nat
        BY <1>5, <1>7, <1>8, <3>1 DEF Chain
      <4> QED BY <1>2, <4>1
    <3>2. CASE i = Len(q) + 1
      BY <1>2, <1>6, <1>8, <3>2
    <3> QED BY <2>1, <3>1, <3>2
  <2> QED BY <1>8, <2>2, <2>3 DEF Chain
<1>10. q # <<>> => r[1] = q[1]
  BY <1>7, <1>8
<1>11. Ahead(r, audio_out_index_, last)
  <2>1. CASE q # <<>>
    BY <1>5, <1>10, <2>1 DEF Ahead
  <2>2. CASE q = <<>>
    <3>1. r[1] = b
      BY <1>7, <1>8, <2>2
    <3> QED BY <1>2, <1>5, <1>6, <3>1 DEF Ahead
  <2> QED BY <2>1, <2>2
<1>12. new_packet_ => r[1].first = 1 /\ last = 0 /\ ~starved'
  BY <1>1, <1>10 DEF PlaybackInv, Packets, q
<1>13. ~new_packet_ /\ ~starved' => Exact(r, audio_out_index_, last, sent + size)
  <2> SUFFICES ASSUME ~new_packet_, ~starved' PROVE Exact(r, audio_out_index_, last, sent + size)
    OBVIOUS
  <2>1. ~starved /\ (q = <<>> => ~(audio_out_index_ > 0))
    BY <1>1
  <2>2. Exact(q, audio_out_index_, last, sent)
    BY <1>1, <2>1 DEF PlaybackInv, Packets, q
  <2>3. CASE q # <<>>
    BY <1>8, <1>10, <2>2, <2>3 DEF Exact
  <2>4. CASE q = <<>>
    <3>1. r[1] = b /\ audio_out_index_ = 0 /\ last = sent
      BY <1>2, <1>7, <1>8, <2>1, <2>2, <2>4 DEF Exact
    <3> QED BY <1>2, <1>6, <1>8, <3>1 DEF Exact
  <2> QED BY <2>3, <2>4
<1>14. Packets'
  <2>1. last <= sent + size
    BY <1>2, <1>5
  <2> QED BY <1>1, <1>5, <1>8, <1>9, <1>11, <1>12, <1>13, <2>1 DEF Packets
<1> QED BY <1>3, <1>4, <1>14 DEF PlaybackInv

LEMMA FrameKeeps ==
    ASSUME PlaybackInv, AudioOutContinuous
    PROVE  PlaybackInv'
<1>1. /\ continuous /\ continuous' = continuous
      /\ audio_out_buffer_' = <<Buffer(sent + 1, NFrames)>> /\ audio_out_index_' = audio_out_index_
      /\ new_packet_' = new_packet_ /\ lead' = lead
      /\ sent' = sent + NFrames /\ buffers' = buffers /\ ended' = ended /\ starved' = starved
  BY DEF AudioOutContinuous
<1>2. sent \in Nat /\ NFrames \in Nat
  BY FramesAssumption DEF PlaybackInv, PlaybackTypes
<1>3. PlaybackTypes' /\ Begun' /\ Packets'
  BY <1>1, <1>2 DEF PlaybackInv, PlaybackTypes, Begun, Packets
<1>4. sent' >= NFrames /\ sent' - NFrames + 1 = sent + 1
  BY <1>1, <1>2
<1>5. Frames'
  BY <1>1, <1>4 DEF PlaybackInv, Frames
<1> QED BY <1>3, <1>5 DEF PlaybackInv

LEMMA PlaybackStep == PlaybackInv /\ [PlaybackNext]_playback_vars => PlaybackInv'
<1> SUFFICES ASSUME PlaybackInv, [PlaybackNext]_playback_vars PROVE PlaybackInv'
  OBVIOUS
<1>1. CASE CycleIdle
  BY <1>1, IdleKeeps
<1>2. CASE CycleBegin \/ CycleContinue
  BY <1>2, CycleKeeps
<1>3. CASE CycleContinuous
  BY <1>3, ContinuousKeeps
<1>4. CASE AudioOutContinuous
  BY <1>4, FrameKeeps
<1>5. ASSUME NEW size \in Sizes, NEW start \in 0..MaxLead, AudioOutStart(size, start) PROVE PlaybackInv'
  BY <1>5, StartKeeps
<1>6. ASSUME NEW size \in Sizes, NEW end \in BOOLEAN, AudioOutMore(size, end) PROVE PlaybackInv'
  BY <1>6, MoreKeeps
<1>7. CASE UNCHANGED playback_vars
  <2>1. /\ continuous' = continuous /\ audio_out_buffer_' = audio_out_buffer_
        /\ audio_out_index_' = audio_out_index_ /\ new_packet_' = new_packet_ /\ lead' = lead
        /\ sent' = sent /\ buffers' = buffers /\ ended' = ended /\ last' = last /\ starved' = starved
    BY <1>7 DEF playback_vars, queue, packet
  <2> QED BY <2>1 DEF PlaybackInv, PlaybackTypes, Begun, Packets, Frames
<1> QED BY <1>1, <1>2, <1>3, <1>4, <1>5, <1>6, <1>7 DEF PlaybackNext, JackProcess, AudioOut

LEMMA PlaybackInvariant == PlaybackSpec => []PlaybackInv
BY PlaybackInitially, PlaybackStep, PTL DEF PlaybackSpec

-----------------------------------------------------------------------------
(* What a cycle may never do *)

(* A step that leaves the packet alone is one of jack_process.             *)
LEMMA CycleStepIsCycle ==
    ASSUME PlaybackInv, PlaybackNext, CycleStep
    PROVE  \/ CycleIdle
           \/ CycleBegin \/ CycleContinue
           \/ CycleContinuous
<1>1. sent \in Nat /\ buffers \in Nat /\ NFrames \in Nat /\ NFrames # 0
  BY FramesAssumption DEF PlaybackInv, PlaybackTypes
<1>2. sent' = sent /\ buffers' = buffers /\ ended' = ended
  BY DEF CycleStep, packet
<1>3. ~AudioOutContinuous
  BY <1>1, <1>2 DEF AudioOutContinuous
<1>4. ASSUME NEW size \in Sizes, NEW start \in 0..MaxLead PROVE ~AudioOutStart(size, start)
  BY <1>2 DEF AudioOutStart
<1>5. ASSUME NEW size \in Sizes, NEW end \in BOOLEAN PROVE ~AudioOutMore(size, end)
  BY <1>1, <1>2 DEF AudioOutMore
<1> QED BY <1>3, <1>4, <1>5 DEF PlaybackNext, JackProcess, AudioOut

(* The samples of a frame that a cycle plays in continuous mode.           *)
LEMMA ContinuousFrame ==
    ASSUME PlaybackInv, CycleContinuous
    PROVE  /\ continuous /\ lead = 0 /\ ~new_packet_
           /\ sent \in Nat /\ sent >= NFrames /\ NFrames \in Nat /\ NFrames >= 1
           /\ Len(out') = NFrames
           /\ \A f \in 1..NFrames : out'[f] = (sent - NFrames + 1) + f - 1
<1>1. continuous /\ audio_out_buffer_ # <<>>
  BY DEF CycleContinuous
<1>2. /\ lead = 0 /\ ~new_packet_ /\ sent >= NFrames
      /\ audio_out_buffer_ = <<Buffer(sent - NFrames + 1, NFrames)>>
  BY <1>1 DEF PlaybackInv, Frames
<1>3. sent \in Nat /\ NFrames \in Nat /\ NFrames >= 1
  BY FramesAssumption DEF PlaybackInv, PlaybackTypes
<1>4. audio_out_buffer_[1].first = sent - NFrames + 1
  BY <1>2 DEF Buffer
<1>5. out' = [f \in 1..NFrames |-> (sent - NFrames + 1) + f - 1]
  BY <1>4 DEF CycleContinuous
<1>6. Len(out') = NFrames
  BY <1>3, <1>5
<1> QED BY <1>1, <1>2, <1>3, <1>5, <1>6

LEMMA CycleFacts ==
    ASSUME NEW p, NEW h, NEW fs, Cycled(p, h, fs), PlaybackInv, ~continuous
    PROVE  /\ out' = p.out /\ p.out \in Seq(Nat) /\ Len(p.out) = NFrames /\ NFrames \in Nat
           /\ fs \in Nat /\ last \in Nat /\ sent \in Nat /\ h \in Nat /\ last' = h
           /\ \A k \in 1..NFrames : p.out[k] \in Nat
           /\ Played(p, h, NFrames, fs, last, sent)
           /\ ~starved => PlayedExactly(p, h, NFrames, last, sent)
<1>1. /\ out' = p.out /\ last' = h /\ fs \in Nat
      /\ Played(p, h, NFrames, fs, last, sent)
      /\ ~starved => PlayedExactly(p, h, NFrames, last, sent)
  BY DEF Cycled
<1>2. p.out \in Seq(Nat) /\ Len(p.out) = NFrames /\ h \in Nat
  BY <1>1 DEF Played
<1>3. \A k \in 1..NFrames : p.out[k] \in Nat
  BY <1>2, ElementOfSeq
<1>4. last \in Nat /\ sent \in Nat /\ NFrames \in Nat
  BY FramesAssumption DEF PlaybackInv, PlaybackTypes, Packets
<1> QED BY <1>1, <1>2, <1>3, <1>4

(* NeverReplayed, for every frame count, buffer size and configuration: in *)
(* packet mode jack_process writes the samples in increasing order and     *)
(* only later ones than before, whatever buffers were late; in continuous  *)
(* mode it writes the newest frame.                                        *)
THEOREM PlaybackGoesOnward == PlaybackSpec => NeverReplayed
<1>1. PlaybackInv /\ [PlaybackNext]_playback_vars => [CycleStep => Onward]_playback_vars
  <2> SUFFICES ASSUME PlaybackInv, PlaybackNext, CycleStep PROVE Onward
    OBVIOUS
  <2>1. CASE CycleIdle
    <3>1. out' = <<>> /\ Len(<<>>) = 0
      BY <2>1 DEF CycleIdle
    <3> QED BY <3>1 DEF Onward
  <2>2. CASE CycleBegin \/ CycleContinue
    <3>1. ~continuous
      BY <2>2, PacketCycle
    <3>2. PICK p, h, fs : Cycled(p, h, fs)
      BY <2>2, PacketCycle
    <3>3. out' = p.out /\ Len(p.out) = NFrames /\ Played(p, h, NFrames, fs, last, sent)
      BY <3>1, <3>2, CycleFacts
    <3>4. \A k \in 1..NFrames : p.out[k] # Silence =>
             p.out[k] > last /\ \A j \in 1..(k - 1) : p.out[j] < p.out[k]
      BY <3>3 DEF Played
    <3> QED BY <3>1, <3>3, <3>4 DEF Onward
  <2>3. CASE CycleContinuous
    <3>1. /\ continuous /\ sent \in Nat /\ NFrames \in Nat /\ sent >= NFrames
          /\ Len(out') = NFrames
          /\ \A f \in 1..NFrames : out'[f] = (sent - NFrames + 1) + f - 1
      BY <2>3, ContinuousFrame
    <3>2. ASSUME NEW f \in 1..NFrames
          PROVE  out'[f] > sent - NFrames /\ \A g \in 1..(f - 1) : out'[g] < out'[f]
      <4>1. out'[f] > sent - NFrames
        BY <3>1
      <4>2. ASSUME NEW g \in 1..(f - 1) PROVE out'[g] < out'[f]
        <5>1. g \in 1..NFrames /\ g < f
          BY <3>1
        <5> QED BY <3>1, <5>1
      <4> QED BY <4>1, <4>2
    <3> QED BY <3>1, <3>2 DEF Onward
  <2> QED BY <2>1, <2>2, <2>3, CycleStepIsCycle
<1> QED BY <1>1, PlaybackInvariant, PTL DEF PlaybackSpec, NeverReplayed

(* GaplessPlayback, for every frame count, buffer size and configuration:  *)
(* as long as the queue does not run dry before an END and is not filled   *)
(* again after running dry, jack_process writes each sample in the frame   *)
(* after the one before it, across buffers, cycles and the packets without *)
(* START, and silence only behind the last one.                            *)
THEOREM PlaybackHasNoGap == PlaybackSpec => GaplessPlayback
<1>1. PlaybackInv /\ [PlaybackNext]_playback_vars
         => [CycleStep /\ ~continuous /\ ~starved' => Gapless]_playback_vars
  <2> SUFFICES ASSUME PlaybackInv, PlaybackNext, CycleStep, ~continuous, ~starved' PROVE Gapless
    OBVIOUS
  <2>1. CASE CycleIdle
    <3>1. out' = <<>> /\ Len(<<>>) = 0
      BY <2>1 DEF CycleIdle
    <3> QED BY <3>1 DEF Gapless
  <2>2. CASE CycleContinuous
    BY <2>2 DEF CycleContinuous
  <2>3. CASE CycleBegin \/ CycleContinue
    <3>1. PICK p, h, fs : Cycled(p, h, fs)
      BY <2>3, PacketCycle
    <3>2. ~starved /\ (p.q = <<>> => ended)
      <4>1. starved' = (starved \/ (p.q = <<>> /\ ~ended))
        BY <3>1 DEF Cycled
      <4> QED BY <4>1
    <3>3. /\ out' = p.out /\ Len(p.out) = NFrames /\ last' = h
          /\ last \in Nat
          /\ Played(p, h, NFrames, fs, last, sent) /\ PlayedExactly(p, h, NFrames, last, sent)
      BY <3>1, <3>2, CycleFacts
    <3>4. ASSUME NEW f \in 1..NFrames, p.out[f] # Silence
          PROVE  p.out[f] = IF f > 1 /\ p.out[f - 1] # Silence THEN p.out[f - 1] + 1 ELSE last + 1
      BY <3>3, <3>4 DEF PlayedExactly
    <3>5. ASSUME NEW f \in 1..NFrames, p.out[f] = Silence,
                 last > 0 \/ \E g \in 1..f : p.out[g] # Silence
          PROVE  ended /\ h = sent
      <4>1. f > fs
        <5>1. fs \in Nat /\ f \in Nat
          BY <3>1 DEF Cycled
        <5>2. CASE last > 0
          <6>1. ~new_packet_
            BY <3>3, <5>2 DEF PlaybackInv, Packets
          <6>2. fs = 0
            BY <3>1, <6>1 DEF Cycled
          <6> QED BY <6>2
        <5>3. CASE \E g \in 1..f : p.out[g] # Silence
          <6>1. PICK g \in 1..f : p.out[g] # Silence
            BY <5>3
          <6>2. g \in 1..NFrames
            BY FramesAssumption
          <6>3. ~(g <= fs)
            BY <3>3, <6>1, <6>2 DEF Played
          <6> QED BY <5>1, <6>3
        <5> QED BY <3>5, <5>2, <5>3
      <4>2. p.q = <<>>
        BY <3>3, <3>5, <4>1 DEF Played
      <4> QED BY <3>2, <3>3, <4>2 DEF PlayedExactly, Exact
    <3> QED BY <3>3, <3>4, <3>5 DEF Gapless
  <2> QED BY <2>1, <2>2, <2>3, CycleStepIsCycle
<1> QED BY <1>1, PlaybackInvariant, PTL DEF PlaybackSpec, GaplessPlayback

(* StartsOnTime, for every frame count, buffer size and configuration:     *)
(* jack_process writes the first sample of a packet with a START in the    *)
(* frame that its start time less the calibration falls on, and in the     *)
(* cycle it falls in; a packet without one behind it changes nothing, and  *)
(* the first received of all without one is begun at once.                 *)
THEOREM PlaybackStartsOnTime == PlaybackSpec => StartsOnTime
<1>1. PlaybackInv /\ [PlaybackNext]_playback_vars => [CycleStep => OnTime]_playback_vars
  <2> SUFFICES ASSUME PlaybackInv, PlaybackNext, CycleStep PROVE OnTime
    OBVIOUS
  <2> DEFINE due == IF lead > Calibration THEN lead - Calibration ELSE 0
             enough == /\ new_packet_ /\ sent > 0
                       /\ Len(audio_out_buffer_) >= MinPlayback
                       /\ lead = 0 \/ lead >= Calibration
                       /\ due < NFrames
  <2>1. lead \in Nat /\ NFrames \in Nat /\ NFrames >= 1 /\ Calibration \in Nat /\ MinPlayback \in Nat
    BY FramesAssumption, JackConfigAssumption DEF PlaybackInv, PlaybackTypes
  <2>2. due \in Nat
    BY <2>1
  <2> SUFFICES /\ last = 0 /\ Plays(out', 1) => due < NFrames /\ out'[due + 1] = 1
               /\ enough => Plays(out', 1)
    BY DEF OnTime
  <2>3. CASE CycleIdle
    <3>1. out' = <<>> /\ Len(<<>>) = 0
      BY <2>3 DEF CycleIdle
    <3>2. ~Plays(out', 1)
      BY <3>1 DEF Plays
    <3>3. ASSUME enough PROVE FALSE
      <4>1. ~continuous /\ audio_out_buffer_ # <<>>
        BY <3>3 DEF PlaybackInv, Frames, Packets
      <4>2. PICK fs \in FrameStart : fs > NFrames \/ Len(audio_out_buffer_) < MinPlayback
        BY <2>3, <4>1 DEF CycleIdle
      <4>3. Len(audio_out_buffer_) \in Nat
        <5>1. Chain(audio_out_buffer_, sent)
          BY <4>1 DEF PlaybackInv, Packets
        <5> QED BY <5>1, ChainTypes
      <4>4. fs > NFrames
        BY <2>1, <3>3, <4>2, <4>3
      <4>5. fs = due
        BY <2>1, <3>3 DEF FrameStart
      <4> QED BY <2>1, <2>2, <3>3, <4>4, <4>5
    <3> QED BY <3>2, <3>3
  <2>4. CASE CycleContinuous
    <3>1. /\ lead = 0 /\ ~new_packet_ /\ sent \in Nat /\ sent >= NFrames
          /\ Len(out') = NFrames
          /\ \A f \in 1..NFrames : out'[f] = (sent - NFrames + 1) + f - 1
      BY <2>4, ContinuousFrame
    <3>2. due = 0
      BY <2>1, <3>1
    <3>3. ASSUME Plays(out', 1) PROVE out'[1] = 1
      <4>1. PICK f \in 1..NFrames : out'[f] = 1
        BY <3>1, <3>3 DEF Plays
      <4>2. (sent - NFrames + 1) + f - 1 = 1 /\ 1 \in 1..NFrames
        BY <2>1, <3>1, <4>1
      <4>3. (sent - NFrames + 1) + 1 - 1 = 1
        BY <2>1, <3>1, <4>2
      <4> QED BY <3>1, <4>2, <4>3
    <3> QED BY <2>1, <3>1, <3>2, <3>3
  <2>5. CASE CycleBegin \/ CycleContinue
    <3>1. ~continuous
      BY <2>5, PacketCycle
    <3>2. PICK p, h, fs : Cycled(p, h, fs)
      BY <2>5, PacketCycle
    <3>3. /\ out' = p.out /\ Len(p.out) = NFrames /\ fs \in Nat /\ last \in Nat /\ sent \in Nat
          /\ h \in Nat /\ \A k \in 1..NFrames : p.out[k] \in Nat
          /\ Played(p, h, NFrames, fs, last, sent)
          /\ ~starved => PlayedExactly(p, h, NFrames, last, sent)
      BY <3>1, <3>2, CycleFacts
    <3>4. fs = due
      <4>1. CASE new_packet_
        <5>1. fs \in FrameStart /\ fs <= NFrames
          BY <3>2, <4>1 DEF Cycled
        <5> QED BY <5>1, StartIsFrame DEF PlaybackInv
      <4>2. CASE ~new_packet_
        <5>1. fs = 0 /\ lead <= Calibration
          BY <3>2, <4>2 DEF Cycled, PlaybackInv, Begun
        <5> QED BY <2>1, <5>1
      <4> QED BY <4>1, <4>2
    <3> HIDE DEF due
    <3>5. ASSUME last = 0, Plays(out', 1) PROVE due < NFrames /\ out'[due + 1] = 1
      <4>1. PICK k \in 1..NFrames : p.out[k] = 1
        BY <3>3, <3>5 DEF Plays
      <4>2. k > fs
        <5>1. ~(k <= fs)
          BY <3>3, <4>1 DEF Played, Silence
        <5> QED BY <3>3, <5>1
      <4>3. fs + 1 \in 1..NFrames /\ k \in (fs + 1)..NFrames /\ fs < NFrames
        BY <2>1, <3>3, <4>2
      <4>4. p.out[fs + 1] # 0
        <5>1. fs + 1 > fs
          BY <3>3
        <5>2. p.out[fs + 1] = 0 => \A j \in (fs + 1)..NFrames : p.out[j] = 0
          BY <3>3, <4>3, <5>1 DEF Played, Silence
        <5> QED BY <4>1, <4>3, <5>2
      <4>5. p.out[fs + 1] <= 1
        <5>1. CASE k = fs + 1
          BY <4>1, <5>1
        <5>2. CASE k # fs + 1
          <6>1. fs + 1 \in 1..(k - 1)
            BY <3>3, <4>3, <5>2
          <6>2. p.out[fs + 1] < p.out[k]
            <7>1. p.out[k] # 0
              BY <4>1
            <7>2. \A j \in 1..(k - 1) : p.out[j] < p.out[k]
              BY <3>3, <7>1 DEF Played, Silence
            <7> QED BY <6>1, <7>2
          <6> QED BY <3>3, <4>1, <4>3, <6>2
        <5> QED BY <5>1, <5>2
      <4>6. p.out[fs + 1] = 1
        BY <3>3, <4>3, <4>4, <4>5
      <4> QED BY <3>3, <3>4, <4>3, <4>6
    <3>6. ASSUME enough PROVE Plays(out', 1)
      <4>1. new_packet_ /\ sent > 0 /\ due < NFrames
        BY <3>6
      <4>2. last = 0 /\ ~starved
        BY <3>1, <4>1 DEF PlaybackInv, Packets
      <4>3. fs + 1 \in 1..NFrames /\ fs + 1 > fs /\ (fs + 1) - 1 = fs
        BY <2>1, <3>3, <3>4, <4>1
      <4>4. PlayedExactly(p, h, NFrames, last, sent)
        BY <3>3, <4>2
      <4>5. p.out[fs + 1] # 0
        <5> SUFFICES ASSUME p.out[fs + 1] = 0 PROVE FALSE
          OBVIOUS
        <5>1. p.q = <<>> /\ \A j \in (fs + 1)..NFrames : p.out[j] = 0
          BY <3>3, <4>3 DEF Played, Silence
        <5>2. h = sent
          BY <4>4, <5>1 DEF PlayedExactly, Exact
        <5>3. \A j \in 1..NFrames : j <= fs => p.out[j] = 0
          BY <3>3 DEF Played, Silence
        <5>4. \A j \in 1..NFrames : j <= fs \/ j \in (fs + 1)..NFrames
          BY <3>3
        <5>5. \A j \in 1..NFrames : p.out[j] = 0
          BY <5>1, <5>3, <5>4
        <5>6. h # last => \E k \in 1..NFrames : p.out[k] = h
          BY <3>3 DEF Played
        <5> QED BY <3>3, <4>1, <4>2, <5>2, <5>5, <5>6
      <4>6. ~(fs + 1 > 1 /\ p.out[(fs + 1) - 1] # 0)
        <5>1. fs >= 1 => p.out[fs] = 0
          <6>1. fs >= 1 => fs \in 1..NFrames
            BY <2>1, <3>3, <4>3
          <6>2. \A j \in 1..NFrames : j <= fs => p.out[j] = 0
            BY <3>3 DEF Played, Silence
          <6> QED BY <3>3, <6>1, <6>2
        <5> QED BY <3>3, <4>3, <5>1
      <4>7. p.out[fs + 1] = IF fs + 1 > 1 /\ p.out[(fs + 1) - 1] # 0 THEN p.out[(fs + 1) - 1] + 1
                            ELSE last + 1
        BY <4>3, <4>4, <4>5 DEF PlayedExactly, Silence
      <4>8. p.out[fs + 1] = 1
        BY <4>2, <4>6, <4>7
      <4> QED BY <3>3, <4>3, <4>8 DEF Plays
    <3> QED BY <3>5, <3>6
  <2> QED BY <2>3, <2>4, <2>5, CycleStepIsCycle
<1> QED BY <1>1, PlaybackInvariant, PTL DEF PlaybackSpec, StartsOnTime
=============================================================================
