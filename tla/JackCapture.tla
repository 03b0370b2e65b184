----------------------------- MODULE JackCapture -----------------------------
(***************************************************************************)
(* The capture half of JackThread<jack_modem_index> (jack_thread.h).       *)
(*                                                                         *)
(* Two threads share the deque audio_in_buffer_ under audio_in_mutex_:     *)
(*   - JACK's realtime thread calls jack_process once per audio cycle; it  *)
(*     pushes the captured buffer while locked and notifies the condition  *)
(*     variable after it has released the lock;                            *)
(*   - the Goby thread constructs the object (activating the JACK client   *)
(*     before it registers the input port) and then runs loop() for ever:  *)
(*     wait until the deque is non-empty, clear it if it is too long, else *)
(*     copy its front, publish the copy with the lock released, lock again *)
(*     and pop the front.                                                  *)
(* A buffer is represented by its capture number.  Each action is one      *)
(* critical section or one step outside of them.  Only threads with        *)
(* do_capture_ set are modelled here: the others never get an input port   *)
(* and their loop() only sleeps.                                           *)
(***************************************************************************)
EXTENDS Naturals, Sequences

CONSTANTS
    MaxBufferSize,  \* cfg().jack().max_buffer_size()
    MaxCaptured     \* bound: audio cycles in which JACK captures a buffer

ASSUME MaxBufferSizeAssumption == MaxBufferSize \in Nat \ {0}
ASSUME MaxCapturedAssumption == MaxCaptured \in Nat

VARIABLES
    audio_in_buffer_,  \* the deque shared by the two threads
    input_port_,       \* TRUE once input_port_ is no longer nullptr
    captured,          \* number of buffers captured so far
    jack,              \* realtime thread: "idle", or "notify" after a push
    loop,              \* where the Goby thread is
    temp_buffer,       \* loop()'s local copy of the front; 0 is null
    published          \* AudioIn<jack_modem_index>: what the detector is sent

vars == <<audio_in_buffer_, input_port_, captured, jack, loop, temp_buffer,
          published>>

LoopStates == {"activate", "connect", "take", "waiting", "publish", "pop"}

Init ==
    /\ audio_in_buffer_ = <<>>
    /\ input_port_ = FALSE
    /\ captured = 0
    /\ jack = "idle"
    /\ loop = "activate"
    /\ temp_buffer = 0
    /\ published = <<>>

-----------------------------------------------------------------------------
(* The Goby thread: constructor. *)

\* jack_activate has been called (cycles run); jack_port_register sets the port.
RegisterInputPort ==
    /\ loop = "activate"
    /\ input_port_' = TRUE
    /\ loop' = "connect"
    /\ UNCHANGED <<audio_in_buffer_, captured, jack, temp_buffer, published>>

\* The rest of the constructor connects the ports while JACK already captures.
FinishConstructor ==
    /\ loop = "connect"
    /\ loop' = "take"
    /\ UNCHANGED <<audio_in_buffer_, input_port_, captured, jack, temp_buffer,
                   published>>

-----------------------------------------------------------------------------
(* The realtime thread: the capture part of jack_process. *)

JackPush ==
    /\ jack = "idle"
    /\ input_port_
    /\ captured < MaxCaptured
    /\ captured' = captured + 1
    /\ audio_in_buffer_' = Append(audio_in_buffer_, captured + 1)
    /\ jack' = "notify"
    /\ UNCHANGED <<input_port_, loop, temp_buffer, published>>

JackNotify_Forgotten ==
    /\ jack = "notify"
    /\ jack' = "idle"
    /\ UNCHANGED <<audio_in_buffer_, input_port_, captured, loop, temp_buffer,
                   published>>

\* audio_in_cv_.notify_all(): a waiting loop() re-evaluates its predicate.
JackNotify ==
    /\ jack = "notify"
    /\ jack' = "idle"
    /\ loop' = IF loop = "waiting" THEN "take" ELSE loop
    /\ UNCHANGED <<audio_in_buffer_, input_port_, captured, temp_buffer,
                   published>>

-----------------------------------------------------------------------------
(* The Goby thread: loop(). *)

\* The deque is empty: wait on the condition variable, releasing the lock.
LoopWait ==
    /\ loop = "take"
    /\ audio_in_buffer_ = <<>>
    /\ loop' = "waiting"
    /\ UNCHANGED <<audio_in_buffer_, input_port_, captured, jack, temp_buffer,
                   published>>

\* A condition variable may also wake up on its own.
SpuriousWakeup ==
    /\ loop = "waiting"
    /\ loop' = "take"
    /\ UNCHANGED <<audio_in_buffer_, input_port_, captured, jack, temp_buffer,
                   published>>

LoopOverflow_NoTest ==
    /\ loop = "take"
    /\ audio_in_buffer_ # <<>>
    /\ audio_in_buffer_' = <<>>
    /\ UNCHANGED <<input_port_, captured, jack, loop, temp_buffer, published>>

LoopOverflow_WhilePopping ==
    /\ loop \in {"take", "pop"}
    /\ audio_in_buffer_ # <<>>
    /\ Len(audio_in_buffer_) >= MaxBufferSize
    /\ audio_in_buffer_' = <<>>
    /\ UNCHANGED <<input_port_, captured, jack, loop, temp_buffer, published>>

\* The deque reached its maximum: clear it and return from loop().
LoopOverflow ==
    /\ loop = "take"
    /\ audio_in_buffer_ # <<>>
    /\ Len(audio_in_buffer_) >= MaxBufferSize
    /\ audio_in_buffer_' = <<>>
    /\ UNCHANGED <<input_port_, captured, jack, loop, temp_buffer, published>>

\* Copy the front while locked; the element stays in the deque.
LoopTake ==
    /\ loop = "take"
    /\ audio_in_buffer_ # <<>>
    /\ Len(audio_in_buffer_) < MaxBufferSize
    /\ temp_buffer' = Head(audio_in_buffer_)
    /\ loop' = "publish"
    /\ UNCHANGED <<audio_in_buffer_, input_port_, captured, jack, published>>

\* Publish to AudioIn<jack_modem_index> with the lock released.
LoopPublish ==
    /\ loop = "publish"
    /\ published' = Append(published, temp_buffer)
    /\ loop' = "pop"
    /\ UNCHANGED <<audio_in_buffer_, input_port_, captured, jack, temp_buffer>>

\* Lock again, pop_front(); temp_buffer goes out of scope.
LoopPop ==
    /\ loop = "pop"
    /\ audio_in_buffer_' = Tail(audio_in_buffer_)
    /\ temp_buffer' = 0
    /\ loop' = "take"
    /\ UNCHANGED <<input_port_, captured, jack, published>>

-----------------------------------------------------------------------------
RealtimeThread == JackPush \/ JackNotify
Constructor == RegisterInputPort \/ FinishConstructor
Loop == LoopWait \/ LoopOverflow \/ LoopTake \/ LoopPublish \/ LoopPop

Next == Constructor \/ RealtimeThread \/ Loop \/ SpuriousWakeup

Spec == Init /\ [][Next]_vars

(* Both threads are run by the operating system for ever, so each finishes *)
(* what it has started.  Nothing is assumed of JackPush (JACK may stop     *)
(* calling) or of SpuriousWakeup (nothing depends on it).                  *)
FairSpec ==
    /\ Spec
    /\ WF_vars(Constructor)
    /\ WF_vars(JackNotify)
    /\ WF_vars(Loop)

-----------------------------------------------------------------------------
(* Properties *)

(* Every variable stays in its type. *)
TypeOK ==
    /\ audio_in_buffer_ \in Seq(1..MaxCaptured)
    /\ input_port_ \in BOOLEAN
    /\ captured \in 0..MaxCaptured
    /\ jack \in {"idle", "notify"}
    /\ loop \in LoopStates
    /\ temp_buffer \in 0..MaxCaptured
    /\ published \in Seq(1..MaxCaptured)

(* loop() reads the front, publishes it unlocked and pops later: between   *)
(* the two critical sections the front is still the buffer that was read,  *)
(* so pop_front() is never called on an empty deque and removes exactly    *)
(* the buffer that has just been published.                                *)
PopsWhatWasPublished ==
    /\ loop \in {"publish", "pop"} =>
         /\ audio_in_buffer_ # <<>>
         /\ Head(audio_in_buffer_) = temp_buffer
    /\ loop = "pop" =>
         /\ published # <<>>
         /\ published[Len(published)] = temp_buffer

(* The detector is sent buffers in the order in which JACK captured them,  *)
(* none twice, whatever the interleaving of push, publish, pop and clear.  *)
PublishedInOrder ==
    \A i, j \in 1..Len(published) : i < j => published[i] < published[j]

(* The capture side implements the lossy stream: in capture order, at most *)
(* once, and losing buffers only as a whole backlog of MaxBufferSize.      *)
LF == INSTANCE LossyFifo WITH
        Limit <- MaxBufferSize,
        accepted <- captured,
        pending <- IF loop = "pop" THEN Tail(audio_in_buffer_)
                   ELSE audio_in_buffer_,
        delivered <- published
ImplementsLossyFifo == LF!Spec

(* No captured buffer is left behind in the deque: the notification sent   *)
(* after the unlock cannot be lost, and once the buffer is in, loop()      *)
(* publishes or discards it even if JACK captures nothing more.            *)
EveryBufferLeaves ==
    \A b \in 1..MaxCaptured :
        (\E i \in 1..Len(audio_in_buffer_) : audio_in_buffer_[i] = b)
            ~> ~(\E i \in 1..Len(audio_in_buffer_) : audio_in_buffer_[i] = b)
=============================================================================
