------------------------------ MODULE NetSimUDP ------------------------------
(***************************************************************************)
(* netsim_udp (apps/netsim_udp/main.cpp): a simulated acoustic channel     *)
(* between modems that send UDP datagrams.  A datagram waits in            *)
(* forward_buffer_ for the impulse response of its pair of modems, then in *)
(* delay_buffer_ until its propagation time has elapsed since the time the *)
(* datagram itself bears: that is the sender's clock, which nothing ties   *)
(* to the clock here, and may not be set at all.  Callbacks and loop() run *)
(* on the application's main thread, one at a time, so each of them is one *)
(* action.  Impulse responses are matched to waiting datagrams by the pair *)
(* alone and are seen by everybody: those another program has asked for    *)
(* arrive here too.                                                        *)
(***************************************************************************)
EXTENDS Integers, FiniteSets, SequencesExt

CONSTANTS
    Modems,      \* configured modem_ids
    Broadcast,   \* goby::acomms::BROADCAST_ID
    Stranger,    \* an endpoint, id or port that is not configured
    Method,      \* packet_success_method
    SendAll,     \* send_all_as_broadcast
    Stamps,      \* the times a datagram may bear, by its sender's clock
    RayTraces,   \* the raytraces of possible impulse responses
    Outliers,    \* offsets outlier_dowtt_ can add; 0 for none
    Garbage,     \* what an uninitialised double may hold
    MaxMsgs,     \* bound: datagrams received
    MaxSendTime, \* bound: time of the last datagram
    MaxTime,     \* bound: the clock
    MaxOthers    \* bound: responses to other programs' requests

ASSUME UDPModemsAssumption ==
    /\ Modems \subseteq Nat \ {0}
    /\ Broadcast \notin Modems
    /\ Stranger \notin Modems \cup {Broadcast}
ASSUME MethodAssumption ==
    /\ Method \in {"ALL_PACKETS_SUCCEED", "RANGE_TABLE", "MPP"}
    /\ SendAll \in BOOLEAN
ASSUME StampsAssumption == Stamps \subseteq Int
ASSUME RaysAssumption ==
    /\ RayTraces \subseteq Seq([amp : Int, delay : Int])
    /\ Outliers \subseteq Int /\ Garbage \subseteq Int
ASSUME UDPBoundsAssumption ==
    {MaxMsgs, MaxSendTime, MaxTime, MaxOthers} \subseteq Nat

VARIABLES
    now,              \* the system clock
    alive,            \* no exception has ended the application
    received,         \* number of datagrams received
    forward_buffer_,  \* forward_buffer_[<<src, dest>>], in order of arrival
    delay_buffer_,    \* the multimap by resend time, in its order
    perf_table_,      \* class of success of an unordered pair of modems
    requests,         \* external: impulse requests not yet answered
    others,           \* responses so far that answer other requests
    udp_out,          \* history: what loop() has published
    dropped,          \* history: <<msg, src, dest>> that failed the coin flip
    discarded,        \* history: <<msg, src, dest>> with no arrival
    accepted          \* history: <<msg, src, dest>> taken for forwarding

vars == <<now, alive, received, forward_buffer_, delay_buffer_, perf_table_,
          requests, others, udp_out, dropped, discarded, accepted>>

Pairs == Modems \X Modems

\* perf_table_ has one entry for two different modems, whichever is source.
TablePairs == {p \in Pairs : p[2] < p[1]}

\* The value of mpp_probab(): 0, between 0 and 1, or 1.
Classes == {"never", "maybe", "sure"}

Init ==
    /\ now = 0
    /\ alive = TRUE
    /\ received = 0
    /\ forward_buffer_ = [p \in Pairs |-> <<>>]
    /\ delay_buffer_ = <<>>
    /\ perf_table_ = [p \in TablePairs |-> "sure"]
    /\ requests = [p \in Pairs |-> 0]
    /\ others = 0
    /\ udp_out = <<>>
    /\ dropped = {}
    /\ discarded = {}
    /\ accepted = {}

-----------------------------------------------------------------------------
(* Datagrams *)

\* To whom a datagram is forwarded.
Destinations(src, type, dest) ==
    IF src \notin Modems THEN {}
    ELSE IF type # "ACK" /\ (SendAll \/ dest = Broadcast) THEN Modems \ {src}
    ELSE {dest} \cap Modems

\* forward_packet for every destination: a request, then the buffer.  The
\* performance request it may send as well is not tracked: performance
\* responses are accepted at any time, from whoever asked.
forward_packet(src, dests, stamp) ==
    LET to == {src} \X dests
    IN  /\ requests' = [p \in Pairs |->
              IF p \in to THEN requests[p] + 1 ELSE requests[p]]
        /\ forward_buffer_' = [p \in Pairs |->
              IF p \in to
              THEN Append(forward_buffer_[p], [msg |-> received, time |-> stamp])
              ELSE forward_buffer_[p]]
        /\ accepted' = accepted \cup {<<received, src, d>> : d \in dests}

UdpIn ==
    /\ alive /\ received < MaxMsgs /\ now <= MaxSendTime
    /\ \E src \in Modems \cup {Stranger}, type \in {"ACK", "DATA"},
          dest \in Modems \cup {Broadcast, Stranger}, stamp \in Stamps :
            forward_packet(src, Destinations(src, type, dest), stamp)
    /\ received' = received + 1
    /\ UNCHANGED <<now, alive, delay_buffer_, perf_table_, others, udp_out, dropped,
                   discarded>>

-----------------------------------------------------------------------------
(* Performance responses (only subscribed to with Method MPP) *)

\* The entries of the table about a pair, in either direction.
Entry(p) == {q \in TablePairs : q = p \/ q = <<p[2], p[1]>>}

process_performance_response ==
    /\ alive /\ Method = "MPP"
    /\ \E p \in Pairs, class \in Classes :
          perf_table_' = [q \in TablePairs |->
                            IF q \in Entry(p) THEN class ELSE perf_table_[q]]
    /\ UNCHANGED <<now, alive, received, forward_buffer_, delay_buffer_,
                   requests, others, udp_out, dropped, discarded, accepted>>

\* mpp_transmit_probability; a pair that is not in the table gives 0.
mpp_transmit_probability(p) ==
    IF Entry(p) = {} THEN "never" ELSE perf_table_[CHOOSE q \in Entry(p) : TRUE]

\* The results the coin flip can have.
Outcomes(p) ==
    CASE Method = "ALL_PACKETS_SUCCEED" -> {TRUE}
      [] Method = "RANGE_TABLE"         -> {TRUE, FALSE}
      [] Method = "MPP" -> CASE mpp_transmit_probability(p) = "sure"  -> {TRUE}
                             [] mpp_transmit_probability(p) = "never" -> {FALSE}
                             [] OTHER                                 -> BOOLEAN

-----------------------------------------------------------------------------
(* Impulse responses *)

Amplitude_Signed(ray) == ray.amp

\* std::fabs of a ray's amplitude.
Amplitude(ray) == IF ray.amp < 0 THEN -ray.amp ELSE ray.amp

\* The first of the rays with the largest amplitude; when every amplitude
\* is zero the delay is never assigned.
travel_time(rays) ==
    LET loudest == {i \in 1..Len(rays) : \A j \in 1..Len(rays) :
                        Amplitude(rays[j]) <= Amplitude(rays[i])}
        first == rays[CHOOSE i \in loudest : \A j \in loudest : i <= j]
    IN  IF first.amp = 0 THEN Garbage ELSE {first.delay}

\* std::multimap::upper_bound: how many elements are not behind the key.
upper_bound(s, key) ==
    CHOOSE n \in 0..Len(s) : \A i \in DOMAIN s : s[i].due <= key <=> i <= n

Insert_BeforeEqual(s, e) ==
    InsertAt(s, Cardinality({i \in DOMAIN s : s[i].due < e.due}) + 1, e)

\* std::multimap::insert: behind the elements with the same key.
Insert(s, e) == InsertAt(s, upper_bound(s, e.due) + 1, e)

\* A datagram of a pair with the travel time it has been given: it is to leave
\* when that has passed since the time it bears.
Delayed(p, w, owtt, rays) ==
    [msg |-> w.msg, src |-> p[1], dest |-> p[2], time |-> w.time,
     due |-> w.time + owtt, owtt |-> owtt, rays |-> rays]

\* The loop over the waiting datagrams: those that win the coin flip are put
\* in the buffer one after the other.
Entered(delay_buffer, waiting, p, owtt, success, rays) ==
    LET buffer[n \in 0..Len(waiting)] ==
          IF n = 0 THEN delay_buffer
          ELSE IF success[n]
          THEN Insert(buffer[n - 1], Delayed(p, waiting[n], owtt, rays))
          ELSE buffer[n - 1]
    IN  buffer[Len(waiting)]

\* The others are forgotten.
Release(p, owtt, success, rays) ==
    LET waiting == forward_buffer_[p]
    IN  /\ delay_buffer_' = Entered(delay_buffer_, waiting, p, owtt, success, rays)
        /\ dropped' = dropped \cup {<<waiting[i].msg, p[1], p[2]>> :
                                      i \in {j \in DOMAIN waiting : ~success[j]}}
        /\ UNCHANGED discarded

Discard(p) ==
    /\ discarded' = discarded \cup {<<forward_buffer_[p][i].msg, p[1], p[2]>> :
                                      i \in DOMAIN forward_buffer_[p]}
    /\ UNCHANGED <<delay_buffer_, dropped>>

EraseWaiting_First(p) == [forward_buffer_ EXCEPT ![p] = SubSeq(@, 2, Len(@))]

EraseWaiting(p) == [forward_buffer_ EXCEPT ![p] = <<>>]

process_impulse_response_KeepsOnEmpty(p) ==
    /\ \E rays \in RayTraces :
          \/ /\ rays = <<>>
             /\ UNCHANGED <<forward_buffer_, delay_buffer_, dropped, discarded>>
          \/ /\ rays # <<>>
             /\ \E delay \in travel_time(rays), outlier \in Outliers,
                   success \in [DOMAIN forward_buffer_[p] -> Outcomes(p)] :
                      Release(p, delay + outlier, success, rays)
             /\ forward_buffer_' = EraseWaiting(p)
    /\ UNCHANGED <<now, alive, received, perf_table_, udp_out, accepted>>

\* A response whose source and receiver are both configured.
process_impulse_response(p) ==
    /\ \E rays \in RayTraces :
          \/ rays = <<>> /\ Discard(p)
          \/ /\ rays # <<>>
             /\ \E delay \in travel_time(rays), outlier \in Outliers,
                   success \in [DOMAIN forward_buffer_[p] -> Outcomes(p)] :
                      Release(p, delay + outlier, success, rays)
    /\ forward_buffer_' = EraseWaiting(p)
    /\ UNCHANGED <<now, alive, received, perf_table_, udp_out, accepted>>

Answer(p) ==
    /\ alive /\ requests[p] > 0
    /\ process_impulse_response(p)
    /\ requests' = [requests EXCEPT ![p] = @ - 1]
    /\ UNCHANGED others

\* A response to another program's request about two configured modems.
OtherAnswer ==
    /\ alive /\ others < MaxOthers
    /\ \E p \in Pairs : process_impulse_response(p)
    /\ others' = others + 1
    /\ UNCHANGED requests

\* The source is not configured: the response is ignored.
UnknownSource ==
    /\ alive /\ others < MaxOthers
    /\ others' = others + 1
    /\ UNCHANGED <<now, alive, received, forward_buffer_, delay_buffer_,
                   perf_table_, requests, udp_out, dropped, discarded, accepted>>

\* Only the receiver is not configured: std::map::at throws out of the
\* callback and ends the application.  A performance response about an
\* unknown receiver does the same.
UnknownReceiver ==
    /\ alive /\ others < MaxOthers
    /\ others' = others + 1
    /\ alive' = FALSE
    /\ UNCHANGED <<now, received, forward_buffer_, delay_buffer_, perf_table_,
                   requests, udp_out, dropped, discarded, accepted>>

-----------------------------------------------------------------------------
(* loop() *)

\* What is due is published and erased.
loop ==
    LET due == upper_bound(delay_buffer_, now)
    IN  /\ alive
        /\ due > 0
        /\ udp_out' = udp_out \o
              [i \in 1..due |-> [io_msg |-> delay_buffer_[i], at |-> now]]
        /\ delay_buffer_' = SubSeq(delay_buffer_, due + 1, Len(delay_buffer_))
        /\ UNCHANGED <<now, alive, received, forward_buffer_, perf_table_, requests,
                       others, dropped, discarded, accepted>>

Tick ==
    /\ now < MaxTime
    /\ now' = now + 1
    /\ UNCHANGED <<alive, received, forward_buffer_, delay_buffer_, perf_table_,
                   requests, others, udp_out, dropped, discarded, accepted>>

Next ==
    \/ UdpIn
    \/ process_performance_response
    \/ \E p \in Pairs : Answer(p)
    \/ OtherAnswer
    \/ UnknownSource
    \/ UnknownReceiver
    \/ loop
    \/ Tick

Spec == Init /\ [][Next]_vars

\* Each request is answered, loop() is called and time goes on.
FairSpec ==
    /\ Spec
    /\ WF_vars(loop) /\ WF_vars(Tick)
    /\ \A p \in Pairs : WF_vars(Answer(p))

-----------------------------------------------------------------------------
(* Properties *)

Ids == 0..(MaxMsgs - 1)

Copies(m, s, d) ==
    LET at(io) == io.msg = m /\ io.src = s /\ io.dest = d
    IN  Cardinality({i \in DOMAIN forward_buffer_[<<s, d>>] :
                        forward_buffer_[<<s, d>>][i].msg = m})
        + Cardinality({i \in DOMAIN delay_buffer_ : at(delay_buffer_[i])})
        + Cardinality({i \in DOMAIN udp_out : at(udp_out[i].io_msg)})
        + (IF <<m, s, d>> \in dropped THEN 1 ELSE 0)
        + (IF <<m, s, d>> \in discarded THEN 1 ELSE 0)

(* A datagram accepted for a receiver is in exactly one place: waiting for *)
(* an impulse response, waiting for its propagation time, published once,  *)
(* dropped or discarded; whoever asked for the responses and however many came.      *)
ExactlyOnce ==
    \A m \in Ids, s \in Modems, d \in Modems :
        Copies(m, s, d) = IF <<m, s, d>> \in accepted THEN 1 ELSE 0

(* A datagram that waits for an impulse response is never forgotten: an    *)
(* answer for its pair is still to come, although responses are matched by *)
(* pair only and an earlier one may have taken several datagrams.          *)
NeverOrphaned ==
    \A p \in Pairs : forward_buffer_[p] # <<>> => requests[p] > 0

(* Two datagrams between the same modems that travel equally long leave in *)
(* the order in which they came, even when they wait in delay_buffer_ for  *)
(* the same instant, unless the one that came last bears an earlier time.  *)
OrderKept ==
    \A i, j \in DOMAIN udp_out :
        LET x == udp_out[i].io_msg
            y == udp_out[j].io_msg
        IN  i < j /\ x.src = y.src /\ x.dest = y.dest /\ x.owtt = y.owtt
                => x.msg < y.msg \/ x.time < y.time

(* Nothing is delivered before the travel time of a ray that no other ray  *)
(* is louder than, whatever the sign of its amplitude, has passed since    *)
(* the time the datagram bears (plus the outlier; when some amplitude is   *)
(* not zero), although one response may release several datagrams at once. *)
(* Since its arrival that long has passed only if its sender's clock was   *)
(* not behind.                                                             *)
NeverEarly ==
    \A i \in DOMAIN udp_out :
        LET io == udp_out[i].io_msg
            loud(r) == \A q \in Range(io.rays) : q.amp * q.amp <= r.amp * r.amp
        IN  (\E r \in Range(io.rays) : r.amp # 0)
                => \E r \in Range(io.rays), o \in Outliers :
                      /\ loud(r)
                      /\ udp_out[i].at - io.time >= r.delay + o

(* When requests are answered, every accepted datagram is published or     *)
(* dropped in the end (or the application has terminated).                 *)
EveryDatagramLeaves ==
    \A m \in Ids, s \in Modems, d \in Modems :
        <<m, s, d>> \in accepted
            ~> \/ ~alive
               \/ <<m, s, d>> \in dropped \cup discarded
               \/ \E i \in DOMAIN udp_out :
                     LET io == udp_out[i].io_msg
                     IN  io.msg = m /\ io.src = s /\ io.dest = d
=============================================================================
