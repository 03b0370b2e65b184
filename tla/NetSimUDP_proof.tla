--------------------------- MODULE NetSimUDP_proof ---------------------------
(***************************************************************************)
(* What netsim_udp does with a datagram, for any configuration: whatever   *)
(* the modems, raytraces, outliers and bounds are, it never orphans one,   *)
(* keeps it in exactly one place, and publishes it in order and not early. *)
(***************************************************************************)
EXTENDS NetSimUDP, FiniteSetTheorems, SequenceTheorems, WellFoundedInduction, TLAPS

Waiting == [msg : Ids, time : Stamps]

\* Counting needs only that the two tables are functions of the right kind.
Tables ==
    /\ forward_buffer_ \in [Pairs -> Seq(Waiting)]
    /\ requests \in [Pairs -> Nat]
    /\ received \in 0..MaxMsgs
    /\ now \in 0..MaxTime

Inv == Tables /\ NeverOrphaned

LEMMA InitInv == Init => Inv
<1> SUFFICES ASSUME Init PROVE Inv
    OBVIOUS
<1>1. forward_buffer_ \in [Pairs -> Seq(Waiting)]
    BY DEF Init
<1> QED
    BY <1>1, UDPBoundsAssumption DEF Init, Inv, Tables, NeverOrphaned

(* A response for a pair takes every datagram that waits for the pair, so  *)
(* the answers still to come may be fewer and none is orphaned.            *)
LEMMA ResponseInv ==
    ASSUME NEW p \in Pairs, Inv, process_impulse_response(p),
           requests' \in [Pairs -> Nat],
           \A q \in Pairs \ {p} : requests'[q] = requests[q]
    PROVE  Inv'
<1>1. forward_buffer_' = [forward_buffer_ EXCEPT ![p] = <<>>]
    BY DEF process_impulse_response, EraseWaiting
<1>2. /\ received' = received
      /\ now' = now
    BY DEF process_impulse_response
<1>3. forward_buffer_' \in [Pairs -> Seq(Waiting)]
    BY <1>1 DEF Inv, Tables
<1>4. Tables'
    BY <1>2, <1>3 DEF Inv, Tables, Waiting, Ids
<1>5. NeverOrphaned'
  <2> SUFFICES ASSUME NEW q \in Pairs, forward_buffer_'[q] # <<>>
               PROVE  requests'[q] > 0
      BY DEF NeverOrphaned
  <2>1. q # p /\ forward_buffer_[q] # <<>>
      BY <1>1 DEF Inv, Tables
  <2> QED
      BY <2>1 DEF Inv, NeverOrphaned
<1> QED
    BY <1>4, <1>5 DEF Inv

LEMMA UdpInInv == Inv /\ UdpIn => Inv'
<1> SUFFICES ASSUME Inv, UdpIn PROVE Inv'
    OBVIOUS
<1>1. /\ received < MaxMsgs
      /\ received' = received + 1
      /\ now' = now
    BY DEF UdpIn
<1>2. PICK src \in Modems \cup {Stranger}, type \in {"ACK", "DATA"},
           dest \in Modems \cup {Broadcast, Stranger}, stamp \in Stamps :
             forward_packet(src, Destinations(src, type, dest), stamp)
    BY DEF UdpIn
<1> DEFINE to == {src} \X Destinations(src, type, dest)
           new == [msg |-> received, time |-> stamp]
<1>3. requests' = [p \in Pairs |->
                     IF p \in to THEN requests[p] + 1 ELSE requests[p]]
    BY <1>2 DEF forward_packet
<1>4. forward_buffer_' = [p \in Pairs |-> IF p \in to
                            THEN Append(forward_buffer_[p], new)
                            ELSE forward_buffer_[p]]
    BY <1>2 DEF forward_packet
<1> HIDE DEF to
<1>5. new \in Waiting
  <2>1. received \in Ids
      BY <1>1, UDPBoundsAssumption DEF Inv, Tables, Ids
  <2> QED
      BY <2>1 DEF Inv, Tables, Waiting
<1> HIDE DEF new
<1>6. forward_buffer_' \in [Pairs -> Seq(Waiting)]
    BY <1>4, <1>5 DEF Inv, Tables
<1>7. requests' \in [Pairs -> Nat]
    BY <1>3 DEF Inv, Tables
<1>8. received' \in 0..MaxMsgs /\ now' \in 0..MaxTime
    BY <1>1, UDPBoundsAssumption DEF Inv, Tables
<1>9. NeverOrphaned'
  <2> SUFFICES ASSUME NEW p \in Pairs, forward_buffer_'[p] # <<>>
               PROVE  requests'[p] > 0
      BY DEF NeverOrphaned
  <2>1. requests[p] \in Nat
      BY DEF Inv, Tables
  <2>2. CASE p \in to
      BY <1>3, <2>1, <2>2
  <2>3. CASE p \notin to
      BY <1>3, <1>4, <2>3 DEF Inv, NeverOrphaned
  <2> QED
      BY <2>2, <2>3
<1> QED
    BY <1>6, <1>7, <1>8, <1>9 DEF Inv, Tables, Waiting, Ids

LEMMA AnswerInv == ASSUME NEW p \in Pairs, Inv, Answer(p) PROVE Inv'
<1>1. requests' = [requests EXCEPT ![p] = @ - 1] /\ requests[p] > 0
    BY DEF Answer
<1>2. requests' \in [Pairs -> Nat]
    BY <1>1 DEF Inv, Tables
<1>3. \A q \in Pairs \ {p} : requests'[q] = requests[q]
    BY <1>1 DEF Inv, Tables
<1> QED
    BY <1>2, <1>3, ResponseInv DEF Answer

LEMMA OtherAnswerInv == Inv /\ OtherAnswer => Inv'
<1> SUFFICES ASSUME Inv, OtherAnswer PROVE Inv'
    OBVIOUS
<1>1. PICK p \in Pairs : process_impulse_response(p)
    BY DEF OtherAnswer
<1>2. requests' = requests
    BY DEF OtherAnswer
<1> QED
    BY <1>1, <1>2, ResponseInv DEF Inv, Tables

(* The inductive step: every action keeps an answer to come for each pair  *)
(* something waits for.                                                    *)
LEMMA NextInv == Inv /\ [Next]_vars => Inv'
<1> SUFFICES ASSUME Inv, [Next]_vars PROVE Inv'
    OBVIOUS
<1> USE DEF Inv, Tables, NeverOrphaned
<1>1. CASE UdpIn
    BY <1>1, UdpInInv
<1>2. CASE \E p \in Pairs : Answer(p)
    BY <1>2, AnswerInv
<1>3. CASE OtherAnswer
    BY <1>3, OtherAnswerInv
<1>4. CASE process_performance_response
    BY <1>4 DEF process_performance_response
<1>5. CASE UnknownSource
    BY <1>5 DEF UnknownSource
<1>6. CASE UnknownReceiver
    BY <1>6 DEF UnknownReceiver
<1>7. CASE loop
    BY <1>7 DEF loop
<1>8. CASE Tick
  <2>1. now' \in 0..MaxTime
      BY <1>8, UDPBoundsAssumption DEF Tick
  <2> QED
      BY <1>8, <2>1 DEF Tick
<1>9. CASE UNCHANGED vars
    BY <1>9 DEF vars
<1> QED
    BY <1>1, <1>2, <1>3, <1>4, <1>5, <1>6, <1>7, <1>8, <1>9 DEF Next

(* In netsim_udp a datagram that waits for an impulse response always has  *)
(* an unanswered request for its pair, for every number of modems,         *)
(* datagrams and responses, also those other programs asked for.           *)
THEOREM NothingOrphaned == Spec => []NeverOrphaned
<1>1. Inv => NeverOrphaned
    BY DEF Inv
<1> QED
    BY InitInv, NextInv, <1>1, PTL DEF Spec

-----------------------------------------------------------------------------
(* Where a datagram is, and in which order *)

Packets == [msg : Ids, src : Modems, dest : Modems, time : Stamps, due : Int,
            owtt : Int, rays : RayTraces]

Published == [io_msg : Packets, at : 0..MaxTime]

Key(io) == <<io.msg, io.src, io.dest>>

SamePair(x, y) == x.src = y.src /\ x.dest = y.dest

Loud(rays, r) == \A q \in Range(rays) : q.amp * q.amp <= r.amp * r.amp

\* The travel time is that of a ray no other is louder than, if one is audible.
Arrival(rays, owtt) ==
    (\E r \in Range(rays) : r.amp # 0)
        => \E r \in Range(rays), o \in Outliers : Loud(rays, r) /\ owtt = r.delay + o

Sound(io) == io.due = io.time + io.owtt /\ Arrival(io.rays, io.owtt)

Sorted(s) == \A i, j \in 1..Len(s) : i < j => s[i].due <= s[j].due

InOrder(x, y) ==
    SamePair(x, y) /\ x.owtt = y.owtt => x.msg < y.msg \/ x.time < y.time

Ordered(s) == \A i, j \in 1..Len(s) : i < j => InOrder(s[i], s[j])

NoneTwice(s) == \A i, j \in 1..Len(s) : Key(s[i]) = Key(s[j]) => i = j

\* An element of a pair is older than a datagram of the pair that still waits.
Older(x, w) == x.msg < w.msg

OfPair(x, p) == x.src = p[1] /\ x.dest = p[2]

Holds(s, k) == \E i \in 1..Len(s) : Key(s[i]) = k

\* The contents of udp_out without the time of publication.
Sent(o) == [i \in 1..Len(o) |-> o[i].io_msg]

WaitsFor(k) ==
    \E i \in 1..Len(forward_buffer_[<<k[2], k[3]>>]) :
        forward_buffer_[<<k[2], k[3]>>][i].msg = k[1]

BufferTypes ==
    /\ delay_buffer_ \in Seq(Packets)
    /\ udp_out \in Seq(Published)

\* Datagrams of a pair wait in the order in which they came.
Queued ==
    \A p \in Pairs :
        LET w == forward_buffer_[p]
        IN  /\ \A i \in 1..Len(w) : w[i].msg < received
            /\ \A i, j \in 1..Len(w) : i < j => Older(w[i], w[j])

\* delay_buffer_ is a multimap, of one key for each datagram.
Buffered ==
    /\ Sorted(delay_buffer_) /\ Ordered(delay_buffer_) /\ NoneTwice(delay_buffer_)
    /\ \A i \in 1..Len(delay_buffer_) : Sound(delay_buffer_[i])

\* What is published left in order, not before its time and not twice.
Left ==
    /\ Ordered(Sent(udp_out)) /\ NoneTwice(Sent(udp_out))
    /\ \A i \in 1..Len(udp_out) :
          Sound(udp_out[i].io_msg) /\ udp_out[i].io_msg.due <= udp_out[i].at

\* A datagram further on came before those behind it.
Follows ==
    /\ \A i \in 1..Len(udp_out), j \in 1..Len(delay_buffer_) :
          InOrder(udp_out[i].io_msg, delay_buffer_[j])
    /\ \A p \in Pairs : \A j \in 1..Len(forward_buffer_[p]) :
          /\ \A i \in 1..Len(delay_buffer_) :
                OfPair(delay_buffer_[i], p)
                    => Older(delay_buffer_[i], forward_buffer_[p][j])
          /\ \A i \in 1..Len(udp_out) :
                OfPair(udp_out[i].io_msg, p)
                    => Older(udp_out[i].io_msg, forward_buffer_[p][j])

Keys == Ids \X Modems \X Modems

\* A datagram k is in exactly one place if it has been accepted, else in none.
OnePlace(k) ==
    /\ k \in accepted <=>
          \/ WaitsFor(k) \/ Holds(delay_buffer_, k) \/ Holds(Sent(udp_out), k)
          \/ k \in dropped \/ k \in discarded
    /\ ~(WaitsFor(k) /\ (\/ Holds(delay_buffer_, k) \/ Holds(Sent(udp_out), k)
                         \/ k \in dropped \/ k \in discarded))
    /\ ~(Holds(delay_buffer_, k) /\ (\/ Holds(Sent(udp_out), k)
                                     \/ k \in dropped \/ k \in discarded))
    /\ ~(Holds(Sent(udp_out), k) /\ (k \in dropped \/ k \in discarded))
    /\ ~(k \in dropped /\ k \in discarded)

Places ==
    /\ accepted \subseteq Keys
    /\ \A k \in accepted : k[1] < received
    /\ \A k \in Keys : OnePlace(k)

ChannelInv ==
    /\ BufferTypes
    /\ Queued
    /\ Buffered
    /\ Left
    /\ Follows
    /\ Places
-----------------------------------------------------------------------------
(* The multimap *)

(* A set of numbers that is not empty has a least one.                     *)
LEMMA Least ==
    ASSUME NEW T, T \subseteq Nat, T # {}
    PROVE  \E x \in T : \A y \in T : x <= y
<1>1. PICK R : IsWellFoundedOn(R, Nat) /\ \A a, b \in Nat : <<a, b>> \in R <=> a < b
  <2>1. IsWellFoundedOn(OpToRel(<, Nat), Nat)
    BY NatLessThanWellFounded
  <2>2. \A a, b \in Nat : <<a, b>> \in OpToRel(<, Nat) <=> a < b
    BY DEF OpToRel
  <2> QED BY <2>1, <2>2, Zenon
<1>2. PICK x \in T : \A y \in T : ~(<<y, x>> \in R)
  <2>1. IsWellFoundedOn(R, Nat)
    BY <1>1
  <2> QED BY <2>1, WFMin
<1>3. ASSUME NEW y \in T PROVE x <= y
  <2>1. y \in Nat /\ x \in Nat /\ ~(y < x)
    BY <1>1, <1>2
  <2> QED BY <2>1
<1> QED BY <1>3

(* A set that holds 0 and, with a number below a bound, the next one.      *)
LEMMA UpTo ==
    ASSUME NEW S, NEW bound \in Nat, 0 \in S,
           \A n \in 0..(bound - 1) : n \in S => n + 1 \in S
    PROVE  0..bound \subseteq S
<1> SUFFICES ASSUME (0..bound) \ S # {} PROVE FALSE
  OBVIOUS
<1> DEFINE T == (0..bound) \ S
<1>1. T \subseteq Nat /\ T # {}
  OBVIOUS
<1> HIDE DEF T
<1>2. PICK x \in T : \A y \in T : x <= y
  BY <1>1, Least
<1>3. x \in 0..bound /\ x \notin S /\ x # 0 /\ x \in Nat
  BY DEF T
<1>4. x - 1 \in 0..(bound - 1) /\ x - 1 \notin T
  BY <1>1, <1>2, <1>3
<1>5. x - 1 \in S
  BY <1>4 DEF T
<1>6. (x - 1) + 1 \in S
  BY <1>4, <1>5
<1> QED BY <1>3, <1>6

(* In a sorted buffer the elements that are not behind a key come first.   *)
LEMMA UpperBound ==
    ASSUME NEW s \in Seq(Packets), Sorted(s), NEW key \in Int
    PROVE  /\ upper_bound(s, key) \in 0..Len(s)
           /\ \A i \in 1..Len(s) : s[i].due <= key <=> i <= upper_bound(s, key)
<1> DEFINE Behind == {i \in 1..Len(s) : key < s[i].due}
<1>0. /\ Len(s) \in Nat /\ DOMAIN s = 1..Len(s)
      /\ \A i \in 1..Len(s) : s[i].due \in Int
  <2>1. \A i \in 1..Len(s) : s[i] \in Packets
    BY ElementOfSeq
  <2> QED BY <2>1 DEF Packets
<1>1. \E n \in 0..Len(s) : \A i \in DOMAIN s : s[i].due <= key <=> i <= n
  <2>1. CASE Behind = {}
    <3>1. \A i \in DOMAIN s : s[i].due <= key <=> i <= Len(s)
      BY <1>0, <2>1
    <3> QED BY <1>0, <3>1
  <2>2. CASE Behind # {}
    <3>1. Behind \subseteq Nat
      BY <1>0
    <3> HIDE DEF Behind
    <3>2. PICK x \in Behind : \A y \in Behind : x <= y
      BY <2>2, <3>1, Least
    <3>3. x \in 1..Len(s) /\ key < s[x].due
      BY DEF Behind
    <3>4. \A i \in DOMAIN s : s[i].due <= key <=> i <= x - 1
      <4> SUFFICES ASSUME NEW i \in 1..Len(s) PROVE s[i].due <= key <=> i <= x - 1
        BY <1>0
      <4>1. CASE i < x
        <5>1. i \notin Behind
          BY <3>2, <3>3, <4>1
        <5> QED BY <1>0, <3>3, <4>1, <5>1 DEF Behind
      <4>2. CASE ~(i < x)
        <5>1. s[x].due <= s[i].due
          BY <1>0, <3>3, <4>2 DEF Sorted
        <5> QED BY <1>0, <3>3, <4>2, <5>1
      <4> QED BY <4>1, <4>2
    <3>5. x - 1 \in 0..Len(s)
      BY <1>0, <3>3
    <3> QED BY <3>4, <3>5
  <2> QED BY <2>1, <2>2
<1>2. /\ upper_bound(s, key) \in 0..Len(s)
      /\ \A i \in DOMAIN s : s[i].due <= key <=> i <= upper_bound(s, key)
  BY <1>1, Zenon DEF upper_bound
<1> QED BY <1>0, <1>2, Zenon

\* t is s with e between its first n elements and the others.
Inserted(s, t, e, n) ==
    /\ t \in Seq(Packets) /\ Len(t) = Len(s) + 1
    /\ t[n + 1] = e
    /\ \A i \in 1..n : t[i] = s[i]
    /\ \A i \in (n + 2)..Len(t) : t[i] = s[i - 1]

LEMMA InsertAtShape ==
    ASSUME NEW s \in Seq(Packets), NEW e \in Packets, NEW n \in 0..Len(s)
    PROVE  Inserted(s, InsertAt(s, n + 1, e), e, n)
<1> DEFINE a == SubSeq(s, 1, n)
           b == SubSeq(s, n + 1, Len(s))
           t == (a \o <<e>>) \o b
<1>0. Len(s) \in Nat /\ n \in Nat /\ n <= Len(s) /\ (n + 1) - 1 = n
  OBVIOUS
<1>1. /\ a \in Seq(Packets) /\ Len(a) = n
      /\ \A i \in 1..n : a[i] = s[i]
  BY <1>0
<1>2. /\ b \in Seq(Packets) /\ Len(b) = Len(s) - n
      /\ \A i \in 1..(Len(s) - n) : b[i] = s[n + i]
  BY <1>0
<1>3. InsertAt(s, n + 1, e) = t
  BY <1>0, Zenon DEF InsertAt
<1> HIDE DEF a, b
<1> DEFINE c == a \o <<e>>
<1>4. /\ c \in Seq(Packets) /\ Len(c) = n + 1
      /\ \A i \in 1..n : c[i] = s[i]
      /\ c[n + 1] = e
  BY <1>0, <1>1
<1> HIDE DEF c
<1>5. /\ t \in Seq(Packets) /\ Len(t) = Len(s) + 1
      /\ \A i \in 1..(n + 1) : t[i] = c[i]
      /\ \A i \in (n + 2)..Len(t) : t[i] = b[i - (n + 1)]
  <2>1. t = c \o b
    BY DEF c
  <2> HIDE DEF t
  <2>2. /\ t \in Seq(Packets) /\ Len(t) = Len(c) + Len(b)
        /\ \A i \in 1..(Len(c) + Len(b)) :
              t[i] = IF i <= Len(c) THEN c[i] ELSE b[i - Len(c)]
    BY <1>2, <1>4, <2>1, ConcatProperties
  <2>3. Len(t) = Len(s) + 1
    BY <1>0, <1>2, <1>4, <2>2
  <2>4. \A i \in 1..(n + 1) : t[i] = c[i]
    BY <1>0, <1>2, <1>4, <2>2, <2>3
  <2>5. \A i \in (n + 2)..Len(t) : t[i] = b[i - (n + 1)]
    BY <1>0, <1>2, <1>4, <2>2, <2>3
  <2> QED BY <2>2, <2>3, <2>4, <2>5
<1> HIDE DEF t
<1>6. \A i \in (n + 2)..Len(t) : t[i] = s[i - 1]
  <2> SUFFICES ASSUME NEW i \in (n + 2)..Len(t) PROVE t[i] = s[i - 1]
    OBVIOUS
  <2>1. i - (n + 1) \in 1..(Len(s) - n) /\ n + (i - (n + 1)) = i - 1
    BY <1>0, <1>5
  <2> QED BY <1>2, <1>5, <2>1
<1>7. t[n + 1] = e /\ \A i \in 1..n : t[i] = s[i]
  BY <1>0, <1>4, <1>5
<1> QED BY <1>3, <1>5, <1>6, <1>7 DEF Inserted

\* Everything that is to hold of a buffer by itself.
Proper(s) ==
    /\ s \in Seq(Packets)
    /\ Sorted(s) /\ Ordered(s) /\ NoneTwice(s)
    /\ \A i \in 1..Len(s) : Sound(s[i])

LEMMA PacketTypes ==
    ASSUME NEW x \in Packets, Sound(x)
    PROVE  /\ x.due \in Int /\ x.time \in Int /\ x.owtt \in Int /\ x.msg \in Int
           /\ x.due = x.time + x.owtt
<1>1. x.due \in Int /\ x.owtt \in Int /\ x.time \in Int
  BY StampsAssumption DEF Packets
<1>2. x.msg \in Int
  BY UDPBoundsAssumption DEF Packets, Ids
<1> QED BY <1>1, <1>2 DEF Sound

(* An insertion moves elements, adds one and loses none.                   *)
LEMMA InsertElements ==
    ASSUME NEW s \in Seq(Packets), NEW e \in Packets, NEW n \in 0..Len(s), NEW t,
           Inserted(s, t, e, n)
    PROVE  /\ \A i \in 1..Len(t) : t[i] = e \/ \E j \in 1..Len(s) : t[i] = s[j]
           /\ \A j \in 1..Len(s) : \E i \in 1..Len(t) : t[i] = s[j]
           /\ \E i \in 1..Len(t) : t[i] = e
<1>0. Len(s) \in Nat /\ n \in 0..Len(s) /\ Len(t) = Len(s) + 1
  BY DEF Inserted
<1>1. ASSUME NEW i \in 1..Len(t)
      PROVE  t[i] = e \/ \E j \in 1..Len(s) : t[i] = s[j]
  <2>1. CASE i <= n
    <3>1. i \in 1..Len(s) /\ t[i] = s[i]
      BY <1>0, <2>1 DEF Inserted
    <3> QED BY <3>1
  <2>2. CASE i = n + 1
    BY <2>2 DEF Inserted
  <2>3. CASE i > n + 1
    <3>1. i - 1 \in 1..Len(s) /\ t[i] = s[i - 1]
      BY <1>0, <2>3 DEF Inserted
    <3> QED BY <3>1
  <2> QED BY <1>0, <2>1, <2>2, <2>3
<1>2. ASSUME NEW j \in 1..Len(s) PROVE \E i \in 1..Len(t) : t[i] = s[j]
  <2>1. CASE j <= n
    <3>1. j \in 1..Len(t) /\ t[j] = s[j]
      BY <1>0, <2>1 DEF Inserted
    <3> QED BY <3>1
  <2>2. CASE j > n
    <3>1. /\ j + 1 \in 1..Len(t) /\ j + 1 \in (n + 2)..Len(t)
          /\ (j + 1) - 1 = j
      BY <1>0, <2>2
    <3>2. t[j + 1] = s[j]
      BY <3>1 DEF Inserted
    <3> QED BY <3>1, <3>2
  <2> QED BY <1>0, <2>1, <2>2
<1>3. \E i \in 1..Len(t) : t[i] = e
  <2>1. n + 1 \in 1..Len(t) /\ t[n + 1] = e
    BY <1>0 DEF Inserted
  <2> QED BY <2>1
<1> QED BY <1>1, <1>2, <1>3

\* Two positions of t hold two elements of s in the same order, or one is e.
LEMMA InsertPositions ==
    ASSUME NEW s \in Seq(Packets), NEW e \in Packets, NEW n \in 0..Len(s), NEW t,
           Inserted(s, t, e, n), NEW i \in 1..Len(t), NEW j \in 1..Len(t), i < j
    PROVE  \/ \E a, b \in 1..Len(s) : a < b /\ t[i] = s[a] /\ t[j] = s[b]
           \/ \E a \in 1..n : t[i] = s[a] /\ t[j] = e
           \/ \E b \in (n + 1)..Len(s) : t[i] = e /\ t[j] = s[b]
<1>0. Len(s) \in Nat /\ n \in 0..Len(s) /\ Len(t) = Len(s) + 1
  BY DEF Inserted
<1>1. CASE j <= n
  <2>1. i \in 1..Len(s) /\ j \in 1..Len(s) /\ t[i] = s[i] /\ t[j] = s[j]
    BY <1>0, <1>1 DEF Inserted
  <2> QED BY <2>1
<1>2. CASE j = n + 1
  <2>1. i \in 1..n /\ t[i] = s[i] /\ t[j] = e
    BY <1>0, <1>2 DEF Inserted
  <2> QED BY <2>1
<1>3. CASE j > n + 1
  <2>1. j - 1 \in (n + 1)..Len(s) /\ j - 1 \in 1..Len(s) /\ t[j] = s[j - 1]
    BY <1>0, <1>3 DEF Inserted
  <2>2. CASE i <= n
    <3>1. i \in 1..Len(s) /\ t[i] = s[i] /\ i < j - 1
      BY <1>0, <1>3, <2>2 DEF Inserted
    <3> QED BY <2>1, <3>1
  <2>3. CASE i = n + 1
    <3>1. t[i] = e
      BY <2>3 DEF Inserted
    <3> QED BY <2>1, <3>1
  <2>4. CASE i > n + 1
    <3>1. i - 1 \in 1..Len(s) /\ t[i] = s[i - 1] /\ i - 1 < j - 1
      BY <1>0, <2>4 DEF Inserted
    <3> QED BY <2>1, <3>1
  <2> QED BY <1>0, <2>2, <2>3, <2>4
<1> QED BY <1>0, <1>1, <1>2, <1>3

(* A datagram that is newer than those of its pair in the buffer leaves    *)
(* after them if it travels as long, and the buffer stays a multimap.      *)
LEMMA InsertKeeps ==
    ASSUME NEW s, Proper(s), NEW e \in Packets, Sound(e),
           \A i \in 1..Len(s) : SamePair(s[i], e) => Older(s[i], e)
    PROVE  /\ Proper(Insert(s, e))
           /\ \A k : Holds(Insert(s, e), k) <=> Holds(s, k) \/ k = Key(e)
           /\ \A i \in 1..Len(Insert(s, e)) :
                 Insert(s, e)[i] = e \/ \E j \in 1..Len(s) : Insert(s, e)[i] = s[j]
<1> DEFINE n == upper_bound(s, e.due)
           t == Insert(s, e)
<1>0. /\ s \in Seq(Packets) /\ Sorted(s) /\ Ordered(s) /\ NoneTwice(s)
      /\ \A i \in 1..Len(s) : Sound(s[i])
      /\ Len(s) \in Nat
  BY DEF Proper
<1>1. /\ e.due \in Int /\ e.time \in Int /\ e.owtt \in Int /\ e.msg \in Int
      /\ e.due = e.time + e.owtt
  BY PacketTypes
<1>2. \A i \in 1..Len(s) :
         /\ s[i].due \in Int /\ s[i].time \in Int /\ s[i].owtt \in Int /\ s[i].msg \in Int
         /\ s[i].due = s[i].time + s[i].owtt
  <2> SUFFICES ASSUME NEW i \in 1..Len(s), NEW x, x = s[i]
               PROVE  /\ x.due \in Int /\ x.time \in Int /\ x.owtt \in Int /\ x.msg \in Int
                      /\ x.due = x.time + x.owtt
    OBVIOUS
  <2>1. x \in Packets /\ Sound(x)
    BY <1>0, ElementOfSeq
  <2> QED BY <2>1, PacketTypes
<1>3. n \in 0..Len(s) /\ \A i \in 1..Len(s) : s[i].due <= e.due <=> i <= n
  BY <1>0, <1>1, UpperBound
<1>4. Inserted(s, t, e, n)
  <2> HIDE DEF n
  <2>1. Inserted(s, InsertAt(s, n + 1, e), e, n)
    BY <1>0, <1>3, InsertAtShape
  <2>2. t = InsertAt(s, n + 1, e)
    BY Zenon DEF Insert, n
  <2> HIDE DEF t
  <2> QED BY <2>1, <2>2
<1> HIDE DEF n, t
<1>5. /\ \A i \in 1..Len(t) : t[i] = e \/ \E j \in 1..Len(s) : t[i] = s[j]
      /\ \A j \in 1..Len(s) : \E i \in 1..Len(t) : t[i] = s[j]
      /\ \E i \in 1..Len(t) : t[i] = e
  BY <1>0, <1>3, <1>4, InsertElements
<1>6. ASSUME NEW i \in 1..Len(t), NEW j \in 1..Len(t), i < j
      PROVE  /\ t[i].due <= t[j].due
             /\ InOrder(t[i], t[j])
             /\ Key(t[i]) # Key(t[j])
  <2>1. \/ \E a, b \in 1..Len(s) : a < b /\ t[i] = s[a] /\ t[j] = s[b]
        \/ \E a \in 1..n : t[i] = s[a] /\ t[j] = e
        \/ \E b \in (n + 1)..Len(s) : t[i] = e /\ t[j] = s[b]
    BY <1>0, <1>3, <1>4, <1>6, InsertPositions
  <2>2. CASE \E a, b \in 1..Len(s) : a < b /\ t[i] = s[a] /\ t[j] = s[b]
    <3>1. PICK a, b \in 1..Len(s) : a < b /\ t[i] = s[a] /\ t[j] = s[b]
      BY <2>2
    <3>2. s[a].due <= s[b].due /\ InOrder(s[a], s[b])
      BY <1>0, <3>1 DEF Sorted, Ordered
    <3>3. Key(s[a]) # Key(s[b])
      BY <1>0, <3>1 DEF NoneTwice
    <3> QED BY <3>1, <3>2, <3>3
  <2>3. CASE \E a \in 1..n : t[i] = s[a] /\ t[j] = e
    <3>1. PICK a \in 1..n : t[i] = s[a] /\ t[j] = e
      BY <2>3
    <3>2. a \in 1..Len(s) /\ s[a].due <= e.due
      BY <1>0, <1>3
    <3>3. SamePair(s[a], e) => s[a].msg < e.msg
      BY <3>2 DEF Older
    <3>4. Key(s[a]) = Key(e) => SamePair(s[a], e) /\ s[a].msg = e.msg
      BY DEF Key, SamePair
    <3> QED BY <1>1, <1>2, <3>1, <3>2, <3>3, <3>4 DEF InOrder
  <2>4. CASE \E b \in (n + 1)..Len(s) : t[i] = e /\ t[j] = s[b]
    <3>1. PICK b \in (n + 1)..Len(s) : t[i] = e /\ t[j] = s[b]
      BY <2>4
    <3>2. b \in 1..Len(s) /\ ~(s[b].due <= e.due)
      BY <1>0, <1>3
    <3>3. SamePair(s[b], e) => s[b].msg < e.msg
      BY <3>2 DEF Older
    <3>4. Key(s[b]) = Key(e) => SamePair(s[b], e) /\ s[b].msg = e.msg
      BY DEF Key, SamePair
    <3>5. SamePair(e, s[b]) => SamePair(s[b], e)
      BY DEF SamePair
    <3>6. /\ s[b].due \in Int /\ s[b].time \in Int /\ s[b].owtt \in Int /\ s[b].msg \in Int
          /\ s[b].due = s[b].time + s[b].owtt
      BY <1>2, <3>2
    <3>7. e.due <= s[b].due
      BY <1>1, <3>2, <3>6
    <3>8. e.owtt = s[b].owtt => e.time < s[b].time
      BY <1>1, <3>2, <3>6
    <3>9. InOrder(e, s[b])
      BY <3>8, Zenon DEF InOrder
    <3>10. s[b].msg < e.msg => s[b].msg # e.msg
      BY <1>1, <3>6
    <3>11. Key(e) # Key(s[b])
      BY <3>3, <3>4, <3>10
    <3> QED BY <3>1, <3>7, <3>9, <3>11
  <2> QED BY <2>1, <2>2, <2>3, <2>4
<1>7. t \in Seq(Packets) /\ Len(t) \in Nat
  BY <1>0, <1>4 DEF Inserted
<1>8. Sorted(t) /\ Ordered(t)
  BY <1>6 DEF Sorted, Ordered
<1>9. NoneTwice(t)
  <2> SUFFICES ASSUME NEW i \in 1..Len(t), NEW j \in 1..Len(t), Key(t[i]) = Key(t[j])
               PROVE  i = j
    BY DEF NoneTwice
  <2>1. ~(i < j) /\ ~(j < i)
    BY <1>6
  <2> QED BY <1>7, <2>1
<1>10. \A i \in 1..Len(t) : Sound(t[i])
  BY <1>0, <1>5
<1>11. \A k : Holds(t, k) <=> Holds(s, k) \/ k = Key(e)
  <2> SUFFICES ASSUME NEW k PROVE Holds(t, k) <=> Holds(s, k) \/ k = Key(e)
    OBVIOUS
  <2>1. ASSUME Holds(t, k) PROVE Holds(s, k) \/ k = Key(e)
    BY <1>5, <2>1, Zenon DEF Holds
  <2>2. ASSUME Holds(s, k) PROVE Holds(t, k)
    BY <1>5, <2>2, Zenon DEF Holds
  <2>3. ASSUME k = Key(e) PROVE Holds(t, k)
    BY <1>5, <2>3, Zenon DEF Holds
  <2> QED BY <2>1, <2>2, <2>3
<1>12. Proper(t)
  BY <1>7, <1>8, <1>9, <1>10 DEF Proper
<1>13. t = Insert(s, e)
  BY DEF t
<1> QED BY <1>5, <1>11, <1>12, <1>13, Zenon

-----------------------------------------------------------------------------
(* The loop over the waiting datagrams *)

\* One turn of the loop.
Turn(b, w, p, owtt, ok, rays) == IF ok THEN Insert(b, Delayed(p, w, owtt, rays)) ELSE b

\* The buffers after the first m turns.
Turns(g, m, b, waiting, p, owtt, success, rays) ==
    /\ g = [i \in 0..m |-> g[i]]
    /\ g[0] = b
    /\ \A i \in 1..m : g[i] = Turn(g[i - 1], waiting[i], p, owtt, success[i], rays)

LEMMA TurnsExist ==
    ASSUME NEW b, NEW waiting, NEW p, NEW owtt, NEW success, NEW rays, NEW bound \in Nat
    PROVE  \E g : Turns(g, bound, b, waiting, p, owtt, success, rays)
<1> DEFINE S == {m \in 0..bound : \E g : Turns(g, m, b, waiting, p, owtt, success, rays)}
<1>1. 0 \in S
  <2> DEFINE g == [i \in 0..0 |-> b]
  <2>1. Turns(g, 0, b, waiting, p, owtt, success, rays)
    BY DEF Turns
  <2> HIDE DEF g
  <2> QED BY <2>1
<1>2. ASSUME NEW n \in 0..(bound - 1), n \in S PROVE n + 1 \in S
  <2>1. PICK g : Turns(g, n, b, waiting, p, owtt, success, rays)
    BY <1>2
  <2> DEFINE new == Turn(g[n], waiting[n + 1], p, owtt, success[n + 1], rays)
             h == [i \in 0..(n + 1) |-> IF i = n + 1 THEN new ELSE g[i]]
  <2>2. n \in Nat /\ n + 1 \in 0..bound
    OBVIOUS
  <2> HIDE DEF new
  <2>3. /\ h = [i \in 0..(n + 1) |-> h[i]]
        /\ h[n + 1] = new
        /\ \A i \in 0..n : h[i] = g[i]
    BY <2>2
  <2> HIDE DEF h
  <2>4. h[0] = b
    <3>1. g[0] = b
      BY <2>1, Zenon DEF Turns
    <3> QED BY <2>2, <2>3, <3>1
  <2>5. ASSUME NEW i \in 1..(n + 1)
        PROVE  h[i] = Turn(h[i - 1], waiting[i], p, owtt, success[i], rays)
    <3>1. CASE i = n + 1
      <4>1. i - 1 = n /\ n \in 0..n
        BY <2>2, <3>1
      <4> QED BY <2>3, <3>1, <4>1 DEF new
    <3>2. CASE i # n + 1
      <4>1. i \in 1..n /\ i \in 0..n /\ i - 1 \in 0..n
        BY <2>2, <3>2
      <4>2. g[i] = Turn(g[i - 1], waiting[i], p, owtt, success[i], rays)
        BY <2>1, <4>1 DEF Turns
      <4> QED BY <2>3, <4>1, <4>2
    <3> QED BY <3>1, <3>2
  <2>6. Turns(h, n + 1, b, waiting, p, owtt, success, rays)
    BY <2>3, <2>4, <2>5 DEF Turns
  <2> QED BY <2>2, <2>6
<1> HIDE DEF S
<1>3. 0..bound \subseteq S
  BY <1>1, <1>2, UpTo
<1>4. bound \in S
  BY <1>3
<1> QED BY <1>4 DEF S

(* Entered is the buffer after the last turn.                              *)
LEMMA EnteredByTurns ==
    ASSUME NEW b, NEW waiting, NEW p, NEW owtt, NEW success, NEW rays, Len(waiting) \in Nat
    PROVE  \E g : /\ Turns(g, Len(waiting), b, waiting, p, owtt, success, rays)
                  /\ Entered(b, waiting, p, owtt, success, rays) = g[Len(waiting)]
<1> DEFINE n == Len(waiting)
           body(g, i) == IF i = 0 THEN b
                         ELSE IF success[i]
                         THEN Insert(g[i - 1], Delayed(p, waiting[i], owtt, rays))
                         ELSE g[i - 1]
           f == CHOOSE g : g = [i \in 0..n |-> body(g, i)]
<1>1. Entered(b, waiting, p, owtt, success, rays) = f[n]
  BY Zenon DEF Entered
<1>2. ASSUME NEW g
      PROVE  g = [i \in 0..n |-> body(g, i)]
                <=> Turns(g, n, b, waiting, p, owtt, success, rays)
  <2>1. ASSUME NEW i \in 1..n
        PROVE  body(g, i) = Turn(g[i - 1], waiting[i], p, owtt, success[i], rays)
    <3>1. i # 0
      OBVIOUS
    <3> QED BY <3>1, Zenon DEF Turn
  <2>2. body(g, 0) = b
    OBVIOUS
  <2>3. \A i \in 0..n : i = 0 \/ i \in 1..n
    OBVIOUS
  <2>4. 0 \in 0..n /\ \A i \in 1..n : i \in 0..n
    OBVIOUS
  <2> HIDE DEF body
  <2>5. ASSUME g = [i \in 0..n |-> body(g, i)]
        PROVE  Turns(g, n, b, waiting, p, owtt, success, rays)
    <3>1. \A i \in 0..n : g[i] = body(g, i)
      BY <2>5, Zenon
    <3>2. g = [i \in 0..n |-> g[i]]
      BY <2>5
    <3>3. g[0] = b
      BY <2>2, <2>4, <3>1
    <3>4. \A i \in 1..n : g[i] = Turn(g[i - 1], waiting[i], p, owtt, success[i], rays)
      BY <2>1, <2>4, <3>1
    <3> HIDE DEF n
    <3> QED BY <3>2, <3>3, <3>4 DEF Turns
  <2>6. ASSUME Turns(g, n, b, waiting, p, owtt, success, rays)
        PROVE  g = [i \in 0..n |-> body(g, i)]
    <3>1. g = [i \in 0..n |-> g[i]]
      BY <2>6 DEF Turns
    <3>2. \A i \in 0..n : g[i] = body(g, i)
      BY <2>1, <2>2, <2>3, <2>6 DEF Turns
    <3> QED BY <3>1, <3>2
  <2> QED BY <2>5, <2>6
<1> HIDE DEF n, body
<1>3. PICK g : Turns(g, n, b, waiting, p, owtt, success, rays)
  BY TurnsExist DEF n
<1>4. \E h : h = [i \in 0..n |-> body(h, i)]
  BY <1>2, <1>3
<1>5. f = [i \in 0..n |-> body(f, i)]
  BY <1>4, Zenon
<1> HIDE DEF f
<1>6. Turns(f, n, b, waiting, p, owtt, success, rays)
  BY <1>2, <1>5
<1> QED BY <1>1, <1>6 DEF n

\* Datagrams that are waiting in the order in which they came.
InLine(waiting) ==
    /\ waiting \in Seq(Waiting)
    /\ \A i, j \in 1..Len(waiting) : i < j => Older(waiting[i], waiting[j])

\* What of the pair is in the buffer is older than a datagram that waits.
Ahead(s, p, w) == \A i \in 1..Len(s) : OfPair(s[i], p) => Older(s[i], w)

WaitingKey(w, p) == <<w.msg, p[1], p[2]>>

\* The buffer t with those of the first m datagrams that have won.
Taken(t, m, b, waiting, p, success, owtt, rays) ==
    /\ Proper(t)
    /\ \A k : Holds(t, k) <=>
          \/ Holds(b, k)
          \/ \E i \in 1..m : success[i] /\ k = WaitingKey(waiting[i], p)
    /\ \A i \in 1..Len(t) :
          \/ \E j \in 1..Len(b) : t[i] = b[j]
          \/ \E j \in 1..m : t[i] = Delayed(p, waiting[j], owtt, rays)

LEMMA DelayedPacket ==
    ASSUME NEW p \in Pairs, NEW w \in Waiting, NEW owtt \in Int, NEW rays \in RayTraces,
           Arrival(rays, owtt)
    PROVE  /\ Delayed(p, w, owtt, rays) \in Packets
           /\ Sound(Delayed(p, w, owtt, rays))
           /\ Key(Delayed(p, w, owtt, rays)) = WaitingKey(w, p)
           /\ OfPair(Delayed(p, w, owtt, rays), p)
<1>1. /\ p[1] \in Modems /\ p[2] \in Modems
      /\ w.msg \in Ids /\ w.time \in Stamps
      /\ w.time + owtt \in Int
  <2>1. w.msg \in Ids /\ w.time \in Stamps
    BY DEF Waiting
  <2>2. w.time \in Int
    BY <2>1, StampsAssumption
  <2> QED BY <2>1, <2>2 DEF Pairs
<1>2. Delayed(p, w, owtt, rays) \in Packets
  BY <1>1 DEF Delayed, Packets
<1>3. Sound(Delayed(p, w, owtt, rays))
  BY DEF Sound, Delayed
<1> QED BY <1>2, <1>3 DEF Delayed, Key, WaitingKey, OfPair

(* The loop takes the winners into the buffer, which stays in order.       *)
LEMMA EnteredTakes ==
    ASSUME NEW b, Proper(b), NEW waiting, InLine(waiting), NEW p \in Pairs,
           NEW owtt \in Int, NEW rays \in RayTraces, Arrival(rays, owtt), NEW success,
           \A j \in 1..Len(waiting) : Ahead(b, p, waiting[j])
    PROVE  Taken(Entered(b, waiting, p, owtt, success, rays), Len(waiting), b, waiting,
                 p, success, owtt, rays)
<1>0. /\ Len(waiting) \in Nat
      /\ \A i \in 1..Len(waiting) : waiting[i] \in Waiting
  BY ElementOfSeq DEF InLine
<1>1. PICK g : /\ Turns(g, Len(waiting), b, waiting, p, owtt, success, rays)
               /\ Entered(b, waiting, p, owtt, success, rays) = g[Len(waiting)]
  BY <1>0, EnteredByTurns
<1> DEFINE S == {m \in 0..Len(waiting) :
                    Taken(g[m], m, b, waiting, p, success, owtt, rays)}
<1>2. 0 \in S
  <2>1. g[0] = b /\ 0 \in 0..Len(waiting) /\ 1..0 = {}
    BY <1>0, <1>1 DEF Turns
  <2>2. Taken(b, 0, b, waiting, p, success, owtt, rays)
    BY <2>1 DEF Taken
  <2> QED BY <2>1, <2>2
<1>3. ASSUME NEW n \in 0..(Len(waiting) - 1), n \in S PROVE n + 1 \in S
  <2> DEFINE s == g[n]
             t == g[n + 1]
             w == waiting[n + 1]
             e == Delayed(p, w, owtt, rays)
  <2>1. /\ n \in Nat /\ n + 1 \in 1..Len(waiting) /\ n + 1 \in 0..Len(waiting)
        /\ (n + 1) - 1 = n
        /\ 1..n \subseteq 1..(n + 1) /\ n + 1 \in 1..(n + 1)
        /\ \A i \in 1..(n + 1) : i \in 1..n \/ i = n + 1
        /\ \A i \in 1..n : i \in 1..Len(waiting) /\ i < n + 1
    BY <1>0
  <2>2. Taken(s, n, b, waiting, p, success, owtt, rays)
    BY <1>3
  <2>3. t = Turn(s, w, p, owtt, success[n + 1], rays)
    BY <1>1, <2>1 DEF Turns
  <2>4. w \in Waiting
    BY <1>0, <2>1
  <2>5. /\ e \in Packets /\ Sound(e) /\ Key(e) = WaitingKey(w, p) /\ OfPair(e, p)
    BY <2>4, DelayedPacket
  <2>6. \A i \in 1..Len(s) : SamePair(s[i], e) => Older(s[i], e)
    <3> SUFFICES ASSUME NEW i \in 1..Len(s), SamePair(s[i], e) PROVE Older(s[i], e)
      OBVIOUS
    <3>1. OfPair(s[i], p)
      BY <2>5 DEF SamePair, OfPair
    <3>2. e.msg = w.msg
      BY DEF Delayed
    <3>3. CASE \E j \in 1..Len(b) : s[i] = b[j]
      <4>1. Older(s[i], w)
        BY <2>1, <3>1, <3>3 DEF Ahead
      <4> QED BY <3>2, <4>1 DEF Older
    <3>4. CASE \E j \in 1..n : s[i] = Delayed(p, waiting[j], owtt, rays)
      <4>1. PICK j \in 1..n : s[i] = Delayed(p, waiting[j], owtt, rays)
        BY <3>4
      <4>2. Older(waiting[j], w)
        BY <2>1 DEF InLine
      <4>3. s[i].msg = waiting[j].msg
        BY <4>1 DEF Delayed
      <4> QED BY <3>2, <4>2, <4>3 DEF Older
    <3> QED BY <2>2, <3>3, <3>4 DEF Taken
  <2> HIDE DEF s, t, w, e
  <2>7. CASE success[n + 1]
    <3>1. t = Insert(s, e)
      BY <2>3, <2>7, Zenon DEF Turn, e
    <3>2. Proper(s)
      BY <2>2, Zenon DEF Taken
    <3>3. /\ Proper(t)
          /\ \A k : Holds(t, k) <=> Holds(s, k) \/ k = Key(e)
          /\ \A i \in 1..Len(t) : t[i] = e \/ \E j \in 1..Len(s) : t[i] = s[j]
      <4>1. /\ Proper(Insert(s, e))
            /\ \A k : Holds(Insert(s, e), k) <=> Holds(s, k) \/ k = Key(e)
            /\ \A i \in 1..Len(Insert(s, e)) :
                 Insert(s, e)[i] = e \/ \E j \in 1..Len(s) : Insert(s, e)[i] = s[j]
        BY <2>5, <2>6, <3>2, InsertKeeps
      <4> QED BY <3>1, <4>1, Zenon
    <3>4. ASSUME NEW k
          PROVE  Holds(t, k) <=>
                   \/ Holds(b, k)
                   \/ \E i \in 1..(n + 1) : success[i] /\ k = WaitingKey(waiting[i], p)
      <4>1. Holds(s, k) <=> \/ Holds(b, k)
                            \/ \E i \in 1..n : success[i] /\ k = WaitingKey(waiting[i], p)
        BY <2>2, Zenon DEF Taken
      <4>2. Key(e) = WaitingKey(waiting[n + 1], p)
        BY <2>5 DEF w
      <4>3. Holds(t, k) <=> Holds(s, k) \/ k = Key(e)
        BY <3>3, Zenon
      <4> QED BY <2>1, <2>7, <4>1, <4>2, <4>3, Zenon
    <3>5. ASSUME NEW i \in 1..Len(t)
          PROVE  \/ \E j \in 1..Len(b) : t[i] = b[j]
                 \/ \E j \in 1..(n + 1) : t[i] = Delayed(p, waiting[j], owtt, rays)
      <4>1. CASE t[i] = e
        BY <2>1, <4>1, Zenon DEF e, w
      <4>2. CASE \E j \in 1..Len(s) : t[i] = s[j]
        BY <2>1, <2>2, <4>2, Zenon DEF Taken
      <4> QED BY <3>3, <4>1, <4>2
    <3>6. Taken(t, n + 1, b, waiting, p, success, owtt, rays)
      BY <3>3, <3>4, <3>5, Zenon DEF Taken
    <3> QED BY <2>1, <3>6 DEF t
  <2>8. CASE ~success[n + 1]
    <3>1. t = s
      BY <2>3, <2>8, Zenon DEF Turn
    <3>2. Taken(s, n + 1, b, waiting, p, success, owtt, rays)
      BY <2>1, <2>2, <2>8, Zenon DEF Taken
    <3> QED BY <2>1, <3>1, <3>2 DEF t
  <2> QED BY <2>7, <2>8
<1> HIDE DEF S
<1>4. 0..Len(waiting) \subseteq S
  BY <1>0, <1>2, <1>3, UpTo
<1>5. Len(waiting) \in S
  BY <1>0, <1>4
<1> QED BY <1>1, <1>5 DEF S

-----------------------------------------------------------------------------
(* The travel time *)

LEMMA AmplitudeOfRay ==
    ASSUME NEW r \in [amp : Int, delay : Int]
    PROVE  /\ Amplitude(r) \in Nat
           /\ Amplitude(r) = 0 <=> r.amp = 0
           /\ r.amp * r.amp = Amplitude(r) * Amplitude(r)
<1>1. r.amp \in Int
  OBVIOUS
<1>2. CASE r.amp < 0
  <2>1. Amplitude(r) = -r.amp
    BY <1>2 DEF Amplitude
  <2> QED BY <1>1, <1>2, <2>1
<1>3. CASE ~(r.amp < 0)
  <2>1. Amplitude(r) = r.amp
    BY <1>3 DEF Amplitude
  <2> QED BY <1>1, <1>3, <2>1
<1> QED BY <1>2, <1>3

LEMMA Squares ==
    ASSUME NEW a \in Nat, NEW b \in Nat, a <= b
    PROVE  a * a <= b * b
<1>1. a * a <= a * b
  OBVIOUS
<1>2. a * b <= b * b
  OBVIOUS
<1> QED BY <1>1, <1>2

(* The delay is that of the first of the loudest rays: there is one, and   *)
(* it is silent only if all are.                                           *)
LEMMA TravelTime ==
    ASSUME NEW rays \in RayTraces, rays # <<>>, NEW delay \in travel_time(rays),
           NEW o \in Outliers
    PROVE  delay + o \in Int /\ Arrival(rays, delay + o)
<1> DEFINE R == [amp : Int, delay : Int]
           L == Len(rays)
           A(i) == Amplitude(rays[i])
<1>1. rays \in Seq(R)
  BY RaysAssumption
<1>2. L \in Nat \ {0} /\ DOMAIN rays = 1..L
  BY <1>1
<1>3. ASSUME NEW i \in 1..L PROVE rays[i] \in R
  BY <1>1, <1>3, ElementOfSeq
<1>4. \A i \in 1..L : A(i) \in Nat
  BY <1>3, AmplitudeOfRay
<1> HIDE DEF A, L, R
<1> DEFINE loudest == {i \in 1..L : \A j \in 1..L : A(j) <= A(i)}
           S == {m \in 0..(L - 1) : \E i \in 1..(m + 1) : \A j \in 1..(m + 1) : A(j) <= A(i)}
<1>5. loudest # {}
  <2>1. 0 \in S
    <3>1. 1 \in 1..L /\ 0 \in 0..(L - 1) /\ 1..(0 + 1) = {1}
      BY <1>2
    <3>2. A(1) <= A(1)
      BY <1>4, <3>1
    <3> QED BY <3>1, <3>2
  <2>2. ASSUME NEW n \in 0..((L - 1) - 1), n \in S PROVE n + 1 \in S
    <3>1. PICK i \in 1..(n + 1) : \A j \in 1..(n + 1) : A(j) <= A(i)
      BY <2>2
    <3>2. /\ n \in Nat /\ n + 1 \in 0..(L - 1)
          /\ i \in 1..L /\ i \in 1..((n + 1) + 1)
          /\ n + 2 \in 1..L /\ n + 2 \in 1..((n + 1) + 1)
          /\ \A j \in 1..((n + 1) + 1) : j \in 1..L /\ (j \in 1..(n + 1) \/ j = n + 2)
      BY <1>2
    <3>3. A(i) \in Nat /\ A(n + 2) \in Nat
      BY <1>4, <3>2
    <3>4. CASE A(n + 2) <= A(i)
      <4>1. \A j \in 1..((n + 1) + 1) : A(j) <= A(i)
        BY <3>1, <3>2, <3>4
      <4> QED BY <3>2, <4>1
    <3>5. CASE ~(A(n + 2) <= A(i))
      <4>1. ASSUME NEW j \in 1..((n + 1) + 1) PROVE A(j) <= A(n + 2)
        <5>1. A(j) \in Nat
          BY <1>4, <3>2
        <5>2. CASE j = n + 2
          BY <5>1, <5>2
        <5>3. CASE j \in 1..(n + 1)
          <6>1. A(j) <= A(i)
            BY <3>1, <5>3
          <6> QED BY <3>3, <3>5, <5>1, <6>1
        <5> QED BY <3>2, <5>2, <5>3
      <4> QED BY <3>2, <4>1
    <3> QED BY <3>4, <3>5
  <2> HIDE DEF S
  <2>3. L - 1 \in Nat /\ L - 1 \in 0..(L - 1) /\ (L - 1) + 1 = L
    BY <1>2
  <2>4. L - 1 \in S
    BY <2>1, <2>2, <2>3, UpTo
  <2>5. \E i \in 1..((L - 1) + 1) : \A j \in 1..((L - 1) + 1) : A(j) <= A(i)
    BY <2>4 DEF S
  <2> QED BY <2>3, <2>5
<1>6. loudest \subseteq Nat
  BY <1>2
<1> HIDE DEF S
<1>7. PICK x \in loudest : \A y \in loudest : x <= y
  <2> HIDE DEF loudest
  <2> QED BY <1>5, <1>6, Least
<1> DEFINE c == CHOOSE i \in loudest : \A j \in loudest : i <= j
<1>8. c \in loudest
  <2> HIDE DEF loudest
  <2> QED BY <1>7
<1>9. travel_time(rays) = IF rays[c].amp = 0 THEN Garbage ELSE {rays[c].delay}
  BY Zenon DEF travel_time, A, L
<1> HIDE DEF c
<1>10. c \in 1..L /\ \A j \in 1..L : A(j) <= A(c)
  BY <1>8
<1> HIDE DEF loudest
<1>11. /\ rays[c] \in R
       /\ rays[c].delay \in Int
       /\ rays[c] \in Range(rays)
  <2>1. rays[c] \in R
    BY <1>3, <1>10
  <2>2. rays[c] \in Range(rays)
    BY <1>2, <1>10 DEF Range
  <2> QED BY <2>1, <2>2 DEF R
<1>12. \A r \in Range(rays) : \E j \in 1..L : r = rays[j]
  BY <1>2 DEF Range
<1>13. CASE rays[c].amp = 0
  <2>1. ASSUME NEW r \in Range(rays) PROVE r.amp = 0
    <3>1. PICK j \in 1..L : r = rays[j]
      BY <1>12
    <3>2. A(c) = 0
      BY <1>11, <1>13, AmplitudeOfRay DEF A, R
    <3>3. A(j) = 0
      BY <1>4, <1>10, <3>2
    <3>4. rays[j] \in R
      BY <1>3
    <3> QED BY <3>1, <3>3, <3>4, AmplitudeOfRay DEF A, R
  <2>2. delay \in Int /\ o \in Int
    BY <1>9, <1>13, RaysAssumption
  <2> QED BY <2>1, <2>2 DEF Arrival
<1>14. CASE rays[c].amp # 0
  <2>1. delay = rays[c].delay
    BY <1>9, <1>14
  <2>2. delay + o \in Int
    BY <1>11, <2>1, RaysAssumption
  <2>3. Loud(rays, rays[c])
    <3> SUFFICES ASSUME NEW q \in Range(rays)
                 PROVE  q.amp * q.amp <= rays[c].amp * rays[c].amp
      BY DEF Loud
    <3>1. PICK j \in 1..L : q = rays[j]
      BY <1>12
    <3>2. rays[j] \in R
      BY <1>3
    <3>3. A(j) \in Nat /\ A(c) \in Nat /\ A(j) <= A(c)
      BY <1>4, <1>10
    <3>4. A(j) * A(j) <= A(c) * A(c)
      BY <3>3, Squares
    <3>5. q.amp * q.amp = A(j) * A(j)
      BY <3>1, <3>2, AmplitudeOfRay DEF A, R
    <3>6. rays[c].amp * rays[c].amp = A(c) * A(c)
      BY <1>11, AmplitudeOfRay DEF A, R
    <3> QED BY <3>4, <3>5, <3>6
  <2> QED BY <1>11, <2>1, <2>2, <2>3 DEF Arrival
<1> QED BY <1>13, <1>14

-----------------------------------------------------------------------------
(* The inductive step *)

(* What is in the buffers has been received before.                        *)
LEMMA Known ==
    ASSUME Tables, ChannelInv
    PROVE  /\ \A i \in 1..Len(delay_buffer_) : delay_buffer_[i].msg < received
           /\ \A i \in 1..Len(udp_out) : udp_out[i].io_msg.msg < received
<1>1. ASSUME NEW x \in Packets, Holds(delay_buffer_, Key(x)) \/ Holds(Sent(udp_out), Key(x))
      PROVE  x.msg < received
  <2>1. Key(x) \in Keys /\ Key(x)[1] = x.msg
    BY DEF Key, Keys, Packets
  <2>2. Key(x) \in accepted
    BY <1>1, <2>1, Zenon DEF ChannelInv, Places, OnePlace
  <2> QED BY <2>1, <2>2 DEF ChannelInv, Places
<1>2. ASSUME NEW i \in 1..Len(delay_buffer_) PROVE delay_buffer_[i].msg < received
  <2>1. delay_buffer_[i] \in Packets
    BY ElementOfSeq DEF ChannelInv, BufferTypes
  <2>2. Holds(delay_buffer_, Key(delay_buffer_[i]))
    BY DEF Holds
  <2> QED BY <1>1, <2>1, <2>2
<1>3. ASSUME NEW i \in 1..Len(udp_out) PROVE udp_out[i].io_msg.msg < received
  <2>1. udp_out[i] \in Published /\ Len(udp_out) \in Nat
    BY ElementOfSeq DEF ChannelInv, BufferTypes
  <2>2. udp_out[i].io_msg \in Packets
    BY <2>1 DEF Published
  <2>3. /\ Sent(udp_out)[i] = udp_out[i].io_msg
        /\ Len(Sent(udp_out)) = Len(udp_out)
    BY <2>1 DEF Sent
  <2>4. Holds(Sent(udp_out), Key(udp_out[i].io_msg))
    BY <2>3 DEF Holds
  <2> QED BY <1>1, <2>2, <2>4
<1> QED BY <1>2, <1>3

LEMMA UdpInChannel == ASSUME Tables, ChannelInv, UdpIn PROVE ChannelInv'
<1>1. /\ received < MaxMsgs /\ received' = received + 1 /\ now' = now
      /\ delay_buffer_' = delay_buffer_ /\ udp_out' = udp_out
      /\ dropped' = dropped /\ discarded' = discarded
  BY DEF UdpIn
<1>2. PICK src \in Modems \cup {Stranger}, type \in {"ACK", "DATA"},
           dest \in Modems \cup {Broadcast, Stranger}, stamp \in Stamps :
             forward_packet(src, Destinations(src, type, dest), stamp)
  BY DEF UdpIn
<1> DEFINE dests == Destinations(src, type, dest)
           to == {src} \X dests
           new == [msg |-> received, time |-> stamp]
<1>3. /\ forward_buffer_' = [p \in Pairs |-> IF p \in to
                                THEN Append(forward_buffer_[p], new)
                                ELSE forward_buffer_[p]]
      /\ accepted' = accepted \cup {<<received, src, d>> : d \in dests}
  BY <1>2 DEF forward_packet
<1>4. /\ dests \subseteq Modems
      /\ dests # {} => src \in Modems
  BY DEF Destinations
<1>5. received \in Nat /\ received \in Ids /\ MaxMsgs \in Nat /\ now \in 0..MaxTime
  BY <1>1, UDPBoundsAssumption DEF Tables, Ids
<1> HIDE DEF dests, new
<1>6. new.msg = received /\ new \in Waiting
  BY <1>5 DEF new, Waiting
<1>7. ASSUME NEW p \in Pairs
      PROVE  /\ forward_buffer_[p] \in Seq(Waiting) /\ Len(forward_buffer_[p]) \in Nat
             /\ p \notin to => forward_buffer_'[p] = forward_buffer_[p]
             /\ p \in to =>
                   /\ Len(forward_buffer_'[p]) = Len(forward_buffer_[p]) + 1
                   /\ \A i \in 1..Len(forward_buffer_[p]) :
                         forward_buffer_'[p][i] = forward_buffer_[p][i]
                   /\ forward_buffer_'[p][Len(forward_buffer_[p]) + 1] = new
  <2>1. forward_buffer_[p] \in Seq(Waiting)
    BY DEF Tables
  <2>2. forward_buffer_'[p] = IF p \in to THEN Append(forward_buffer_[p], new)
                              ELSE forward_buffer_[p]
    BY <1>3
  <2> HIDE DEF to
  <2> QED BY <1>6, <2>1, <2>2, AppendProperties
<1>8. ASSUME NEW p \in Pairs, NEW i \in 1..Len(forward_buffer_[p])
      PROVE  /\ forward_buffer_[p][i].msg < received
             /\ forward_buffer_[p][i] \in Waiting
  <2>1. forward_buffer_[p][i] \in Waiting
    BY <1>7, <1>8, ElementOfSeq
  <2> QED BY <1>8, <2>1 DEF ChannelInv, Queued
<1> HIDE DEF to
<1>9. BufferTypes'
  BY <1>1 DEF ChannelInv, BufferTypes
<1>10. Queued'
  <2> SUFFICES ASSUME NEW p \in Pairs
               PROVE  LET w == forward_buffer_'[p]
                      IN  /\ \A i \in 1..Len(w) : w[i].msg < received'
                          /\ \A i, j \in 1..Len(w) : i < j => Older(w[i], w[j])
    BY DEF Queued
  <2> DEFINE v == forward_buffer_[p]
             w == forward_buffer_'[p]
  <2>0. /\ Len(v) \in Nat
        /\ \A i \in 1..Len(v) : v[i].msg < received /\ v[i] \in Waiting
        /\ \A i, j \in 1..Len(v) : i < j => Older(v[i], v[j])
    BY <1>7, <1>8 DEF ChannelInv, Queued
  <2>1. /\ p \notin to => w = v
        /\ p \in to => /\ Len(w) = Len(v) + 1
                       /\ \A i \in 1..Len(v) : w[i] = v[i]
                       /\ w[Len(v) + 1] = new
    BY <1>7
  <2>2. \A i \in 1..Len(v) : v[i].msg \in Nat
    <3>1. \A u \in Waiting : u.msg \in Nat
      BY UDPBoundsAssumption DEF Waiting, Ids
    <3> QED BY <2>0, <3>1
  <2> HIDE DEF v, w
  <2>3. CASE p \notin to
    <3>1. \A i \in 1..Len(v) : v[i].msg < received'
      BY <1>1, <1>5, <2>0, <2>2
    <3> QED BY <1>1, <2>0, <2>1, <2>3, <3>1 DEF w
  <2>4. CASE p \in to
    <3>1. \A i \in 1..Len(w) : i \in 1..Len(v) \/ i = Len(v) + 1
      BY <2>0, <2>1, <2>4
    <3>2. ASSUME NEW i \in 1..Len(w) PROVE w[i].msg < received'
      <4>1. CASE i \in 1..Len(v)
        <5>1. w[i] = v[i]
          BY <2>1, <2>4, <4>1
        <5> QED BY <1>1, <1>5, <2>0, <2>2, <4>1, <5>1
      <4>2. CASE i = Len(v) + 1
        BY <1>1, <1>5, <1>6, <2>1, <2>4, <4>2
      <4> QED BY <3>1, <4>1, <4>2
    <3>3. ASSUME NEW i \in 1..Len(w), NEW j \in 1..Len(w), i < j PROVE Older(w[i], w[j])
      <4>1. i \in 1..Len(v) /\ w[i] = v[i]
        BY <2>0, <2>1, <2>4, <3>1, <3>3
      <4>2. CASE j \in 1..Len(v)
        <5>1. w[j] = v[j]
          BY <2>1, <2>4, <4>2
        <5> QED BY <2>0, <3>3, <4>1, <4>2, <5>1
      <4>3. CASE j = Len(v) + 1
        BY <1>6, <2>0, <2>1, <2>4, <4>1, <4>3 DEF Older
      <4> QED BY <3>1, <4>2, <4>3
    <3> QED BY <3>2, <3>3 DEF w
  <2> QED BY <2>3, <2>4
<1>11. Buffered' /\ Left'
  BY <1>1 DEF ChannelInv, Buffered, Left
<1>12. Follows'
  <2>1. /\ \A i \in 1..Len(delay_buffer_) : delay_buffer_[i].msg < received
        /\ \A i \in 1..Len(udp_out) : udp_out[i].io_msg.msg < received
    BY Known
  <2>2. \A i \in 1..Len(udp_out), j \in 1..Len(delay_buffer_) :
            InOrder(udp_out[i].io_msg, delay_buffer_[j])
    BY DEF ChannelInv, Follows
  <2>3. ASSUME NEW p \in Pairs, NEW j \in 1..Len(forward_buffer_'[p])
        PROVE  /\ \A i \in 1..Len(delay_buffer_) :
                    OfPair(delay_buffer_[i], p)
                        => Older(delay_buffer_[i], forward_buffer_'[p][j])
               /\ \A i \in 1..Len(udp_out) :
                    OfPair(udp_out[i].io_msg, p)
                        => Older(udp_out[i].io_msg, forward_buffer_'[p][j])
    <3>1. CASE j \in 1..Len(forward_buffer_[p]) /\ forward_buffer_'[p][j] = forward_buffer_[p][j]
      BY <3>1 DEF ChannelInv, Follows
    <3>2. CASE forward_buffer_'[p][j] = new
      BY <1>6, <2>1, <3>2 DEF Older
    <3>3. \/ j \in 1..Len(forward_buffer_[p]) /\ forward_buffer_'[p][j] = forward_buffer_[p][j]
          \/ forward_buffer_'[p][j] = new
      BY <1>7, <2>3
    <3> QED BY <3>1, <3>2, <3>3
  <2> QED BY <1>1, <2>2, <2>3 DEF Follows
<1>13. Places'
  <2>1. \A d \in dests : <<received, src, d>> \in Keys
    BY <1>4, <1>5 DEF Keys
  <2>2. accepted' \subseteq Keys
    BY <1>3, <2>1 DEF ChannelInv, Places
  <2>3. \A k \in Keys : k[1] \in Nat
    BY UDPBoundsAssumption DEF Keys, Ids
  <2>4. ASSUME NEW k \in accepted' PROVE k[1] < received'
    <3>1. CASE k \in accepted
      <4>1. k[1] < received /\ k[1] \in Nat
        BY <2>2, <2>3, <3>1 DEF ChannelInv, Places
      <4> QED BY <1>1, <1>5, <4>1
    <3>2. CASE k \in {<<received, src, d>> : d \in dests}
      BY <1>1, <1>5, <3>2
    <3> QED BY <1>3, <2>4, <3>1, <3>2
  <2>5. ASSUME NEW k \in Keys PROVE OnePlace(k)'
    <3> DEFINE p == <<k[2], k[3]>>
    <3>0. p \in Pairs /\ k = <<k[1], k[2], k[3]>> /\ k[1] \in Nat
      BY <2>3 DEF Keys, Pairs
    <3>1. OnePlace(k)
      BY DEF ChannelInv, Places
    <3>2. /\ (Holds(delay_buffer_, k))' <=> Holds(delay_buffer_, k)
          /\ (Holds(Sent(udp_out), k))' <=> Holds(Sent(udp_out), k)
      BY <1>1
    <3>3. k[1] = received => k \notin accepted
      BY <1>5, <3>0 DEF ChannelInv, Places
    <3>4. k \in accepted' <=> k \in accepted \/ (p \in to /\ k[1] = received)
      <4>1. p \in to <=> k[2] = src /\ k[3] \in dests
        BY DEF to
      <4>2. k \in {<<received, src, d>> : d \in dests}
              <=> k[1] = received /\ k[2] = src /\ k[3] \in dests
        BY <3>0
      <4> QED BY <1>3, <4>1, <4>2
    <3>5. WaitsFor(k)' <=> WaitsFor(k) \/ (p \in to /\ k[1] = received)
      <4> DEFINE v == forward_buffer_[p]
                 w == forward_buffer_'[p]
      <4>1. /\ Len(v) \in Nat
            /\ p \notin to => w = v
            /\ p \in to => /\ Len(w) = Len(v) + 1
                           /\ \A i \in 1..Len(v) : w[i] = v[i]
                           /\ w[Len(v) + 1] = new
        BY <1>7, <3>0
      <4>2. /\ WaitsFor(k) <=> \E i \in 1..Len(v) : v[i].msg = k[1]
            /\ WaitsFor(k)' <=> \E i \in 1..Len(w) : w[i].msg = k[1]
        BY Zenon DEF WaitsFor
      <4> HIDE DEF v, w
      <4>3. CASE p \notin to
        BY <4>1, <4>2, <4>3
      <4>4. CASE p \in to
        <5>1. /\ \A i \in 1..Len(w) : i \in 1..Len(v) \/ i = Len(v) + 1
              /\ \A i \in 1..Len(v) : i \in 1..Len(w)
              /\ Len(v) + 1 \in 1..Len(w)
          BY <4>1, <4>4
        <5> QED BY <1>6, <4>1, <4>2, <4>4, <5>1
      <4> QED BY <4>3, <4>4
    <3>6. /\ (k \in dropped)' <=> k \in dropped
          /\ (k \in discarded)' <=> k \in discarded
      BY <1>1
    <3> HIDE DEF p
    <3> QED BY <3>1, <3>2, <3>3, <3>4, <3>5, <3>6 DEF OnePlace
  <2>6. /\ (accepted \subseteq Keys)'
        /\ (\A k \in accepted : k[1] < received)'
        /\ (\A k \in Keys : OnePlace(k))'
    <3>1. Keys' = Keys
      BY DEF Keys, Ids
    <3> QED BY <2>2, <2>4, <2>5, <3>1
  <2> QED BY <2>6 DEF Places
<1> QED BY <1>9, <1>10, <1>11, <1>12, <1>13 DEF ChannelInv

\* A response for the pair p: what waited for it is in the buffer or gone.
LEMMA ErasedPair ==
    ASSUME Tables, NEW p \in Pairs, forward_buffer_' = EraseWaiting(p)
    PROVE  /\ forward_buffer_'[p] = <<>> /\ Len(forward_buffer_'[p]) = 0
           /\ \A q \in Pairs \ {p} : forward_buffer_'[q] = forward_buffer_[q]
<1>1. forward_buffer_' = [forward_buffer_ EXCEPT ![p] = <<>>]
  BY DEF EraseWaiting
<1>2. \A q \in Pairs : forward_buffer_'[q] = IF q = p THEN <<>> ELSE forward_buffer_[q]
  BY <1>1 DEF Tables
<1> QED BY <1>2

LEMMA QueuedErased ==
    ASSUME Tables, Queued, NEW p \in Pairs, forward_buffer_' = EraseWaiting(p),
           received' = received, now' = now
    PROVE  Queued'
<1> SUFFICES ASSUME NEW q \in Pairs, NEW w, w = forward_buffer_'[q]
             PROVE  /\ \A i \in 1..Len(w) : w[i].msg < received'
                    /\ \A i, j \in 1..Len(w) : i < j => Older(w[i], w[j])
  BY DEF Queued
<1>1. CASE q = p
  BY <1>1, ErasedPair
<1>2. CASE q # p
  <2>1. w = forward_buffer_[q]
    BY <1>2, ErasedPair
  <2> QED BY <2>1 DEF Queued
<1> QED BY <1>1, <1>2

\* What waits for k after a response for p.
LEMMA WaitsErased ==
    ASSUME Tables, NEW p \in Pairs, forward_buffer_' = EraseWaiting(p), NEW k \in Keys
    PROVE  /\ <<k[2], k[3]>> = p => ~WaitsFor(k)'
           /\ <<k[2], k[3]>> # p => (WaitsFor(k)' <=> WaitsFor(k))
<1> DEFINE q == <<k[2], k[3]>>
<1>1. q \in Pairs
  BY DEF Keys, Pairs
<1>2. /\ q = p => Len(forward_buffer_'[q]) = 0
      /\ q # p => forward_buffer_'[q] = forward_buffer_[q]
  BY <1>1, ErasedPair
<1>3. /\ WaitsFor(k) <=> \E i \in 1..Len(forward_buffer_[q]) :
                            forward_buffer_[q][i].msg = k[1]
      /\ WaitsFor(k)' <=> \E i \in 1..Len(forward_buffer_'[q]) :
                            forward_buffer_'[q][i].msg = k[1]
  BY Zenon DEF WaitsFor
<1> HIDE DEF q
<1>4. q = p => ~WaitsFor(k)'
  <2>1. q = p => ~\E i \in 1..Len(forward_buffer_'[q]) : forward_buffer_'[q][i].msg = k[1]
    BY <1>2
  <2> QED BY <1>3, <2>1, Zenon
<1>5. q # p => (WaitsFor(k)' <=> WaitsFor(k))
  <2> DEFINE w == forward_buffer_[q]
             z == forward_buffer_'[q]
             m == k[1]
  <2>1. /\ q # p => z = w
        /\ WaitsFor(k) <=> \E i \in 1..Len(w) : w[i].msg = m
        /\ WaitsFor(k)' <=> \E i \in 1..Len(z) : z[i].msg = m
    BY <1>2, <1>3, Zenon
  <2> HIDE DEF w, z, m
  <2> QED BY <2>1, Zenon
<1> QED BY <1>4, <1>5, Zenon DEF q

LEMMA DiscardChannel ==
    ASSUME Tables, ChannelInv, NEW p \in Pairs, Discard(p),
           forward_buffer_' = EraseWaiting(p),
           UNCHANGED <<now, received, udp_out, accepted>>
    PROVE  ChannelInv'
<1>1. /\ received' = received /\ now' = now /\ udp_out' = udp_out /\ accepted' = accepted
      /\ delay_buffer_' = delay_buffer_ /\ dropped' = dropped
  BY DEF Discard
<1>2. BufferTypes' /\ Buffered' /\ Left'
  BY <1>1 DEF ChannelInv, BufferTypes, Buffered, Left
<1>3. Queued'
  BY <1>1, QueuedErased DEF ChannelInv
<1>4. Follows'
  <2>1. ASSUME NEW q \in Pairs, NEW j \in 1..Len(forward_buffer_'[q])
        PROVE  q # p /\ forward_buffer_'[q] = forward_buffer_[q]
    BY <2>1, ErasedPair
  <2> QED BY <1>1, <2>1 DEF ChannelInv, Follows
<1>5. ASSUME NEW k \in Keys PROVE OnePlace(k)'
  <2> DEFINE q == <<k[2], k[3]>>
  <2>1. OnePlace(k)
    BY DEF ChannelInv, Places
  <2>2. /\ (Holds(delay_buffer_, k))' <=> Holds(delay_buffer_, k)
        /\ (Holds(Sent(udp_out), k))' <=> Holds(Sent(udp_out), k)
        /\ (k \in dropped)' <=> k \in dropped
        /\ (k \in accepted)' <=> k \in accepted
    BY <1>1
  <2>3. /\ q = p => ~WaitsFor(k)'
        /\ q # p => (WaitsFor(k)' <=> WaitsFor(k))
    BY WaitsErased
  <2>4. (k \in discarded)' <=> k \in discarded \/ (q = p /\ WaitsFor(k))
    <3>0. /\ k = <<k[1], k[2], k[3]>> /\ p = <<p[1], p[2]>>
          /\ DOMAIN forward_buffer_[p] = 1..Len(forward_buffer_[p])
      BY DEF Keys, Pairs, Tables
    <3>1. discarded' = discarded \cup {<<forward_buffer_[p][i].msg, p[1], p[2]>> :
                                          i \in 1..Len(forward_buffer_[p])}
      BY <3>0 DEF Discard
    <3>2. k \in {<<forward_buffer_[p][i].msg, p[1], p[2]>> : i \in 1..Len(forward_buffer_[p])}
            <=> q = p /\ \E i \in 1..Len(forward_buffer_[p]) : forward_buffer_[p][i].msg = k[1]
      BY <3>0
    <3>3. WaitsFor(k) <=> \E i \in 1..Len(forward_buffer_[q]) : forward_buffer_[q][i].msg = k[1]
      BY Zenon DEF WaitsFor
    <3> QED BY <3>1, <3>2, <3>3
  <2> HIDE DEF q
  <2> QED BY <2>1, <2>2, <2>3, <2>4 DEF OnePlace
<1>6. Places'
  <2>1. Keys' = Keys
    BY DEF Keys, Ids
  <2>2. /\ (accepted \subseteq Keys)'
        /\ (\A k \in accepted : k[1] < received)'
    BY <1>1, <2>1 DEF ChannelInv, Places
  <2>3. (\A k \in Keys : OnePlace(k))'
    BY <1>5, <2>1
  <2> QED BY <2>2, <2>3 DEF Places
<1> QED BY <1>2, <1>3, <1>4, <1>6 DEF ChannelInv

LEMMA ReleaseChannel ==
    ASSUME Tables, ChannelInv, NEW p \in Pairs, NEW owtt \in Int, NEW rays \in RayTraces,
           Arrival(rays, owtt), NEW success, Release(p, owtt, success, rays),
           forward_buffer_' = EraseWaiting(p),
           UNCHANGED <<now, received, udp_out, accepted>>
    PROVE  ChannelInv'
<1> DEFINE w == forward_buffer_[p]
           b == delay_buffer_
           t == delay_buffer_'
<1>1. /\ received' = received /\ now' = now /\ udp_out' = udp_out /\ accepted' = accepted
      /\ discarded' = discarded
  BY DEF Release
<1>2. /\ t = Entered(b, w, p, owtt, success, rays)
      /\ dropped' = dropped \cup {<<w[i].msg, p[1], p[2]>> : i \in {j \in DOMAIN w : ~success[j]}}
  BY DEF Release
<1>3. InLine(w) /\ Len(w) \in Nat /\ DOMAIN w = 1..Len(w)
  <2>1. w \in Seq(Waiting)
    BY DEF Tables
  <2>2. \A i, j \in 1..Len(w) : i < j => Older(w[i], w[j])
    BY DEF ChannelInv, Queued
  <2> QED BY <2>1, <2>2 DEF InLine
<1>4. Proper(b)
  BY DEF ChannelInv, BufferTypes, Buffered, Proper
<1>5. \A j \in 1..Len(w) : Ahead(b, p, w[j])
  BY DEF ChannelInv, Follows, Ahead
<1> HIDE DEF w, b, t
<1>6. Taken(t, Len(w), b, w, p, success, owtt, rays)
  BY <1>2, <1>3, <1>4, <1>5, EnteredTakes
<1>7. /\ t \in Seq(Packets)
      /\ Sorted(t) /\ Ordered(t) /\ NoneTwice(t)
      /\ \A i \in 1..Len(t) : Sound(t[i])
      /\ \A i \in 1..Len(t) :
            \/ \E j \in 1..Len(b) : t[i] = b[j]
            \/ \E j \in 1..Len(w) : t[i] = Delayed(p, w[j], owtt, rays)
  BY <1>6, Zenon DEF Taken, Proper
<1>8. \A k : Holds(t, k) <=> \/ Holds(b, k)
                             \/ \E i \in 1..Len(w) : success[i] /\ k = WaitingKey(w[i], p)
  BY <1>6, Zenon DEF Taken
<1>9. BufferTypes' /\ Buffered' /\ Left'
  <2>1. BufferTypes'
    BY <1>1, <1>7 DEF ChannelInv, BufferTypes, t
  <2>2. Buffered'
    BY <1>7 DEF Buffered, t
  <2>3. Left'
    BY <1>1 DEF ChannelInv, Left
  <2> QED BY <2>1, <2>2, <2>3
<1>10. Queued'
  BY <1>1, QueuedErased DEF ChannelInv
<1>11. ASSUME NEW j \in 1..Len(w)
       PROVE  /\ Delayed(p, w[j], owtt, rays).msg = w[j].msg
              /\ OfPair(Delayed(p, w[j], owtt, rays), p)
  BY DEF Delayed, OfPair
<1>12. Follows'
  <2>1. /\ \A i \in 1..Len(udp_out), j \in 1..Len(b) : InOrder(udp_out[i].io_msg, b[j])
        /\ \A i \in 1..Len(udp_out), j \in 1..Len(w) :
              OfPair(udp_out[i].io_msg, p) => Older(udp_out[i].io_msg, w[j])
    BY DEF ChannelInv, Follows, b, w
  <2>3. ASSUME NEW i \in 1..Len(udp_out), NEW j \in 1..Len(t)
        PROVE  InOrder(udp_out[i].io_msg, t[j])
    <3>1. CASE \E a \in 1..Len(b) : t[j] = b[a]
      BY <2>1, <3>1
    <3>2. CASE \E a \in 1..Len(w) : t[j] = Delayed(p, w[a], owtt, rays)
      <4>1. PICK a \in 1..Len(w) : t[j] = Delayed(p, w[a], owtt, rays)
        BY <3>2
      <4>2. t[j].msg = w[a].msg /\ OfPair(t[j], p)
        BY <1>11, <4>1
      <4>3. SamePair(udp_out[i].io_msg, t[j]) => OfPair(udp_out[i].io_msg, p)
        BY <4>2 DEF SamePair, OfPair
      <4> QED BY <2>1, <4>2, <4>3 DEF InOrder, Older
    <3> QED BY <1>7, <3>1, <3>2
  <2>4. ASSUME NEW q \in Pairs, NEW j \in 1..Len(forward_buffer_'[q])
        PROVE  /\ \A i \in 1..Len(t) :
                    OfPair(t[i], q) => Older(t[i], forward_buffer_'[q][j])
               /\ \A i \in 1..Len(udp_out) :
                    OfPair(udp_out[i].io_msg, q)
                        => Older(udp_out[i].io_msg, forward_buffer_'[q][j])
    <3>1. q # p /\ forward_buffer_'[q] = forward_buffer_[q]
      BY <2>4, ErasedPair
    <3>2. /\ \A i \in 1..Len(b) : OfPair(b[i], q) => Older(b[i], forward_buffer_[q][j])
          /\ \A i \in 1..Len(udp_out) :
                OfPair(udp_out[i].io_msg, q) => Older(udp_out[i].io_msg, forward_buffer_[q][j])
      BY <2>4, <3>1 DEF ChannelInv, Follows, b
    <3>3. ASSUME NEW i \in 1..Len(t), OfPair(t[i], q) PROVE \E a \in 1..Len(b) : t[i] = b[a]
      <4>1. ~OfPair(t[i], p)
        BY <3>1, <3>3 DEF OfPair, Pairs
      <4> QED BY <1>7, <1>11, <4>1
    <3> QED BY <3>1, <3>2, <3>3
  <2>5. \A i \in 1..Len(udp_out'), j \in 1..Len(delay_buffer_') :
            InOrder(udp_out'[i].io_msg, delay_buffer_'[j])
    BY <1>1, <2>3 DEF t
  <2> QED BY <1>1, <2>4, <2>5 DEF Follows, t
<1>13. ASSUME NEW k \in Keys PROVE OnePlace(k)'
  <2> DEFINE q == <<k[2], k[3]>>
             won == \E i \in 1..Len(w) : success[i] /\ w[i].msg = k[1]
             lost == \E i \in 1..Len(w) : ~success[i] /\ w[i].msg = k[1]
  <2>0. /\ k = <<k[1], k[2], k[3]>> /\ p = <<p[1], p[2]>>
    BY DEF Keys, Pairs
  <2>1. OnePlace(k)
    BY DEF ChannelInv, Places
  <2>2. /\ (Holds(Sent(udp_out), k))' <=> Holds(Sent(udp_out), k)
        /\ (k \in discarded)' <=> k \in discarded
        /\ (k \in accepted)' <=> k \in accepted
    BY <1>1
  <2>3. /\ q = p => ~WaitsFor(k)'
        /\ q # p => (WaitsFor(k)' <=> WaitsFor(k))
    BY WaitsErased
  <2>4. (Holds(delay_buffer_, k))' <=> Holds(delay_buffer_, k) \/ (q = p /\ won)
    <3>1. \A i \in 1..Len(w) : k = WaitingKey(w[i], p) <=> q = p /\ w[i].msg = k[1]
      BY <2>0 DEF WaitingKey
    <3> QED BY <1>8, <3>1 DEF t, b
  <2>5. (k \in dropped)' <=> k \in dropped \/ (q = p /\ lost)
    <3>1. k \in {<<w[i].msg, p[1], p[2]>> : i \in {j \in 1..Len(w) : ~success[j]}}
            <=> q = p /\ lost
      BY <2>0
    <3>2. dropped' = dropped \cup {<<w[i].msg, p[1], p[2]>> :
                                      i \in {j \in 1..Len(w) : ~success[j]}}
      BY <1>2, <1>3
    <3> HIDE DEF lost
    <3> QED BY <3>1, <3>2
  <2>6. q = p => (WaitsFor(k) <=> won \/ lost)
    <3>1. q = p => (WaitsFor(k) <=> \E i \in 1..Len(w) : w[i].msg = k[1])
      BY Zenon DEF WaitsFor, w
    <3> QED BY <3>1
  <2>7. ~(won /\ lost)
    <3> SUFFICES ASSUME won, lost PROVE FALSE
      OBVIOUS
    <3>1. PICK i \in 1..Len(w) : success[i] /\ w[i].msg = k[1]
      OBVIOUS
    <3>2. PICK j \in 1..Len(w) : ~success[j] /\ w[j].msg = k[1]
      OBVIOUS
    <3>3. i # j
      BY <3>1, <3>2
    <3>4. k[1] \in Nat
      BY UDPBoundsAssumption DEF Keys, Ids
    <3>5. w[i].msg < w[j].msg \/ w[j].msg < w[i].msg
      BY <1>3, <3>3 DEF InLine, Older
    <3> QED BY <3>1, <3>2, <3>4, <3>5
  <2> HIDE DEF q, won, lost
  <2> QED BY <2>1, <2>2, <2>3, <2>4, <2>5, <2>6, <2>7 DEF OnePlace
<1>14. Places'
  <2>1. Keys' = Keys
    BY DEF Keys, Ids
  <2>2. /\ (accepted \subseteq Keys)'
        /\ (\A k \in accepted : k[1] < received)'
    BY <1>1, <2>1 DEF ChannelInv, Places
  <2>3. (\A k \in Keys : OnePlace(k))'
    BY <1>13, <2>1
  <2> QED BY <2>2, <2>3 DEF Places
<1> QED BY <1>9, <1>10, <1>12, <1>14 DEF ChannelInv

LEMMA ResponseChannel ==
    ASSUME Tables, ChannelInv, NEW p \in Pairs, process_impulse_response(p)
    PROVE  ChannelInv'
<1>1. /\ forward_buffer_' = EraseWaiting(p)
      /\ UNCHANGED <<now, received, udp_out, accepted>>
  BY DEF process_impulse_response
<1>2. PICK rays \in RayTraces :
          \/ rays = <<>> /\ Discard(p)
          \/ /\ rays # <<>>
             /\ \E delay \in travel_time(rays), outlier \in Outliers,
                   success \in [DOMAIN forward_buffer_[p] -> Outcomes(p)] :
                      Release(p, delay + outlier, success, rays)
  BY DEF process_impulse_response
<1>3. CASE Discard(p)
  BY <1>1, <1>3, DiscardChannel
<1>4. CASE rays # <<>> /\ ~Discard(p)
  <2>1. PICK delay \in travel_time(rays), outlier \in Outliers,
             success \in [DOMAIN forward_buffer_[p] -> Outcomes(p)] :
                Release(p, delay + outlier, success, rays)
    BY <1>2, <1>4
  <2>2. delay + outlier \in Int /\ Arrival(rays, delay + outlier)
    BY <1>4, TravelTime
  <2> DEFINE owtt == delay + outlier
  <2> HIDE DEF owtt
  <2>3. /\ owtt \in Int /\ Arrival(rays, owtt) /\ Release(p, owtt, success, rays)
    BY <2>1, <2>2 DEF owtt
  <2> QED BY <1>1, <2>3, ReleaseChannel
<1> QED BY <1>2, <1>3, <1>4

\* loop() moves the first n elements of the buffer to the end of udp_out.
Moved(b, o, b2, o2, n) ==
    /\ Len(b) \in Nat /\ Len(o) \in Nat /\ n \in 0..Len(b)
    /\ b2 \in Seq(Packets) /\ Len(b2) = Len(b) - n
    /\ \A i \in 1..(Len(b) - n) : b2[i] = b[n + i]
    /\ Len(o2) = Len(o) + n
    /\ \A i \in 1..Len(o) : o2[i] = o[i]
    /\ \A i \in 1..n : o2[Len(o) + i].io_msg = b[i]

LEMMA LoopMoves ==
    ASSUME Tables, ChannelInv, loop
    PROVE  \E n \in 0..Len(delay_buffer_) :
              /\ Moved(delay_buffer_, udp_out, delay_buffer_', udp_out', n)
              /\ \A i \in 1..Len(delay_buffer_) : delay_buffer_[i].due <= now <=> i <= n
              /\ \A i \in 1..n : udp_out'[Len(udp_out) + i].at = now
              /\ udp_out' \in Seq(Published)
<1> DEFINE b == delay_buffer_
           n == upper_bound(delay_buffer_, now)
           r == [i \in 1..n |-> [io_msg |-> delay_buffer_[i], at |-> now]]
<1>1. /\ udp_out' = udp_out \o r
      /\ delay_buffer_' = SubSeq(b, n + 1, Len(b))
  BY Zenon DEF loop
<1>2. /\ b \in Seq(Packets) /\ Sorted(b) /\ udp_out \in Seq(Published)
      /\ now \in Int /\ now \in 0..MaxTime
  BY UDPBoundsAssumption DEF Tables, ChannelInv, BufferTypes, Buffered
<1>3. /\ Len(b) \in Nat /\ Len(udp_out) \in Nat
      /\ \A i \in 1..Len(b) : b[i] \in Packets
  BY <1>2, ElementOfSeq
<1>4. n \in 0..Len(b) /\ \A i \in 1..Len(b) : b[i].due <= now <=> i <= n
  BY <1>2, UpperBound
<1> HIDE DEF n
<1>5. r \in Seq(Published) /\ Len(r) = n
  <2>1. \A i \in 1..n : [io_msg |-> delay_buffer_[i], at |-> now] \in Published
    BY <1>2, <1>3, <1>4 DEF Published
  <2>2. n \in Nat
    BY <1>3, <1>4
  <2> QED BY <2>1, <2>2
<1>6. \A i \in 1..n : r[i].io_msg = b[i] /\ r[i].at = now
  OBVIOUS
<1> HIDE DEF r, b
<1>7. /\ udp_out' \in Seq(Published) /\ Len(udp_out') = Len(udp_out) + n
      /\ \A i \in 1..(Len(udp_out) + n) :
            udp_out'[i] = IF i <= Len(udp_out) THEN udp_out[i] ELSE r[i - Len(udp_out)]
  <2>1. /\ udp_out \o r \in Seq(Published) /\ Len(udp_out \o r) = Len(udp_out) + Len(r)
        /\ \A i \in 1..(Len(udp_out) + Len(r)) :
            (udp_out \o r)[i] = IF i <= Len(udp_out) THEN udp_out[i] ELSE r[i - Len(udp_out)]
    BY <1>2, <1>5, ConcatProperties
  <2> QED BY <1>1, <1>5, <2>1
<1>8. /\ \A i \in 1..Len(udp_out) : udp_out'[i] = udp_out[i]
      /\ \A i \in 1..n : udp_out'[Len(udp_out) + i] = r[i]
  <2>1. ASSUME NEW i \in 1..Len(udp_out) PROVE udp_out'[i] = udp_out[i]
    BY <1>3, <1>4, <1>7
  <2>2. ASSUME NEW i \in 1..n PROVE udp_out'[Len(udp_out) + i] = r[i]
    <3>1. /\ Len(udp_out) + i \in 1..(Len(udp_out) + n) /\ ~(Len(udp_out) + i <= Len(udp_out))
          /\ (Len(udp_out) + i) - Len(udp_out) = i
      BY <1>3, <1>4
    <3> QED BY <1>7, <3>1
  <2> QED BY <2>1, <2>2
<1>9. /\ delay_buffer_' \in Seq(Packets) /\ Len(delay_buffer_') = Len(b) - n
      /\ \A i \in 1..(Len(b) - n) : delay_buffer_'[i] = b[n + i]
  BY <1>1, <1>2, <1>3, <1>4
<1>10. Moved(b, udp_out, delay_buffer_', udp_out', n)
  BY <1>3, <1>4, <1>6, <1>7, <1>8, <1>9 DEF Moved
<1> QED BY <1>4, <1>6, <1>7, <1>8, <1>10 DEF b

LEMMA LoopChannel == ASSUME Tables, ChannelInv, loop PROVE ChannelInv'
<1> DEFINE b == delay_buffer_
           o == udp_out
           b2 == delay_buffer_'
           o2 == udp_out'
           L == Len(udp_out)
<1>1. /\ received' = received /\ now' = now /\ forward_buffer_' = forward_buffer_
      /\ dropped' = dropped /\ discarded' = discarded /\ accepted' = accepted
  BY DEF loop
<1>2. PICK n \in 0..Len(b) :
              /\ Moved(b, o, b2, o2, n)
              /\ \A i \in 1..Len(b) : b[i].due <= now <=> i <= n
              /\ \A i \in 1..n : o2[L + i].at = now
              /\ o2 \in Seq(Published)
  BY LoopMoves
<1>3. /\ L \in Nat /\ Len(b) \in Nat /\ n \in Nat /\ n <= Len(b)
      /\ Len(o2) = L + n /\ Len(b2) = Len(b) - n
      /\ \A i \in 1..L : o2[i] = o[i]
      /\ b2 \in Seq(Packets)
  BY <1>2 DEF Moved
<1> HIDE DEF b, o, b2, o2, L
<1>4. ASSUME NEW i \in 1..Len(o2)
      PROVE  \/ i \in 1..L /\ o2[i] = o[i]
             \/ /\ i - L \in 1..n /\ i - L \in 1..Len(b)
                /\ o2[i].io_msg = b[i - L] /\ o2[i].at = now
  <2>1. CASE i <= L
    BY <1>3, <2>1
  <2>2. CASE i > L
    <3>1. i - L \in 1..n /\ i - L \in 1..Len(b) /\ L + (i - L) = i
      BY <1>3, <2>2
    <3>2. o2[L + (i - L)].io_msg = b[i - L] /\ o2[L + (i - L)].at = now
      <4> DEFINE x == i - L
      <4> HIDE DEF x
      <4>1. x \in 1..n
        BY <3>1 DEF x
      <4>2. o2[L + x].io_msg = b[x] /\ o2[L + x].at = now
        BY <1>2, <4>1 DEF Moved, o, L
      <4> QED BY <4>2 DEF x
    <3> QED BY <3>1, <3>2
  <2> QED BY <1>3, <2>1, <2>2
<1>5. ASSUME NEW i \in 1..Len(b2)
      PROVE  n + i \in (n + 1)..Len(b) /\ n + i \in 1..Len(b) /\ b2[i] = b[n + i]
  BY <1>2, <1>3 DEF Moved
<1>6. /\ Sorted(b) /\ Ordered(b) /\ NoneTwice(b)
      /\ \A i \in 1..Len(b) : Sound(b[i])
      /\ \A i \in 1..L : Sound(o[i].io_msg) /\ o[i].io_msg.due <= o[i].at
      /\ \A i \in 1..L, j \in 1..Len(b) : InOrder(o[i].io_msg, b[j])
  BY DEF ChannelInv, Buffered, Left, Follows, b, o, L
<1>7. /\ Len(Sent(o)) = L /\ \A i \in 1..L : Sent(o)[i] = o[i].io_msg
      /\ Len(Sent(o2)) = L + n /\ \A i \in 1..Len(o2) : Sent(o2)[i] = o2[i].io_msg
  <2>1. /\ Sent(o) = [i \in 1..L |-> o[i].io_msg]
        /\ Sent(o2) = [i \in 1..(L + n) |-> o2[i].io_msg]
    BY <1>3, Zenon DEF Sent, L, o
  <2> QED BY <1>3, <2>1
<1>8. Ordered(Sent(o)) /\ NoneTwice(Sent(o))
  BY DEF ChannelInv, Left, o
<1>9. ASSUME NEW i \in 1..L, NEW j \in 1..Len(b) PROVE Key(o[i].io_msg) # Key(b[j])
  <2>1. Holds(Sent(o), Key(o[i].io_msg))
    BY <1>7, <1>9 DEF Holds
  <2>2. Holds(b, Key(b[j]))
    BY DEF Holds
  <2>3. Key(b[j]) \in Keys
    <3>1. b[j] \in Packets
      BY ElementOfSeq DEF ChannelInv, BufferTypes, b
    <3> QED BY <3>1 DEF Packets, Key, Keys
  <2>4. OnePlace(Key(b[j]))
    BY <2>3 DEF ChannelInv, Places
  <2>5. ~(Holds(b, Key(b[j])) /\ Holds(Sent(o), Key(b[j])))
    BY <2>4, Zenon DEF OnePlace, b, o
  <2> QED BY <2>1, <2>2, <2>5
<1>10. BufferTypes'
  BY <1>2, <1>3 DEF BufferTypes, b2, o2
<1>11. Buffered'
  <2>1. Sorted(b2) /\ Ordered(b2)
    <3> SUFFICES ASSUME NEW i \in 1..Len(b2), NEW j \in 1..Len(b2), i < j
                 PROVE  b2[i].due <= b2[j].due /\ InOrder(b2[i], b2[j])
      BY DEF Sorted, Ordered
    <3>1. n + i < n + j
      BY <1>3
    <3> QED BY <1>5, <1>6, <3>1 DEF Sorted, Ordered
  <2>2. NoneTwice(b2)
    <3> SUFFICES ASSUME NEW i \in 1..Len(b2), NEW j \in 1..Len(b2), Key(b2[i]) = Key(b2[j])
                 PROVE  i = j
      BY DEF NoneTwice
    <3>1. n + i = n + j
      BY <1>5, <1>6 DEF NoneTwice
    <3> QED BY <1>3, <3>1
  <2>3. \A i \in 1..Len(b2) : Sound(b2[i])
    BY <1>5, <1>6
  <2> QED BY <2>1, <2>2, <2>3 DEF Buffered, b2
<1>12. Left'
  <2>1. Ordered(Sent(o2))
    <3> SUFFICES ASSUME NEW i \in 1..Len(o2), NEW j \in 1..Len(o2), i < j
                 PROVE  InOrder(o2[i].io_msg, o2[j].io_msg)
      BY <1>3, <1>7 DEF Ordered
    <3>1. CASE j \in 1..L /\ o2[j] = o[j]
      <4>1. i \in 1..L
        BY <1>3, <3>1
      <4> QED BY <1>3, <1>7, <1>8, <3>1, <4>1 DEF Ordered
    <3>2. CASE j - L \in 1..n /\ j - L \in 1..Len(b) /\ o2[j].io_msg = b[j - L]
      <4>1. CASE i \in 1..L /\ o2[i] = o[i]
        BY <1>6, <3>2, <4>1
      <4>2. CASE i - L \in 1..n /\ i - L \in 1..Len(b) /\ o2[i].io_msg = b[i - L]
        <5>1. i - L < j - L
          BY <1>3
        <5> QED BY <1>6, <3>2, <4>2, <5>1 DEF Ordered
      <4> QED BY <1>4, <4>1, <4>2
    <3> QED BY <1>4, <3>1, <3>2
  <2>2. NoneTwice(Sent(o2))
    <3> SUFFICES ASSUME NEW i \in 1..Len(o2), NEW j \in 1..Len(o2), 
                        Key(o2[i].io_msg) = Key(o2[j].io_msg)
                 PROVE  i = j
      BY <1>3, <1>7 DEF NoneTwice
    <3>1. CASE i \in 1..L /\ o2[i] = o[i] /\ j \in 1..L /\ o2[j] = o[j]
      BY <1>7, <1>8, <3>1 DEF NoneTwice
    <3>2. CASE i \in 1..L /\ o2[i] = o[i] /\ j - L \in 1..Len(b) /\ o2[j].io_msg = b[j - L]
      BY <1>9, <3>2
    <3>3. CASE j \in 1..L /\ o2[j] = o[j] /\ i - L \in 1..Len(b) /\ o2[i].io_msg = b[i - L]
      BY <1>9, <3>3
    <3>4. CASE /\ i - L \in 1..Len(b) /\ o2[i].io_msg = b[i - L]
               /\ j - L \in 1..Len(b) /\ o2[j].io_msg = b[j - L]
      <4>1. i - L = j - L
        BY <1>6, <3>4 DEF NoneTwice
      <4> QED BY <1>3, <4>1
    <3> QED BY <1>4, <3>1, <3>2, <3>3, <3>4
  <2>3. ASSUME NEW i \in 1..Len(o2)
        PROVE  Sound(o2[i].io_msg) /\ o2[i].io_msg.due <= o2[i].at
    <3>1. CASE i \in 1..L /\ o2[i] = o[i]
      BY <1>6, <3>1
    <3>2. CASE /\ i - L \in 1..n /\ i - L \in 1..Len(b)
               /\ o2[i].io_msg = b[i - L] /\ o2[i].at = now
      <4>1. b[i - L].due <= now
        BY <1>2, <1>3, <3>2
      <4> QED BY <1>6, <3>2, <4>1
    <3> QED BY <1>4, <3>1, <3>2
  <2> QED BY <2>1, <2>2, <2>3 DEF Left, o2
<1>13. Follows'
  <2>3. ASSUME NEW i \in 1..Len(o2), NEW j \in 1..Len(b2)
        PROVE  InOrder(o2[i].io_msg, b2[j])
    <3>1. CASE i \in 1..L /\ o2[i] = o[i]
      BY <1>5, <1>6, <3>1
    <3>2. CASE i - L \in 1..n /\ i - L \in 1..Len(b) /\ o2[i].io_msg = b[i - L]
      <4>1. i - L < n + j
        BY <1>3, <3>2
      <4> QED BY <1>5, <1>6, <3>2, <4>1 DEF Ordered
    <3> QED BY <1>4, <3>1, <3>2
  <2>4. ASSUME NEW p \in Pairs, NEW j \in 1..Len(forward_buffer_[p])
        PROVE  /\ \A i \in 1..Len(b2) :
                    OfPair(b2[i], p) => Older(b2[i], forward_buffer_[p][j])
               /\ \A i \in 1..Len(o2) :
                    OfPair(o2[i].io_msg, p) => Older(o2[i].io_msg, forward_buffer_[p][j])
    <3>1. /\ \A i \in 1..Len(b) : OfPair(b[i], p) => Older(b[i], forward_buffer_[p][j])
          /\ \A i \in 1..L :
                OfPair(o[i].io_msg, p) => Older(o[i].io_msg, forward_buffer_[p][j])
      BY DEF ChannelInv, Follows, b, o, L
    <3> QED BY <1>4, <1>5, <3>1
  <2> QED BY <1>1, <2>3, <2>4 DEF Follows, b2, o2
<1>14. Queued'
  BY <1>1 DEF ChannelInv, Queued
<1>15. ASSUME NEW k \in Keys PROVE OnePlace(k)'
  <2> DEFINE moved == \E i \in 1..n : Key(b[i]) = k
  <2>1. OnePlace(k)
    BY DEF ChannelInv, Places
  <2>2. /\ WaitsFor(k)' <=> WaitsFor(k)
        /\ (k \in dropped)' <=> k \in dropped
        /\ (k \in discarded)' <=> k \in discarded
        /\ (k \in accepted)' <=> k \in accepted
    BY <1>1 DEF WaitsFor
  <2>3. Holds(b2, k) <=> Holds(b, k) /\ ~moved
    <3>1. ASSUME Holds(b2, k) PROVE Holds(b, k) /\ ~moved
      <4>1. PICK i \in 1..Len(b2) : Key(b2[i]) = k
        BY <3>1 DEF Holds
      <4>2. n + i \in 1..Len(b) /\ Key(b[n + i]) = k
        BY <1>5, <4>1
      <4>3. \A j \in 1..n : j \in 1..Len(b) /\ j # n + i
        BY <1>3, <4>1
      <4> QED BY <1>6, <4>2, <4>3 DEF Holds, NoneTwice
    <3>2. ASSUME Holds(b, k), ~moved PROVE Holds(b2, k)
      <4>1. PICK i \in 1..Len(b) : Key(b[i]) = k
        BY <3>2 DEF Holds
      <4>2. ~(i \in 1..n)
        BY <3>2, <4>1
      <4>3. i - n \in 1..Len(b2) /\ n + (i - n) = i
        BY <1>3, <4>2
      <4>4. b2[i - n] = b[i]
        BY <1>5, <4>3
      <4> QED BY <4>1, <4>3, <4>4 DEF Holds
    <3> QED BY <3>1, <3>2
  <2>4. moved => Holds(b, k)
    <3>1. \A i \in 1..n : i \in 1..Len(b)
      BY <1>3
    <3> QED BY <3>1 DEF Holds
  <2>5. Holds(Sent(o2), k) <=> Holds(Sent(o), k) \/ moved
    <3>1. /\ Holds(Sent(o), k) <=> \E i \in 1..L : Key(o[i].io_msg) = k
          /\ Holds(Sent(o2), k) <=> \E i \in 1..Len(o2) : Key(o2[i].io_msg) = k
      BY <1>3, <1>7 DEF Holds
    <3>2. ASSUME NEW i \in 1..n
          PROVE  L + i \in 1..Len(o2) /\ o2[L + i].io_msg = b[i]
      BY <1>2, <1>3 DEF Moved, L, o
    <3>3. \A i \in 1..L : i \in 1..Len(o2) /\ o2[i] = o[i]
      BY <1>3
    <3>4. ASSUME Holds(Sent(o2), k) PROVE Holds(Sent(o), k) \/ moved
      <4>1. PICK i \in 1..Len(o2) : Key(o2[i].io_msg) = k
        BY <3>1, <3>4
      <4>2. \/ i \in 1..L /\ o2[i] = o[i]
            \/ i - L \in 1..n /\ o2[i].io_msg = b[i - L]
        BY <1>4
      <4> QED BY <3>1, <4>1, <4>2
    <3>5. ASSUME Holds(Sent(o), k) PROVE Holds(Sent(o2), k)
      BY <3>1, <3>3, <3>5
    <3>6. ASSUME moved PROVE Holds(Sent(o2), k)
      BY <3>1, <3>2, <3>6
    <3> QED BY <3>4, <3>5, <3>6
  <2>6. /\ (Holds(delay_buffer_, k))' <=> Holds(b2, k)
        /\ (Holds(Sent(udp_out), k))' <=> Holds(Sent(o2), k)
    BY DEF b2, o2
  <2> HIDE DEF moved
  <2> QED BY <2>1, <2>2, <2>3, <2>4, <2>5, <2>6 DEF OnePlace, b, o
<1>16. Places'
  <2>1. Keys' = Keys
    BY DEF Keys, Ids
  <2>2. /\ (accepted \subseteq Keys)'
        /\ (\A k \in accepted : k[1] < received)'
    BY <1>1, <2>1 DEF ChannelInv, Places
  <2>3. (\A k \in Keys : OnePlace(k))'
    BY <1>15, <2>1
  <2> QED BY <2>2, <2>3 DEF Places
<1> QED BY <1>10, <1>11, <1>12, <1>13, <1>14, <1>16 DEF ChannelInv

LEMMA TickChannel == ASSUME Tables, ChannelInv, Tick PROVE ChannelInv'
<1>1. /\ received' = received /\ now' = now + 1 /\ forward_buffer_' = forward_buffer_
      /\ dropped' = dropped /\ discarded' = discarded /\ accepted' = accepted
      /\ delay_buffer_' = delay_buffer_ /\ udp_out' = udp_out
  BY DEF Tick
<1>2. BufferTypes' /\ Buffered' /\ Left' /\ Places'
  BY <1>1 DEF ChannelInv, BufferTypes, Buffered, Left, Places, OnePlace, WaitsFor, Keys, Ids
<1>3. Queued' /\ Follows'
  BY <1>1 DEF ChannelInv, Queued, Follows
<1> QED BY <1>2, <1>3 DEF ChannelInv

LEMMA InitChannel == Init => ChannelInv
<1> SUFFICES ASSUME Init PROVE ChannelInv
  OBVIOUS
<1>1. /\ forward_buffer_ = [p \in Pairs |-> <<>>] /\ delay_buffer_ = <<>> /\ udp_out = <<>>
      /\ dropped = {} /\ discarded = {} /\ accepted = {} /\ Len(<<>>) = 0
  BY DEF Init
<1>2. BufferTypes
  BY <1>1 DEF BufferTypes
<1>3. \A p \in Pairs : Len(forward_buffer_[p]) = 0
  BY <1>1
<1>4. Queued /\ Follows
  BY <1>1, <1>3 DEF Queued, Follows
<1>5. Len(Sent(udp_out)) = 0
  BY <1>1 DEF Sent
<1>6. Buffered /\ Left
  BY <1>1, <1>5 DEF Buffered, Left, Sorted, Ordered, NoneTwice
<1>7. Places
  <2>1. ASSUME NEW k \in Keys PROVE OnePlace(k)
    <3>1. <<k[2], k[3]>> \in Pairs
      BY DEF Keys, Pairs
    <3>2. ~WaitsFor(k)
      BY <1>3, <3>1 DEF WaitsFor
    <3>3. ~Holds(delay_buffer_, k) /\ ~Holds(Sent(udp_out), k)
      BY <1>1, <1>5 DEF Holds
    <3> QED BY <1>1, <3>2, <3>3 DEF OnePlace
  <2> QED BY <1>1, <2>1 DEF Places
<1> QED BY <1>2, <1>4, <1>6, <1>7 DEF ChannelInv

LEMMA NextChannel == Inv /\ ChannelInv /\ [Next]_vars => ChannelInv'
<1> SUFFICES ASSUME Inv, ChannelInv, [Next]_vars PROVE ChannelInv'
  OBVIOUS
<1>0. Tables
  BY DEF Inv
<1>1. CASE UdpIn
  BY <1>0, <1>1, UdpInChannel
<1>2. CASE \E p \in Pairs : Answer(p)
  BY <1>0, <1>2, ResponseChannel DEF Answer
<1>3. CASE OtherAnswer
  BY <1>0, <1>3, ResponseChannel DEF OtherAnswer
<1>4. CASE loop
  BY <1>0, <1>4, LoopChannel
<1>5. CASE Tick
  BY <1>0, <1>5, TickChannel
<1>6. CASE UNCHANGED <<now, received, forward_buffer_, delay_buffer_, udp_out, dropped,
                       discarded, accepted>>
  BY <1>6 DEF ChannelInv, BufferTypes, Queued, Buffered, Left, Follows, Places, OnePlace,
              WaitsFor, Keys, Ids
<1>7. CASE \/ process_performance_response \/ UnknownSource \/ UnknownReceiver
           \/ UNCHANGED vars
  BY <1>6, <1>7 DEF process_performance_response, UnknownSource, UnknownReceiver, vars
<1> QED BY <1>1, <1>2, <1>3, <1>4, <1>5, <1>7 DEF Next

(* The inductive invariant of the channel.                                 *)
LEMMA ChannelInvariant == Spec => [](Inv /\ ChannelInv)
<1>1. Init => Inv /\ ChannelInv
  BY InitInv, InitChannel
<1>2. (Inv /\ ChannelInv) /\ [Next]_vars => (Inv /\ ChannelInv)'
  BY NextInv, NextChannel
<1> QED BY <1>1, <1>2, PTL DEF Spec

-----------------------------------------------------------------------------
(* What follows *)

LEMMA CountOne ==
    ASSUME NEW S, \A x, y \in S : x = y
    PROVE  /\ S = {} => Cardinality(S) = 0
           /\ S # {} => Cardinality(S) = 1
<1>1. CASE S = {}
  BY <1>1, FS_EmptySet
<1>2. CASE S # {}
  <2>1. PICK x : x \in S
    BY <1>2
  <2>2. S = {x}
    BY <2>1
  <2> QED BY <2>2, FS_Singleton
<1> QED BY <1>1, <1>2

(* A datagram netsim_udp has accepted for a receiver is in exactly one     *)
(* place, whoever asked for the impulse responses and however many came.   *)
THEOREM OnePlaceEach == Spec => []ExactlyOnce
<1>1. Inv /\ ChannelInv => ExactlyOnce
  <2> SUFFICES ASSUME Tables, ChannelInv, NEW m \in Ids, NEW s \in Modems, NEW d \in Modems
               PROVE  Copies(m, s, d) = IF <<m, s, d>> \in accepted THEN 1 ELSE 0
    BY DEF Inv, ExactlyOnce
  <2> DEFINE k == <<m, s, d>>
             p == <<s, d>>
             F == {i \in DOMAIN forward_buffer_[p] : forward_buffer_[p][i].msg = m}
             B == {i \in DOMAIN delay_buffer_ :
                     /\ delay_buffer_[i].msg = m /\ delay_buffer_[i].src = s
                     /\ delay_buffer_[i].dest = d}
             O == {i \in DOMAIN udp_out :
                     /\ udp_out[i].io_msg.msg = m /\ udp_out[i].io_msg.src = s
                     /\ udp_out[i].io_msg.dest = d}
             dr == IF k \in dropped THEN 1 ELSE 0
             di == IF k \in discarded THEN 1 ELSE 0
  <2>1. Copies(m, s, d) = Cardinality(F) + Cardinality(B) + Cardinality(O) + dr + di
    BY Zenon DEF Copies
  <2>2. p \in Pairs /\ k \in Keys /\ k[1] = m /\ k[2] = s /\ k[3] = d
    BY DEF Pairs, Keys
  <2>3. OnePlace(k)
    BY <2>2 DEF ChannelInv, Places
  <2>4. /\ DOMAIN forward_buffer_[p] = 1..Len(forward_buffer_[p])
        /\ DOMAIN delay_buffer_ = 1..Len(delay_buffer_)
        /\ DOMAIN udp_out = 1..Len(udp_out)
        /\ Len(udp_out) \in Nat /\ Len(delay_buffer_) \in Nat /\ Len(forward_buffer_[p]) \in Nat
    <3>1. /\ forward_buffer_[p] \in Seq(Waiting) /\ delay_buffer_ \in Seq(Packets)
          /\ udp_out \in Seq(Published)
      BY <2>2 DEF Tables, ChannelInv, BufferTypes
    <3> QED BY <3>1, LenProperties
  <2>5. \A x, y \in F : x = y
    <3> SUFFICES ASSUME NEW x \in F, NEW y \in F, x # y PROVE FALSE
      OBVIOUS
    <3>1. /\ x \in 1..Len(forward_buffer_[p]) /\ y \in 1..Len(forward_buffer_[p])
          /\ forward_buffer_[p][x].msg = m /\ forward_buffer_[p][y].msg = m
      BY <2>4
    <3>2. \A i, j \in 1..Len(forward_buffer_[p]) :
             i < j => Older(forward_buffer_[p][i], forward_buffer_[p][j])
      BY <2>2 DEF ChannelInv, Queued
    <3>3. m < m
      <4>1. x < y \/ y < x
        BY <2>4, <3>1
      <4>2. \/ Older(forward_buffer_[p][x], forward_buffer_[p][y])
            \/ Older(forward_buffer_[p][y], forward_buffer_[p][x])
        BY <3>1, <3>2, <4>1
      <4> QED BY <3>1, <4>2 DEF Older
    <3>4. m \in Nat
      BY UDPBoundsAssumption DEF Ids
    <3> QED BY <3>3, <3>4
  <2>6. F # {} <=> WaitsFor(k)
    <3>1. WaitsFor(k) <=> \E i \in 1..Len(forward_buffer_[p]) : forward_buffer_[p][i].msg = m
      BY <2>2, Zenon DEF WaitsFor
    <3> QED BY <2>4, <3>1
  <2>7. \A x, y \in B : x = y
    BY <2>4 DEF ChannelInv, Buffered, NoneTwice, Key
  <2>8. B # {} <=> Holds(delay_buffer_, k)
    BY <2>4 DEF Holds, Key
  <2>9. /\ Len(Sent(udp_out)) = Len(udp_out)
        /\ \A i \in 1..Len(udp_out) : Sent(udp_out)[i] = udp_out[i].io_msg
    BY <2>4 DEF Sent
  <2>10. \A x, y \in O : x = y
    BY <2>4, <2>9 DEF ChannelInv, Left, NoneTwice, Key
  <2>11. O # {} <=> Holds(Sent(udp_out), k)
    BY <2>4, <2>9 DEF Holds, Key
  <2> HIDE DEF F, B, O, k, p
  <2>12. /\ Cardinality(F) = IF WaitsFor(k) THEN 1 ELSE 0
         /\ Cardinality(B) = IF Holds(delay_buffer_, k) THEN 1 ELSE 0
         /\ Cardinality(O) = IF Holds(Sent(udp_out), k) THEN 1 ELSE 0
    BY <2>5, <2>6, <2>7, <2>8, <2>10, <2>11, CountOne
  <2>13. Copies(m, s, d) = IF k \in accepted THEN 1 ELSE 0
    BY <2>1, <2>3, <2>12 DEF OnePlace
  <2> QED BY <2>13 DEF k
<1> QED BY <1>1, ChannelInvariant, PTL

(* Datagrams between the same two modems that travel equally long are      *)
(* published by loop() in the order in which they were received, unless    *)
(* the later one bears an earlier time, for every number of them, whatever *)
(* times they bear and whichever responses release them.                   *)
THEOREM PublishedInOrder == Spec => []OrderKept
<1>1. Inv /\ ChannelInv => OrderKept
  <2> SUFFICES ASSUME ChannelInv, NEW i \in DOMAIN udp_out, NEW j \in DOMAIN udp_out, i < j,
                      NEW x, x = udp_out[i].io_msg, NEW y, y = udp_out[j].io_msg,
                      x.src = y.src, x.dest = y.dest, x.owtt = y.owtt
               PROVE  x.msg < y.msg \/ x.time < y.time
    BY DEF OrderKept
  <2>1. DOMAIN udp_out = 1..Len(udp_out) /\ Len(udp_out) \in Nat
    BY LenProperties DEF ChannelInv, BufferTypes
  <2>2. /\ Len(Sent(udp_out)) = Len(udp_out)
        /\ Sent(udp_out)[i] = x /\ Sent(udp_out)[j] = y
    BY <2>1 DEF Sent
  <2>3. InOrder(x, y)
    BY <2>1, <2>2 DEF ChannelInv, Left, Ordered
  <2> QED BY <2>3 DEF InOrder, SamePair
<1> QED BY <1>1, ChannelInvariant, PTL

(* loop() publishes nothing before the travel time of a loudest ray (with  *)
(* the outlier) has passed since the time the datagram bears.              *)
THEOREM PublishedNotEarly == Spec => []NeverEarly
<1>1. Inv /\ ChannelInv => NeverEarly
  <2> SUFFICES ASSUME ChannelInv, NEW i \in DOMAIN udp_out,
                      NEW io, io = udp_out[i].io_msg, \E r \in Range(io.rays) : r.amp # 0
               PROVE  \E r \in Range(io.rays), o \in Outliers :
                         /\ \A q \in Range(io.rays) : q.amp * q.amp <= r.amp * r.amp
                         /\ udp_out[i].at - io.time >= r.delay + o
    BY DEF NeverEarly
  <2>1. i \in 1..Len(udp_out) /\ udp_out[i] \in Published
    BY LenProperties, ElementOfSeq DEF ChannelInv, BufferTypes
  <2>2. io \in Packets /\ udp_out[i].at \in Int
    BY <2>1, UDPBoundsAssumption DEF Published
  <2>3. Sound(io) /\ io.due <= udp_out[i].at
    BY <2>1 DEF ChannelInv, Left
  <2>4. PICK r \in Range(io.rays), o \in Outliers : Loud(io.rays, r) /\ io.owtt = r.delay + o
    BY <2>3, Zenon DEF Sound, Arrival
  <2>5. /\ io.due \in Int /\ io.time \in Int /\ io.owtt \in Int
        /\ io.due = io.time + io.owtt
    BY <2>2, <2>3, PacketTypes
  <2>6. udp_out[i].at - io.time >= io.owtt
    BY <2>2, <2>3, <2>5
  <2> QED BY <2>4, <2>6 DEF Loud
<1> QED BY <1>1, ChannelInvariant, PTL

=============================================================================
