------------------------ MODULE DetectorLogger_proof ------------------------
(***************************************************************************)
(* Proofs about the two ends of the audio path: Detector, for every set of *)
(* sample sequences, every set of buffer sizes and every threshold, and    *)
(* Logger, for every set of modems and every number and length of packets. *)
(*                                                                         *)
(* Detector.  SentAtMostOnce is not inductive: a detection sends the whole *)
(* prebuffer, so the invariant also says that the prebuffer holds no       *)
(* buffer twice and none that was sent.  For CleanStart it says that       *)
(* outside of a packet the elements of the prebuffer that are newer than   *)
(* `unclean' are the most recent buffers, without a gap.                   *)
(*                                                                         *)
(* Logger.  The invariant LogInv (below) ties each entry of files_ to the  *)
(* queue that feeds it: every queue is a run of its detector's buffers     *)
(* that ends with the last one sent, an entry exists only in the middle of *)
(* a packet, and the length of an open file is the number of the next      *)
(* buffer less one.                                                        *)
(***************************************************************************)
EXTENDS Detector, Logger, TLAPS, SequenceTheorems

Message == [buffer : 0..MaxHeard, marker : Markers, packet_id : Nat \cup {-1}]

\* No real buffer occurs twice in a sequence of messages.
Distinct(s) ==
    \A i, j \in 1..Len(s) :
        i # j /\ s[i].buffer # Null => s[i].buffer # s[j].buffer

PrebufferDistinct ==
    \A i, j \in 1..Len(prebuffer_) :
        i # j /\ prebuffer_[i] # Null => prebuffer_[i] # prebuffer_[j]

PrebufferNotSent ==
    \A i \in 1..Len(prebuffer_), j \in 1..Len(published) :
        prebuffer_[i] # Null => published[j].buffer # prebuffer_[i]

HeardBounds ==
    /\ \A i \in 1..Len(prebuffer_) : prebuffer_[i] <= heard
    /\ \A i \in 1..Len(published) : published[i].buffer <= heard

RecentRun ==
    ~in_packet_ =>
        \A i \in 1..Len(prebuffer_) :
            prebuffer_[i] > unclean =>
                prebuffer_[i] = heard - (Len(prebuffer_) - i)

IndInv ==
    /\ TypeOK
    /\ HeardBounds
    /\ RecentRun
    /\ PrebufferDistinct
    /\ ~continuous => PrebufferNotSent /\ Distinct(published)

-----------------------------------------------------------------------------
(* Sequences *)

LEMMA AppendProps ==
    ASSUME NEW S, NEW s \in Seq(S), NEW e \in S
    PROVE  /\ Append(s, e) \in Seq(S)
           /\ Len(Append(s, e)) = Len(s) + 1
           /\ Append(s, e)[Len(s) + 1] = e
           /\ \A i \in 1..Len(s) : Append(s, e)[i] = s[i]
OBVIOUS

LEMMA CatProps ==
    ASSUME NEW S, NEW s \in Seq(S), NEW t \in Seq(S)
    PROVE  /\ s \o t \in Seq(S)
           /\ Len(s \o t) = Len(s) + Len(t)
           /\ \A i \in 1..Len(s) : (s \o t)[i] = s[i]
           /\ \A i \in 1..Len(t) : (s \o t)[Len(s) + i] = t[i]
OBVIOUS

LEMMA TailProps ==
    ASSUME NEW S, NEW s \in Seq(S), s # <<>>
    PROVE  /\ Tail(s) \in Seq(S)
           /\ Len(s) \in Nat \ {0}
           /\ Len(Tail(s)) = Len(s) - 1
           /\ \A i \in 1..Len(Tail(s)) : Tail(s)[i] = s[i + 1]
OBVIOUS

LEMMA CatDistinct ==
    ASSUME NEW s \in Seq(Message), NEW t \in Seq(Message),
           Distinct(s), Distinct(t),
           \A i \in 1..Len(s), j \in 1..Len(t) :
              t[j].buffer # Null => s[i].buffer # t[j].buffer
    PROVE  Distinct(s \o t)
<1> DEFINE c == s \o t
<1>1. /\ Len(c) = Len(s) + Len(t)
      /\ \A i \in 1..Len(s) : c[i] = s[i]
      /\ \A i \in 1..Len(t) : c[Len(s) + i] = t[i]
  BY CatProps
<1>2. Len(s) \in Nat /\ Len(t) \in Nat
  OBVIOUS
<1> HIDE DEF c
<1>3. \A k \in 1..Len(c) : \/ k \in 1..Len(s) /\ c[k] = s[k]
                           \/ /\ k - Len(s) \in 1..Len(t)
                              /\ c[k] = t[k - Len(s)]
  <2> TAKE k \in 1..Len(c)
  <2>1. CASE k \in 1..Len(s)
    BY <1>1, <2>1
  <2>2. CASE k \notin 1..Len(s)
    <3>1. k - Len(s) \in 1..Len(t) /\ k = Len(s) + (k - Len(s))
      BY <1>1, <1>2, <2>2
    <3> QED BY <1>1, <3>1
  <2> QED BY <2>1, <2>2
<1>4. Distinct(c)
  <2> SUFFICES ASSUME NEW i \in 1..Len(c), NEW j \in 1..Len(c), i # j,
                      c[i].buffer # Null
               PROVE  c[i].buffer # c[j].buffer
    BY DEF Distinct
  <2>1. CASE i \in 1..Len(s) /\ c[i] = s[i] /\ j \in 1..Len(s) /\ c[j] = s[j]
    BY <2>1 DEF Distinct
  <2>2. CASE /\ i \in 1..Len(s) /\ c[i] = s[i]
             /\ j - Len(s) \in 1..Len(t) /\ c[j] = t[j - Len(s)]
    BY <2>2
  <2>3. CASE /\ j \in 1..Len(s) /\ c[j] = s[j]
             /\ i - Len(s) \in 1..Len(t) /\ c[i] = t[i - Len(s)]
    BY <2>3
  <2>4. CASE /\ i - Len(s) \in 1..Len(t) /\ c[i] = t[i - Len(s)]
             /\ j - Len(s) \in 1..Len(t) /\ c[j] = t[j - Len(s)]
    <3>1. i - Len(s) # j - Len(s)
      BY <1>2
    <3> QED BY <2>4, <3>1 DEF Distinct
  <2> QED BY <1>3, <2>1, <2>2, <2>3, <2>4
<1> QED BY <1>4 DEF c

-----------------------------------------------------------------------------
(* The circular buffer *)

\* push_back adds b at the end and keeps the order of what it does not drop.
LEMMA PushBackProps ==
    ASSUME NEW N \in Nat, NEW pb \in Seq(0..N), NEW cap \in Nat \ {0},
           Len(pb) <= cap, NEW b \in 0..N
    PROVE  LET q == PushBack(pb, cap, b)
               d == Len(pb) + 1 - Len(q)
           IN  /\ q \in Seq(0..N)
               /\ Len(q) \in 1..cap
               /\ q[Len(q)] = b
               /\ d \in {0, 1}
               /\ \A i \in 1..(Len(q) - 1) :
                     i + d \in 1..Len(pb) /\ q[i] = pb[i + d]
<1>0. Len(pb) \in Nat
  OBVIOUS
<1>1. CASE Len(pb) < cap
  <2>1. PushBack(pb, cap, b) = Append(pb, b)
    BY <1>1 DEF PushBack
  <2> QED BY <1>0, <1>1, <2>1, AppendProps
<1>2. CASE ~(Len(pb) < cap)
  <2>1. PushBack(pb, cap, b) = Append(Tail(pb), b)
    BY <1>2 DEF PushBack
  <2>2. pb # <<>> /\ Len(pb) = cap
    BY <1>0, <1>2
  <2>3. /\ Tail(pb) \in Seq(0..N)
        /\ Len(Tail(pb)) = cap - 1
        /\ \A i \in 1..Len(Tail(pb)) : Tail(pb)[i] = pb[i + 1]
    BY <2>2, TailProps
  <2> DEFINE t == Tail(pb)
             q == Append(t, b)
  <2>4. /\ q \in Seq(0..N)
        /\ Len(q) = Len(t) + 1
        /\ q[Len(t) + 1] = b
        /\ \A i \in 1..Len(t) : q[i] = t[i]
    BY <2>3, AppendProps
  <2> HIDE DEF q, t
  <2>5. /\ Len(q) = cap /\ q[cap] = b /\ q \in Seq(0..N)
        /\ \A i \in 1..(cap - 1) : q[i] = pb[i + 1] /\ i + 1 \in 1..Len(pb)
    BY <2>2, <2>3, <2>4, SMTT(30) DEF t
  <2>6. PushBack(pb, cap, b) = q
    BY <2>1 DEF q, t
  <2> QED BY <2>2, <2>5, <2>6, SMTT(30)
<1> QED BY <1>1, <1>2

\* resize keeps a prefix; whatever it adds is null.
LEMMA ResizeProps ==
    ASSUME NEW N \in Nat, NEW pb \in Seq(0..N), NEW n \in Nat \ {0}
    PROVE  /\ Resize(pb, n) \in Seq(0..N)
           /\ Len(Resize(pb, n)) = n
           /\ \A i \in 1..n : \/ Resize(pb, n)[i] = Null
                              \/ i \in 1..Len(pb) /\ Resize(pb, n)[i] = pb[i]
<1>0. Len(pb) \in Nat
  OBVIOUS
<1>1. CASE n > Len(pb)
  <2> DEFINE pad == [i \in 1..(n - Len(pb)) |-> Null]
  <2>1. pad \in Seq(0..N) /\ Len(pad) = n - Len(pb)
    BY <1>0, <1>1 DEF Null
  <2>2. \A i \in 1..Len(pad) : pad[i] = Null
    BY <2>1
  <2>3. Resize(pb, n) = pb \o pad
    BY <1>1 DEF Resize
  <2> HIDE DEF pad
  <2>4. /\ pb \o pad \in Seq(0..N)
        /\ Len(pb \o pad) = Len(pb) + Len(pad)
        /\ \A i \in 1..Len(pb) : (pb \o pad)[i] = pb[i]
        /\ \A i \in 1..Len(pad) : (pb \o pad)[Len(pb) + i] = pad[i]
    BY <2>1, CatProps
  <2>5. ASSUME NEW i \in 1..n, i \notin 1..Len(pb)
        PROVE  (pb \o pad)[i] = Null
    <3>0. i - Len(pb) \in 1..Len(pad) /\ i = Len(pb) + (i - Len(pb))
      BY <1>0, <2>1, <2>5
    <3>1. PICK k \in 1..Len(pad) : i = Len(pb) + k
      BY <3>0
    <3>2. (pb \o pad)[Len(pb) + k] = pad[k]
      BY <2>4
    <3>3. pad[k] = Null
      BY <2>2
    <3> QED BY <3>1, <3>2, <3>3, Zenon
  <2>6. Resize(pb, n) \in Seq(0..N) /\ Len(Resize(pb, n)) = n
    BY <1>0, <2>1, <2>3, <2>4
  <2>7. ASSUME NEW i \in 1..n
        PROVE  Resize(pb, n)[i] = Null \/ (i \in 1..Len(pb) /\ Resize(pb, n)[i] = pb[i])
    <3>1. CASE i \in 1..Len(pb)
      <4>1. (pb \o pad)[i] = pb[i]
        BY <2>4, <3>1
      <4> QED BY <2>3, <3>1, <4>1
    <3>2. CASE i \notin 1..Len(pb)
      <4>1. (pb \o pad)[i] = Null
        BY <2>5, <3>2
      <4> QED BY <2>3, <4>1
    <3> QED BY <3>1, <3>2
  <2> QED BY <2>6, <2>7, Zenon
<1>2. CASE ~(n > Len(pb))
  <2>1. Resize(pb, n) = SubSeq(pb, 1, n)
    BY <1>2 DEF Resize
  <2> QED BY <1>0, <1>2, <2>1
<1> QED BY <1>1, <1>2

-----------------------------------------------------------------------------
(* The invariant *)

LEMMA InitIndInv == Init => IndInv
<1> SUFFICES ASSUME Init PROVE IndInv
  OBVIOUS
<1>1. TypeOK
  <2>1. /\ <<>> \in Seq(0..MaxHeard)
        /\ <<>> \in Seq([buffer : 0..MaxHeard, marker : Markers,
                         packet_id : Nat \cup {-1}])
        /\ <<>> \in Seq(BOOLEAN)
        /\ 0 \in 0..MaxHeard /\ 0 \in 0..MaxResizes /\ 0 \in 0..0
        /\ Len(<<>>) <= 1
    BY BoundsAssumption
  <2>2. in_packet_ \in BOOLEAN
    BY DEF Init
  <2>3. in_packet_id \in Nat \cup {-1}
    BY DEF Init
  <2>4. /\ frames_since_silence \in Nat
        /\ capacity \in Nat \ {0}
        /\ global_packet_id \in Nat
    BY DEF Init
  <2>5. /\ prebuffer_ \in Seq(0..MaxHeard)
        /\ Len(prebuffer_) <= capacity
        /\ published \in Seq([buffer : 0..MaxHeard, marker : Markers,
                              packet_id : Nat \cup {-1}])
        /\ since \in Seq(BOOLEAN)
    BY <2>1 DEF Init
  <2>6. heard \in 0..MaxHeard /\ resizes \in 0..MaxResizes /\ unclean \in 0..heard
    BY <2>1 DEF Init
  <2>7. continuous \in BOOLEAN
    BY ModesAssumption DEF Init
  <2> QED BY <2>2, <2>3, <2>4, <2>5, <2>6, <2>7 DEF TypeOK
<1>2. Len(prebuffer_) = 0 /\ Len(published) = 0
  BY DEF Init
<1> QED BY <1>1, <1>2 DEF IndInv, HeardBounds, RecentRun, PrebufferDistinct,
                          PrebufferNotSent, Distinct

\* What pushing the received buffer into the prebuffer preserves.
LEMMA PushKeeps ==
    ASSUME IndInv, Receive
    PROVE  LET q == PushBack(prebuffer_, capacity, heard + 1)
           IN  /\ q \in Seq(0..MaxHeard)
               /\ Len(q) \in 1..capacity
               /\ \A i \in 1..Len(q) : q[i] <= heard + 1
               /\ \A i, j \in 1..Len(q) : i # j /\ q[i] # Null => q[i] # q[j]
               /\ ~in_packet_ =>
                     \A i \in 1..Len(q) :
                        q[i] > unclean => q[i] = heard + 1 - (Len(q) - i)
               /\ ~continuous =>
                     \A i \in 1..Len(q), j \in 1..Len(published) :
                        q[i] # Null => published[j].buffer # q[i]
<1> DEFINE q == PushBack(prebuffer_, capacity, heard + 1)
           d == Len(prebuffer_) + 1 - Len(q)
<1>1. /\ MaxHeard \in Nat
      /\ prebuffer_ \in Seq(0..MaxHeard)
      /\ capacity \in Nat \ {0}
      /\ Len(prebuffer_) <= capacity
      /\ heard \in Nat /\ heard + 1 \in 0..MaxHeard
      /\ Len(prebuffer_) \in Nat
      /\ unclean \in Nat
  BY BoundsAssumption DEF IndInv, TypeOK, Receive
<1>2. /\ q \in Seq(0..MaxHeard)
      /\ Len(q) \in 1..capacity
      /\ q[Len(q)] = heard + 1
      /\ d \in {0, 1}
      /\ \A i \in 1..(Len(q) - 1) :
            i + d \in 1..Len(prebuffer_) /\ q[i] = prebuffer_[i + d]
  <2> DEFINE b == heard + 1
  <2>1. b \in 0..MaxHeard
    BY <1>1
  <2> HIDE DEF b
  <2>2. LET r == PushBack(prebuffer_, capacity, b)
            e == Len(prebuffer_) + 1 - Len(r)
        IN  /\ r \in Seq(0..MaxHeard) /\ Len(r) \in 1..capacity /\ r[Len(r)] = b
            /\ e \in {0, 1}
            /\ \A i \in 1..(Len(r) - 1) :
                  i + e \in 1..Len(prebuffer_) /\ r[i] = prebuffer_[i + e]
    BY <1>1, <2>1, PushBackProps
  <2> QED BY <2>2 DEF b
<1> HIDE DEF q
<1>3. \A i \in 1..Len(q) : i = Len(q) \/ i \in 1..(Len(q) - 1)
  BY <1>1, <1>2
<1>4. \A i \in 1..Len(prebuffer_) : prebuffer_[i] \in Nat /\ prebuffer_[i] <= heard
  BY <1>1 DEF IndInv, HeardBounds
<1>5. ASSUME NEW i \in 1..Len(q) PROVE q[i] <= heard + 1
  <2>1. CASE i = Len(q)
    BY <1>1, <1>2, <2>1
  <2>2. CASE i \in 1..(Len(q) - 1)
    <3>1. q[i] \in Nat /\ q[i] <= heard
      BY <1>2, <1>4, <2>2
    <3> QED BY <1>1, <3>1
  <2> QED BY <1>3, <2>1, <2>2
<1>6. ASSUME NEW i \in 1..Len(q), NEW j \in 1..Len(q), i # j, q[i] # Null
      PROVE  q[i] # q[j]
  <2>1. CASE i = Len(q)
    <3>1. j \in 1..(Len(q) - 1)
      BY <1>3, <1>6, <2>1
    <3>2. q[j] <= heard /\ q[j] \in Nat
      BY <1>2, <1>4, <3>1
    <3> QED BY <1>1, <1>2, <2>1, <3>2
  <2>2. CASE j = Len(q)
    <3>1. i \in 1..(Len(q) - 1)
      BY <1>3, <1>6, <2>2
    <3>2. q[i] <= heard /\ q[i] \in Nat
      BY <1>2, <1>4, <3>1
    <3> QED BY <1>1, <1>2, <2>2, <3>2
  <2>3. CASE i \in 1..(Len(q) - 1) /\ j \in 1..(Len(q) - 1)
    <3>1. /\ i + d \in 1..Len(prebuffer_) /\ q[i] = prebuffer_[i + d]
          /\ j + d \in 1..Len(prebuffer_) /\ q[j] = prebuffer_[j + d]
      BY <1>2, <2>3
    <3>2. i + d # j + d
      BY <1>2, <1>6, <2>3
    <3> HIDE DEF d
    <3> QED BY <1>6, <3>1, <3>2 DEF IndInv, PrebufferDistinct
  <2> QED BY <1>3, <2>1, <2>2, <2>3
<1>7. ASSUME ~in_packet_, NEW i \in 1..Len(q), q[i] > unclean
      PROVE  q[i] = heard + 1 - (Len(q) - i)
  <2>1. CASE i = Len(q)
    BY <1>1, <1>2, <2>1
  <2>2. CASE i \in 1..(Len(q) - 1)
    <3>1. q[i] = heard - (Len(prebuffer_) - (i + d))
      BY <1>2, <1>7, <2>2 DEF IndInv, RecentRun
    <3> QED BY <1>1, <1>2, <2>2, <3>1
  <2> QED BY <1>3, <2>1, <2>2
<1>8. ASSUME ~continuous, NEW i \in 1..Len(q), NEW j \in 1..Len(published),
             q[i] # Null
      PROVE  published[j].buffer # q[i]
  <2>1. CASE i = Len(q)
    <3>1. published[j].buffer <= heard
      BY DEF IndInv, HeardBounds
    <3> QED BY <1>1, <1>2, <2>1, <3>1
  <2>2. CASE i \in 1..(Len(q) - 1)
    BY <1>2, <1>8, <2>2 DEF IndInv, PrebufferNotSent
  <2> QED BY <1>3, <2>1, <2>2
<1> QED BY <1>2, <1>5, <1>6, <1>7, <1>8 DEF q

LEMMA ReceiveFacts ==
    ASSUME TypeOK, Receive
    PROVE  /\ heard \in Nat /\ heard' = heard + 1
           /\ heard + 1 \in 1..MaxHeard /\ heard' \in 0..MaxHeard
BY BoundsAssumption DEF TypeOK, Receive

LEMMA TaggedType ==
    ASSUME NEW b \in 0..MaxHeard, NEW k \in Markers, NEW id \in Nat \cup {-1}
    PROVE  Tagged(b, k, id) \in Message /\ Tagged(b, k, id).buffer = b
BY DEF Tagged, Message

LEMMA BufferIsNat ==
    ASSUME NEW s \in Seq(Message), NEW i \in 1..Len(s)
    PROVE  s[i].buffer \in Nat
<1>1. s[i] \in Message
  OBVIOUS
<1> QED BY <1>1 DEF Message

\* A step that sends the messages of m keeps what the invariant says of the
\* messages if they are new and distinct.
LEMMA SendKeeps ==
    ASSUME IndInv, NEW m \in Seq(Message), published' = published \o m,
           heard' \in Nat, heard <= heard',
           \A i \in 1..Len(m) : m[i].buffer <= heard',
           ~continuous => /\ Distinct(m)
                          /\ \A i \in 1..Len(published), j \in 1..Len(m) :
                                m[j].buffer # Null =>
                                    published[i].buffer # m[j].buffer
    PROVE  /\ published' \in Seq(Message)
           /\ \A i \in 1..Len(published') : published'[i].buffer <= heard'
           /\ ~continuous => Distinct(published')
<1>1. published \in Seq(Message) /\ heard \in Nat
  BY BoundsAssumption DEF IndInv, TypeOK, Message
<1>2. /\ published' \in Seq(Message)
      /\ Len(published') = Len(published) + Len(m)
      /\ \A i \in 1..Len(published) : published'[i] = published[i]
      /\ \A i \in 1..Len(m) : published'[Len(published) + i] = m[i]
  BY <1>1, CatProps
<1>3. ASSUME NEW i \in 1..Len(published') PROVE published'[i].buffer <= heard'
  <2>1. CASE i \in 1..Len(published)
    <3>1. published'[i].buffer = published[i].buffer
      BY <1>2, <2>1
    <3>2. published[i].buffer <= heard
      BY <2>1 DEF IndInv, HeardBounds
    <3>3. published[i].buffer \in Nat
      BY <1>1, <2>1, BufferIsNat
    <3> QED BY <1>1, <3>1, <3>2, <3>3
  <2>2. CASE i \notin 1..Len(published)
    <3>1. i - Len(published) \in 1..Len(m) /\ i = Len(published) + (i - Len(published))
      BY <1>1, <1>2, <2>2
    <3> QED BY <1>2, <3>1
  <2> QED BY <2>1, <2>2
<1>4. ~continuous => Distinct(published')
  BY <1>1, CatDistinct DEF IndInv
<1> QED BY <1>2, <1>3, <1>4

\* Sending one message for the buffer just received.
LEMMA SendOneKeeps ==
    ASSUME IndInv, Receive, NEW k \in Markers, NEW id \in Nat \cup {-1},
           published' = Append(published, Tagged(heard + 1, k, id))
    PROVE  /\ published' \in Seq(Message)
           /\ \A i \in 1..Len(published') : published'[i].buffer <= heard'
           /\ ~continuous => Distinct(published')
<1>1. /\ heard \in Nat /\ heard' = heard + 1 /\ heard + 1 \in 0..MaxHeard
      /\ published \in Seq(Message)
  BY ReceiveFacts DEF IndInv, TypeOK, Message
<1> DEFINE m == <<Tagged(heard + 1, k, id)>>
<1>2. Tagged(heard + 1, k, id) \in Message /\ Tagged(heard + 1, k, id).buffer = heard + 1
  BY <1>1, TaggedType
<1>3. m \in Seq(Message) /\ Len(m) = 1 /\ m[1].buffer = heard + 1
  BY <1>2
<1>4. published' = published \o m
  BY <1>1, <1>2
<1> HIDE DEF m
<1>5. Distinct(m)
  BY <1>3 DEF Distinct
<1>6. \A i \in 1..Len(published) : published[i].buffer # heard + 1
  <2> TAKE i \in 1..Len(published)
  <2>1. published[i].buffer <= heard
    BY DEF IndInv, HeardBounds
  <2>2. published[i].buffer \in Nat
    BY <1>1, BufferIsNat
  <2> QED BY <1>1, <2>1, <2>2
<1>7. heard' \in Nat /\ heard <= heard'
  BY <1>1
<1>8. \A i \in 1..Len(m) : m[i].buffer <= heard'
  BY <1>1, <1>3
<1>9. \A i \in 1..Len(published), j \in 1..Len(m) :
         m[j].buffer # Null => published[i].buffer # m[j].buffer
  BY <1>3, <1>6
<1> QED BY <1>3, <1>4, <1>5, <1>7, <1>8, <1>9, SendKeeps

LEMMA PacketHeadProps ==
    ASSUME NEW q \in Seq(0..MaxHeard), NEW id \in Nat
    PROVE  /\ PacketHead(q, id) \in Seq(Message)
           /\ Len(PacketHead(q, id)) = Len(q)
           /\ \A i \in 1..Len(q) : PacketHead(q, id)[i].buffer = q[i]
           /\ q # <<>> => PacketHead(q, id)[1].marker = "START"
<1>0. \A i \in 1..Len(q) : q[i] \in 0..MaxHeard
  BY BoundsAssumption
<1> DEFINE mk(i) == IF i = 1 THEN "START" ELSE "NONE"
           m == [i \in 1..Len(q) |-> Tagged(q[i], mk(i), id)]
<1>1. \A i \in 1..Len(q) : /\ Tagged(q[i], mk(i), id) \in Message
                           /\ Tagged(q[i], mk(i), id).buffer = q[i]
  <2> TAKE i \in 1..Len(q)
  <2>1. q[i] \in 0..MaxHeard
    BY <1>0
  <2>2. mk(i) \in Markers
    BY DEF Markers
  <2>3. id \in Nat \cup {-1}
    OBVIOUS
  <2> HIDE DEF mk
  <2> QED BY <2>1, <2>2, <2>3, TaggedType
<1>2. Len(q) \in Nat
  OBVIOUS
<1>3. m \in Seq(Message) /\ Len(m) = Len(q)
  BY <1>1, <1>2
<1>4. \A i \in 1..Len(q) : m[i] = Tagged(q[i], mk(i), id)
  OBVIOUS
<1>5. q # <<>> => m[1].marker = "START"
  <2>1. q # <<>> => 1 \in 1..Len(q)
    OBVIOUS
  <2>2. Tagged(q[1], "START", id).marker = "START"
    BY DEF Tagged
  <2> QED BY <1>4, <2>1, <2>2
<1>6. PacketHead(q, id) = m
  BY DEF PacketHead
<1> QED BY <1>1, <1>3, <1>4, <1>5, <1>6

\* Steps that leave the prebuffer alone while a buffer is received in a packet.
LEMMA InPacketKeeps ==
    ASSUME IndInv, Receive, UNCHANGED <<continuous, prebuffer_, capacity, resizes>>,
           in_packet_, in_packet_' \in BOOLEAN, in_packet_id' = in_packet_id,
           global_packet_id' = global_packet_id,
           frames_since_silence' \in Nat, since' \in Seq(BOOLEAN),
           in_packet_' \/ unclean' = heard + 1, unclean' \in 0..heard',
           NEW k \in Markers,
           ~continuous =>
              published' = Append(published, Tagged(heard + 1, k, in_packet_id)),
           published' \in Seq(Message),
           \A i \in 1..Len(published') : published'[i].buffer <= heard'
    PROVE  IndInv'
<1>1. /\ heard \in Nat /\ heard' = heard + 1 /\ heard' \in 0..MaxHeard
      /\ heard + 1 \in 0..MaxHeard
      /\ prebuffer_ \in Seq(0..MaxHeard) /\ published \in Seq(Message)
      /\ in_packet_id \in Nat \cup {-1}
  BY ReceiveFacts DEF IndInv, TypeOK, Message
<1>2. TypeOK'
  BY <1>1 DEF IndInv, TypeOK, Message
<1>3. \A i \in 1..Len(prebuffer_) : prebuffer_[i] \in Nat /\ prebuffer_[i] <= heard
  BY <1>1, BoundsAssumption DEF IndInv, HeardBounds
<1>4. HeardBounds'
  <2>1. \A i \in 1..Len(prebuffer_) : prebuffer_[i] <= heard + 1
    BY <1>1, <1>3
  <2> QED BY <1>1, <2>1 DEF HeardBounds
<1>5. RecentRun'
  <2> SUFFICES ASSUME ~in_packet_', NEW i \in 1..Len(prebuffer_)
               PROVE  ~(prebuffer_[i] > unclean')
    BY DEF RecentRun
  <2>1. unclean' = heard + 1
    OBVIOUS
  <2>2. prebuffer_[i] \in Nat /\ prebuffer_[i] <= heard
    BY <1>3
  <2> QED BY <1>1, <2>1, <2>2
<1>6. PrebufferDistinct'
  BY DEF IndInv, PrebufferDistinct
<1>7. ASSUME ~continuous PROVE PrebufferNotSent' /\ Distinct(published')
  <2>1. Distinct(published')
    BY <1>1, <1>7, SendOneKeeps
  <2>2. /\ Tagged(heard + 1, k, in_packet_id) \in Message
        /\ Tagged(heard + 1, k, in_packet_id).buffer = heard + 1
    BY <1>1, TaggedType
  <2>3. /\ Len(published') = Len(published) + 1
        /\ published'[Len(published) + 1].buffer = heard + 1
        /\ \A i \in 1..Len(published) : published'[i] = published[i]
    <3> DEFINE e == Tagged(heard + 1, k, in_packet_id)
    <3>1. published' = Append(published, e)
      BY <1>7
    <3>2. e \in Message /\ e.buffer = heard + 1
      BY <2>2
    <3> HIDE DEF e
    <3> QED BY <1>1, <3>1, <3>2, AppendProps
  <2>4. ASSUME NEW i \in 1..Len(prebuffer_), NEW j \in 1..Len(published'),
               prebuffer_[i] # Null
        PROVE  published'[j].buffer # prebuffer_[i]
    <3>1. CASE j \in 1..Len(published)
      BY <1>7, <2>3, <2>4, <3>1 DEF IndInv, PrebufferNotSent
    <3>2. CASE j = Len(published) + 1
      <4>1. prebuffer_[i] \in Nat /\ prebuffer_[i] <= heard
        BY <1>3
      <4> QED BY <1>1, <2>3, <3>2, <4>1
    <3>3. j \in 1..Len(published) \/ j = Len(published) + 1
      <4>1. Len(published) \in Nat
        BY <1>1
      <4> QED BY <2>3, <4>1
    <3> QED BY <3>1, <3>2, <3>3
  <2> QED BY <2>1, <2>4 DEF PrebufferNotSent
<1> QED BY <1>2, <1>4, <1>5, <1>6, <1>7 DEF IndInv

\* Steps that push the received buffer into the prebuffer and leave it there.
LEMMA PushedKeeps ==
    ASSUME IndInv, Receive, ~in_packet_, in_packet_' \in BOOLEAN,
           prebuffer_' = PushBack(prebuffer_, capacity, heard + 1),
           UNCHANGED <<continuous, capacity, resizes, unclean, frames_since_silence>>,
           in_packet_id' \in Nat \cup {-1}, global_packet_id' \in Nat,
           since' \in Seq(BOOLEAN),
           ~continuous => published' = published,
           published' \in Seq(Message),
           \A i \in 1..Len(published') : published'[i].buffer <= heard'
    PROVE  IndInv'
<1>1. /\ heard \in Nat /\ heard' = heard + 1 /\ heard' \in 0..MaxHeard
      /\ unclean \in 0..heard
  BY ReceiveFacts DEF IndInv, TypeOK
<1>2. /\ prebuffer_' \in Seq(0..MaxHeard)
      /\ Len(prebuffer_') \in 1..capacity
      /\ \A i \in 1..Len(prebuffer_') : prebuffer_'[i] <= heard + 1
      /\ \A i, j \in 1..Len(prebuffer_') :
            i # j /\ prebuffer_'[i] # Null => prebuffer_'[i] # prebuffer_'[j]
      /\ \A i \in 1..Len(prebuffer_') :
            prebuffer_'[i] > unclean =>
                prebuffer_'[i] = heard + 1 - (Len(prebuffer_') - i)
      /\ ~continuous =>
            \A i \in 1..Len(prebuffer_'), j \in 1..Len(published) :
               prebuffer_'[i] # Null => published[j].buffer # prebuffer_'[i]
  BY PushKeeps
<1>3. TypeOK'
  <2>1. unclean' \in 0..heard' /\ resizes' \in 0..MaxResizes
    BY <1>1 DEF IndInv, TypeOK
  <2>2. capacity' \in Nat \ {0} /\ Len(prebuffer_') <= capacity'
    BY <1>2 DEF IndInv, TypeOK
  <2> QED BY <1>1, <1>2, <2>1, <2>2 DEF IndInv, TypeOK, Message
<1>4. HeardBounds'
  <2>1. \A i \in 1..Len(prebuffer_') : prebuffer_'[i] <= heard'
    BY <1>1, <1>2
  <2> QED BY <2>1 DEF HeardBounds
<1>5. RecentRun'
  <2> SUFFICES \A i \in 1..Len(prebuffer_') :
                  prebuffer_'[i] > unclean =>
                      prebuffer_'[i] = heard' - (Len(prebuffer_') - i)
    <3>1. unclean' = unclean
      OBVIOUS
    <3> QED BY <3>1 DEF RecentRun
  <2> TAKE i \in 1..Len(prebuffer_')
  <2> HAVE prebuffer_'[i] > unclean
  <2>1. prebuffer_'[i] = heard + 1 - (Len(prebuffer_') - i)
    BY <1>2
  <2>2. heard' = heard + 1 /\ heard \in Nat
    BY <1>1
  <2>3. i \in Nat /\ Len(prebuffer_') \in Nat
    BY <1>2
  <2> QED BY <2>1, <2>2, <2>3
<1>6. PrebufferDistinct'
  BY <1>2 DEF PrebufferDistinct
<1>7. ~continuous => PrebufferNotSent' /\ Distinct(published')
  <2> SUFFICES ASSUME ~continuous PROVE PrebufferNotSent' /\ Distinct(published')
    OBVIOUS
  <2>1. published' = published
    OBVIOUS
  <2>2. PrebufferNotSent'
    BY <1>2, <2>1 DEF PrebufferNotSent
  <2> QED BY <2>1, <2>2 DEF IndInv
<1> QED BY <1>3, <1>4, <1>5, <1>6, <1>7 DEF IndInv

LEMMA NextIndInv == IndInv /\ [Next]_vars => IndInv'
<1> SUFFICES ASSUME IndInv, [Next]_vars PROVE IndInv'
  OBVIOUS
<1>0. /\ TypeOK /\ HeardBounds /\ RecentRun /\ PrebufferDistinct
      /\ ~continuous => PrebufferNotSent /\ Distinct(published)
      /\ MaxHeard \in Nat /\ MaxResizes \in Nat
      /\ published \in Seq(Message)
      /\ heard \in Nat
  BY BoundsAssumption DEF IndInv, TypeOK, Message
<1>c. continuous' = continuous
  BY DEF Next, vars, AudioIn, BufferSizeChange, Quiet, DetectContinuous,
         DetectHeadless, DetectStart, Detect, PacketContinues, PacketEnds, Receive
<1>1. ASSUME NEW s \in Samples, Quiet(s) PROVE IndInv'
  <2>1. /\ published' \in Seq(Message)
        /\ \A i \in 1..Len(published') : published'[i].buffer <= heard'
    <3>1. CASE continuous
      BY <1>0, <1>1, <3>1, SendOneKeeps DEF Quiet, Markers, TypeOK
    <3>2. CASE ~continuous
      <4>1. published' = published /\ heard' = heard + 1
        BY <1>1, <3>2 DEF Quiet, Receive
      <4>2. \A i \in 1..Len(published) : /\ published[i].buffer <= heard
                                         /\ published[i].buffer \in Nat
        BY <1>0, BufferIsNat DEF HeardBounds
      <4> QED BY <1>0, <4>1, <4>2
    <3> QED BY <3>1, <3>2
  <2>2. /\ in_packet_' \in BOOLEAN /\ in_packet_id' \in Nat \cup {-1}
        /\ global_packet_id' \in Nat /\ since' \in Seq(BOOLEAN)
    BY <1>0, <1>1 DEF Quiet, core, TypeOK
  <2> QED BY <1>c, <1>1, <2>1, <2>2, PushedKeeps DEF Quiet, core
<1>2. ASSUME NEW s \in Samples, Detect(s)
      PROVE  /\ Receive /\ ~in_packet_ /\ in_packet_' = TRUE
             /\ in_packet_id' \in Nat \cup {-1} /\ global_packet_id' \in Nat
             /\ since' \in Seq(BOOLEAN)
             /\ UNCHANGED <<frames_since_silence, capacity, resizes, unclean>>
  BY <1>0, <1>2 DEF Detect, TypeOK
<1>3. ASSUME NEW s \in Samples, DetectContinuous(s) PROVE IndInv'
  <2>1. /\ published' \in Seq(Message)
        /\ \A i \in 1..Len(published') : published'[i].buffer <= heard'
    <3>1. global_packet_id \in Nat \cup {-1} /\ "START" \in Markers
      BY <1>0 DEF TypeOK, Markers
    <3> QED BY <1>2, <1>3, <3>1, SendOneKeeps DEF DetectContinuous
  <2> QED BY <1>c, <1>2, <1>3, <2>1, PushedKeeps DEF DetectContinuous
<1>4. ASSUME NEW s \in Samples, DetectHeadless(s) PROVE IndInv'
  <2>1. published' = published /\ heard' = heard + 1
    BY <1>2, <1>4 DEF DetectHeadless, Receive
  <2>2. \A i \in 1..Len(published) : /\ published[i].buffer <= heard
                                     /\ published[i].buffer \in Nat
    BY <1>0, BufferIsNat DEF HeardBounds
  <2>3. \A i \in 1..Len(published') : published'[i].buffer <= heard'
    BY <1>0, <2>1, <2>2
  <2> QED BY <1>0, <1>c, <1>2, <1>4, <2>1, <2>3, PushedKeeps DEF DetectHeadless
<1>5. ASSUME NEW s \in Samples, DetectStart(s) PROVE IndInv'
  <2> DEFINE q == PushBack(prebuffer_, capacity, heard + 1)
             m == PacketHead(q, global_packet_id)
  <2>1. /\ Detect(s) /\ Receive /\ ~continuous
        /\ published' = published \o m
        /\ prebuffer_' = <<>>
        /\ global_packet_id \in Nat
    BY <1>0, <1>2, <1>5 DEF DetectStart, TypeOK
  <2>2. /\ q \in Seq(0..MaxHeard)
        /\ \A i \in 1..Len(q) : q[i] <= heard + 1
        /\ \A i, j \in 1..Len(q) : i # j /\ q[i] # Null => q[i] # q[j]
        /\ \A i \in 1..Len(q), j \in 1..Len(published) :
                q[i] # Null => published[j].buffer # q[i]
    BY <2>1, PushKeeps
  <2> HIDE DEF q
  <2>3. /\ m \in Seq(Message) /\ Len(m) = Len(q)
        /\ \A i \in 1..Len(q) : m[i].buffer = q[i]
    BY <2>1, <2>2, PacketHeadProps
  <2> HIDE DEF m
  <2>4. /\ heard' = heard + 1 /\ heard' \in 0..MaxHeard /\ heard' \in Nat
        /\ heard <= heard'
    BY <1>0, <2>1, ReceiveFacts
  <2>5. Distinct(m)
    BY <2>2, <2>3 DEF Distinct
  <2>6. \A i \in 1..Len(m) : m[i].buffer <= heard'
    BY <2>2, <2>3, <2>4
  <2>7. \A i \in 1..Len(published), j \in 1..Len(m) :
           m[j].buffer # Null => published[i].buffer # m[j].buffer
    BY <2>2, <2>3
  <2>8. /\ published' \in Seq(Message)
        /\ \A i \in 1..Len(published') : published'[i].buffer <= heard'
        /\ Distinct(published')
    BY <2>1, <2>3, <2>4, <2>5, <2>6, <2>7, SendKeeps
  <2>9. /\ prebuffer_' \in Seq(0..MaxHeard) /\ Len(prebuffer_') = 0
        /\ Len(prebuffer_') <= capacity /\ unclean \in 0..heard'
    BY <1>0, <2>1, <2>4 DEF TypeOK
  <2>10. TypeOK'
    BY <1>0, <1>c, <1>2, <2>1, <2>4, <2>8, <2>9 DEF TypeOK, Message
  <2> QED BY <1>c, <2>8, <2>9, <2>10
          DEF IndInv, HeardBounds, RecentRun, PrebufferDistinct, PrebufferNotSent
<1>6. ASSUME NEW s \in Samples PROVE since \o s \in Seq(BOOLEAN) /\ Len(s) \in Nat
  <2>1. s \in Seq(BOOLEAN) /\ since \in Seq(BOOLEAN)
    BY <1>0, SamplesAssumption DEF TypeOK
  <2> QED BY <2>1, CatProps
<1>7. ASSUME NEW s \in Samples, PacketContinues(s) PROVE IndInv'
  <2>1. frames_since_silence' \in Nat
    <3>1. PICK l \in 0..Len(s) :
             frames_since_silence' =
                IF l = 0 THEN frames_since_silence + Len(s) ELSE Len(s) - l
      BY <1>7 DEF PacketContinues
    <3>2. frames_since_silence \in Nat /\ Len(s) \in Nat
      BY <1>0, <1>6 DEF TypeOK
    <3> QED BY <3>1, <3>2
  <2>2. /\ in_packet_id \in Nat \cup {-1} /\ "MIDDLE" \in Markers
        /\ Receive /\ in_packet_
        /\ published' = Append(published, Tagged(heard + 1, "MIDDLE", in_packet_id))
        /\ UNCHANGED <<in_packet_, in_packet_id, global_packet_id, prebuffer_,
                       capacity, resizes, unclean>>
        /\ since' \in Seq(BOOLEAN)
    BY <1>0, <1>6, <1>7 DEF PacketContinues, TypeOK, Markers
  <2>3. /\ published' \in Seq(Message)
        /\ \A i \in 1..Len(published') : published'[i].buffer <= heard'
    BY <2>2, SendOneKeeps
  <2>4. unclean' \in 0..heard' /\ in_packet_' = TRUE
    <3>1. heard' = heard + 1
      BY <2>2 DEF Receive
    <3>2. unclean \in 0..heard
      BY <1>0 DEF TypeOK
    <3>3. in_packet_' = TRUE
      BY <1>0, <2>2 DEF TypeOK
    <3> QED BY <1>0, <2>2, <3>1, <3>2, <3>3
  <2> QED BY <2>1, <2>2, <2>3, <2>4, <1>c, InPacketKeeps
<1>8. ASSUME NEW s \in Samples, PacketEnds(s) PROVE IndInv'
  <2> DEFINE e == Tagged(heard + 1, "END", in_packet_id)
             n == Tagged(heard + 1, "NONE", in_packet_id)
  <2>1. /\ in_packet_id \in Nat \cup {-1} /\ "END" \in Markers /\ "NONE" \in Markers
        /\ Receive /\ in_packet_ /\ in_packet_' = FALSE
        /\ frames_since_silence' \in Nat
        /\ unclean' = heard + 1
        /\ UNCHANGED <<in_packet_id, global_packet_id, prebuffer_, capacity, resizes>>
        /\ since' \in Seq(BOOLEAN)
    BY <1>0, <1>6, <1>8 DEF PacketEnds, TypeOK, Markers
  <2>2. /\ heard' = heard + 1 /\ heard + 1 \in 0..MaxHeard
        /\ unclean' \in 0..heard'
    BY <1>0, <2>1, ReceiveFacts
  <2>3. e \in Message /\ e.buffer = heard + 1 /\ n \in Message /\ n.buffer = heard + 1
    BY <2>1, <2>2, TaggedType
  <2>4. ~continuous => published' = Append(published, e)
    <3>1. ~continuous => published' = (published \o <<e>>) \o <<>>
      BY <1>8 DEF PacketEnds
    <3> HIDE DEF e
    <3>2. (published \o <<e>>) \o <<>> = Append(published, e)
      BY <1>0, <2>3
    <3> QED BY <3>1, <3>2
  <2>5. /\ published' \in Seq(Message)
        /\ \A i \in 1..Len(published') : published'[i].buffer <= heard'
    <3>1. CASE ~continuous
      BY <2>1, <2>4, <3>1, SendOneKeeps
    <3>2. CASE continuous
      <4> DEFINE m == <<e>> \o <<n>>
      <4>1. published' = (published \o <<e>>) \o <<n>>
        BY <1>8, <3>2 DEF PacketEnds
      <4> HIDE DEF e, n
      <4>2. m \in Seq(Message) /\ Len(m) = 2 /\ m[1] = e /\ m[2] = n
        BY <2>3
      <4>3. published' = published \o m
        BY <1>0, <2>3, <4>1
      <4> HIDE DEF m
      <4>4. \A i \in 1..Len(m) : m[i].buffer <= heard'
        BY <1>0, <2>2, <2>3, <4>2
      <4>5. heard' \in Nat /\ heard <= heard'
        BY <1>0, <2>2
      <4> QED BY <3>2, <4>2, <4>3, <4>4, <4>5, SendKeeps
    <3> QED BY <3>1, <3>2
  <2> QED BY <2>1, <2>2, <2>4, <2>5, <1>c, InPacketKeeps
<1>9. ASSUME NEW b \in BufferSizes, BufferSizeChange(b) PROVE IndInv'
  <2> DEFINE n == PrebufferSize(b)
  <2>1. n \in Nat \ {0}
    <3>1. b \in Nat \ {0} /\ PrebufferSamples \in Nat
      BY BufferSizesAssumption, PrebufferAssumption
    <3>2. PrebufferSamples \div b \in Nat
      BY <3>1
    <3> QED BY <3>2 DEF PrebufferSize
  <2>2. /\ prebuffer_' = Resize(prebuffer_, n)
        /\ capacity' = Grow(capacity, n)
        /\ unclean' = heard /\ heard' = heard /\ published' = published
        /\ resizes' \in 0..MaxResizes
        /\ UNCHANGED <<core, since>>
    BY <1>0, <1>9 DEF BufferSizeChange, TypeOK
  <2> HIDE DEF n
  <2>3. /\ prebuffer_' \in Seq(0..MaxHeard) /\ Len(prebuffer_') = n
        /\ \A i \in 1..n : \/ prebuffer_'[i] = Null
                           \/ i \in 1..Len(prebuffer_) /\ prebuffer_'[i] = prebuffer_[i]
    <3>1. prebuffer_ \in Seq(0..MaxHeard)
      BY <1>0 DEF TypeOK
    <3>2. /\ Resize(prebuffer_, n) \in Seq(0..MaxHeard)
          /\ Len(Resize(prebuffer_, n)) = n
          /\ \A i \in 1..n : \/ Resize(prebuffer_, n)[i] = Null
                             \/ /\ i \in 1..Len(prebuffer_)
                                /\ Resize(prebuffer_, n)[i] = prebuffer_[i]
      BY <1>0, <2>1, <3>1, ResizeProps
    <3> QED BY <2>2, <3>2
  <2>4. capacity' \in Nat \ {0} /\ Len(prebuffer_') <= capacity'
    BY <1>0, <2>1, <2>2, <2>3 DEF Grow, TypeOK
  <2>5. TypeOK'
    <3>1. unclean' \in 0..heard'
      BY <1>0, <2>2
    <3> QED BY <1>0, <1>c, <2>2, <2>3, <2>4, <3>1 DEF TypeOK, core
  <2>6. \A i \in 1..n : prebuffer_'[i] <= heard
    BY <1>0, <2>3 DEF HeardBounds, Null
  <2>7. HeardBounds'
    BY <1>0, <2>2, <2>3, <2>6 DEF HeardBounds
  <2>8. RecentRun'
    <3>1. \A i \in 1..n : ~(prebuffer_'[i] > heard)
      <4> TAKE i \in 1..n
      <4>1. prebuffer_'[i] \in Nat
        BY <1>0, <2>3
      <4> QED BY <1>0, <2>6, <4>1
    <3> QED BY <2>2, <2>3, <3>1 DEF RecentRun
  <2>9. PrebufferDistinct'
    <3> SUFFICES \A i, j \in 1..n : i # j /\ prebuffer_'[i] # Null
                     => prebuffer_'[i] # prebuffer_'[j]
      BY <2>3 DEF PrebufferDistinct
    <3> TAKE i, j \in 1..n
    <3> HAVE i # j /\ prebuffer_'[i] # Null
    <3>1. i \in 1..Len(prebuffer_) /\ prebuffer_'[i] = prebuffer_[i]
      BY <2>3
    <3>2. CASE prebuffer_'[j] = Null
      BY <3>2
    <3>3. CASE j \in 1..Len(prebuffer_) /\ prebuffer_'[j] = prebuffer_[j]
      BY <1>0, <3>1, <3>3 DEF PrebufferDistinct
    <3> QED BY <2>3, <3>2, <3>3
  <2>10. ~continuous => PrebufferNotSent' /\ Distinct(published')
    BY <1>0, <2>2, <2>3 DEF PrebufferNotSent
  <2> QED BY <1>c, <2>5, <2>7, <2>8, <2>9, <2>10 DEF IndInv
<1>10. CASE UNCHANGED vars
  BY <1>0, <1>c, <1>10 DEF vars, core, IndInv, TypeOK, HeardBounds, RecentRun,
                     PrebufferDistinct, PrebufferNotSent, Distinct
<1> QED BY <1>1, <1>3, <1>4, <1>5, <1>7, <1>8, <1>9, <1>10 DEF Next, AudioIn

LEMMA InvariantHolds == Spec => []IndInv
BY InitIndInv, NextIndInv, PTL DEF Spec

-----------------------------------------------------------------------------
(* Type correctness of DetectorThread; the prebuffer stays within its      *)
(* capacity through every sequence of buffers and resizes.                 *)
THEOREM TypeCorrect == Spec => []TypeOK
<1>1. IndInv => TypeOK
  BY DEF IndInv
<1> QED BY <1>1, InvariantHolds, PTL

(* In packet mode no captured buffer is ever sent twice, for every         *)
(* threshold, prebuffer length and sequence of buffers and resizes.        *)
THEOREM NothingSentTwice == Spec => []SentAtMostOnce
<1>1. IndInv => SentAtMostOnce
  BY DEF IndInv, Distinct, SentAtMostOnce
<1> QED BY <1>1, InvariantHolds, PTL

(* With a prebuffer that was filled since the last resize and the last     *)
(* packet, every detection sends a START and a gap-free run of buffers     *)
(* that ends with the detecting one.                                       *)
THEOREM DetectionIsWhole == Spec => CleanStart
<1>1. IndInv /\ [Next]_vars => [CleanStartStep]_vars
  <2> DEFINE q == PushBack(prebuffer_, capacity, heard + 1)
             m == PacketHead(q, global_packet_id)
             new == SubSeq(published', Len(published) + 1, Len(published'))
  <2> SUFFICES ASSUME IndInv, Next, ~continuous, ~in_packet_, in_packet_',
                      \A i \in 1..Len(q) : q[i] > unclean
               PROVE  /\ Len(new) = Len(q)
                      /\ new[1].marker = "START"
                      /\ \A i \in 1..Len(new) :
                            new[i].buffer = heard + 1 - (Len(new) - i)
    BY DEF CleanStartStep
  <2>1. PICK s \in Samples : DetectHeadless(s) \/ DetectStart(s)
    BY DEF Next, AudioIn, BufferSizeChange, core, Quiet, DetectContinuous,
           PacketContinues, PacketEnds
  <2>2. Receive
    BY <2>1 DEF DetectHeadless, DetectStart, Detect
  <2>3. /\ q \in Seq(0..MaxHeard) /\ Len(q) \in 1..capacity
        /\ \A i \in 1..Len(q) : q[i] = heard + 1 - (Len(q) - i)
    BY <2>2, PushKeeps
  <2>4. /\ unclean \in Nat /\ capacity \in Nat /\ heard \in Nat
        /\ global_packet_id \in Nat /\ published \in Seq(Message)
    BY BoundsAssumption DEF IndInv, TypeOK, Message
  <2> HIDE DEF q
  <2>5. 1 \in 1..Len(q) /\ Head(q) = q[1] /\ q # <<>>
    BY <2>3, <2>4
  <2>6. Head(q) # Null
    BY <2>4, <2>5 DEF Null
  <2>7. DetectStart(s)
    BY <2>1, <2>6 DEF DetectHeadless, q
  <2>8. published' = published \o m
    BY <2>7 DEF DetectStart, q
  <2>9. /\ m \in Seq(Message) /\ Len(m) = Len(q)
        /\ \A i \in 1..Len(q) : m[i].buffer = q[i]
        /\ m[1].marker = "START"
    BY <2>3, <2>4, <2>5, PacketHeadProps
  <2> HIDE DEF m
  <2>10. new = m
    <3>1. /\ published' \in Seq(Message)
          /\ Len(published') = Len(published) + Len(m)
          /\ \A i \in 1..Len(m) : published'[Len(published) + i] = m[i]
      <4>1. published \in Seq(Message) /\ m \in Seq(Message)
        BY <2>4, <2>9
      <4>2. /\ published \o m \in Seq(Message)
            /\ Len(published \o m) = Len(published) + Len(m)
            /\ \A i \in 1..Len(m) : (published \o m)[Len(published) + i] = m[i]
        BY <4>1, CatProps
      <4> QED BY <2>8, <4>2
    <3>2. /\ new \in Seq(Message) /\ Len(new) = Len(m)
          /\ \A i \in 1..Len(m) : new[i] = published'[Len(published) + i]
      <4> DEFINE a == Len(published) + 1
                 b == Len(published')
      <4>1. a \in Int /\ b \in Int /\ a <= b /\ b - a + 1 = Len(m)
        BY <2>3, <2>4, <2>9, <3>1
      <4>2. \A i \in a..b : published'[i] \in Message
        BY <2>4, <3>1
      <4>3. \A i \in 1..Len(m) : a + i - 1 = Len(published) + i
        BY <2>4, <2>9
      <4>4. new = SubSeq(published', a, b)
        OBVIOUS
      <4> HIDE DEF a, b, new
      <4>5. /\ new \in Seq(Message)
            /\ Len(new) = IF a <= b THEN b - a + 1 ELSE 0
            /\ \A i \in 1..(b - a + 1) : new[i] = published'[a + i - 1]
        BY <4>1, <4>2, <4>4, SubSeqProperties
      <4> QED BY <4>1, <4>3, <4>5
    <3> HIDE DEF new
    <3> QED BY <2>9, <3>1, <3>2, SeqEqual
  <2> HIDE DEF new
  <2> QED BY <2>3, <2>9, <2>10
<1> QED BY <1>1, InvariantHolds, PTL DEF Spec, CleanStart

-----------------------------------------------------------------------------
(* What follows what in the stream that is sent *)

(* Two neighbours in a sequence to which another has been added are old    *)
(* neighbours, new ones, or the last old and the first new element.        *)
LEMMA Neighbours ==
    ASSUME NEW s \in Seq(Message), NEW t \in Seq(Message), NEW i \in 1..(Len(s \o t) - 1)
    PROVE  LET c == s \o t
           IN  \/ i \in 1..(Len(s) - 1) /\ c[i] = s[i] /\ c[i + 1] = s[i + 1]
               \/ s # <<>> /\ t # <<>> /\ c[i] = s[Len(s)] /\ c[i + 1] = t[1]
               \/ \E j \in 1..(Len(t) - 1) : c[i] = t[j] /\ c[i + 1] = t[j + 1]
<1> DEFINE c == s \o t
<1>1. /\ Len(c) = Len(s) + Len(t) /\ Len(s) \in Nat /\ Len(t) \in Nat
      /\ \A k \in 1..Len(s) : c[k] = s[k]
      /\ \A k \in 1..Len(t) : c[Len(s) + k] = t[k]
  BY CatProps
<1>2. i \in 1..(Len(c) - 1)
  OBVIOUS
<1> HIDE DEF c
<1>3. CASE i < Len(s)
  BY <1>1, <1>2, <1>3 DEF c
<1>4. CASE i = Len(s)
  <2>1. i \in 1..Len(s) /\ 1 \in 1..Len(t) /\ i + 1 = Len(s) + 1
    BY <1>1, <1>2, <1>4
  <2>2. c[i] = s[Len(s)] /\ c[i + 1] = t[1] /\ s # <<>> /\ t # <<>>
    BY <1>1, <1>4, <2>1
  <2> QED BY <2>2 DEF c
<1>5. CASE i > Len(s)
  <2> DEFINE j == i - Len(s)
  <2>1. j \in 1..(Len(t) - 1) /\ i = Len(s) + j /\ i + 1 = Len(s) + (j + 1)
        /\ j \in 1..Len(t) /\ j + 1 \in 1..Len(t)
    BY <1>1, <1>2, <1>5
  <2> HIDE DEF j
  <2>2. c[Len(s) + j] = t[j]
    BY <1>1, <2>1
  <2>3. c[Len(s) + (j + 1)] = t[j + 1]
    BY <1>1, <2>1
  <2>4. c[i] = t[j] /\ c[i + 1] = t[j + 1]
    BY <2>1, <2>2, <2>3
  <2> QED BY <2>1, <2>4 DEF c
<1>6. i < Len(s) \/ i = Len(s) \/ i > Len(s)
  BY <1>1, <1>2
<1> QED
  BY <1>3, <1>4, <1>5, <1>6

(* The ends of a sequence to which another has been added.                 *)
LEMMA EndsOfCat ==
    ASSUME NEW s \in Seq(Message), NEW t \in Seq(Message), t # <<>>
    PROVE  /\ s \o t # <<>>
           /\ (s \o t)[Len(s \o t)] = t[Len(t)]
           /\ (s \o t)[1] = IF s = <<>> THEN t[1] ELSE s[1]
<1> DEFINE c == s \o t
<1>1. /\ Len(c) = Len(s) + Len(t) /\ Len(s) \in Nat /\ Len(t) \in Nat \ {0}
      /\ \A k \in 1..Len(s) : c[k] = s[k]
      /\ \A k \in 1..Len(t) : c[Len(s) + k] = t[k]
      /\ c \in Seq(Message)
  BY CatProps
<1> HIDE DEF c
<1>2. c # <<>> /\ c[Len(c)] = t[Len(t)]
  BY <1>1
<1>3. CASE s = <<>>
  <2>1. Len(s) + 1 = 1 /\ 1 \in 1..Len(t)
    BY <1>1, <1>3
  <2>2. c[1] = t[1]
    BY <1>1, <2>1
  <2> QED BY <1>2, <1>3, <2>2 DEF c
<1>4. CASE s # <<>>
  <2>1. 1 \in 1..Len(s)
    BY <1>4
  <2> QED BY <1>1, <1>2, <1>4, <2>1 DEF c
<1> QED
  BY <1>3, <1>4

(* ContinuousIsGapless is inductive once the last message is known not to   *)
(* be an END, which is always followed by the same buffer.                  *)
Gapless ==
    continuous =>
        /\ heard = 0 => published = <<>>
        /\ heard > 0 => /\ published # <<>>
                        /\ published[1].buffer = 1
                        /\ published[Len(published)].buffer = heard
                        /\ published[Len(published)].marker # "END"
        /\ \A i \in 1..(Len(published) - 1) :
             published[i + 1].buffer - published[i].buffer \in
                 IF published[i].marker = "END" THEN {0} ELSE {1}

(* Sending the received buffer, after any number of ENDs for it, keeps the  *)
(* stream without a gap.                                                    *)
LEMMA GaplessSend ==
    ASSUME IndInv, Gapless, continuous, UNCHANGED continuous, heard' = heard + 1,
           NEW m \in Seq(Message), m # <<>>, published' = published \o m,
           \A i \in 1..Len(m) : m[i].buffer = heard + 1,
           \A i \in 1..(Len(m) - 1) : m[i].marker = "END",
           m[Len(m)].marker # "END"
    PROVE  Gapless'
<1>1. heard \in Nat /\ published \in Seq(Message) /\ Len(m) \in Nat \ {0}
  BY BoundsAssumption DEF IndInv, TypeOK, Message
<1>2. /\ published' # <<>>
      /\ published'[Len(published')] = m[Len(m)]
      /\ published'[1] = IF published = <<>> THEN m[1] ELSE published[1]
  BY <1>1, EndsOfCat
<1>3. m[1].buffer = heard + 1 /\ m[Len(m)].buffer = heard + 1
  BY <1>1
<1>4. published'[1].buffer = 1
  <2>1. CASE published = <<>>
    BY <1>1, <1>2, <1>3, <2>1 DEF Gapless
  <2>2. CASE published # <<>>
    BY <1>1, <1>2, <2>2 DEF Gapless
  <2> QED BY <2>1, <2>2
<1>5. ASSUME NEW i \in 1..(Len(published') - 1)
      PROVE  published'[i + 1].buffer - published'[i].buffer \in
                IF published'[i].marker = "END" THEN {0} ELSE {1}
  <2>1. CASE /\ i \in 1..(Len(published) - 1)
             /\ published'[i] = published[i] /\ published'[i + 1] = published[i + 1]
    BY <2>1 DEF Gapless
  <2>2. CASE /\ published # <<>> /\ m # <<>>
             /\ published'[i] = published[Len(published)] /\ published'[i + 1] = m[1]
    <3>1. /\ published[Len(published)].buffer = heard
          /\ published[Len(published)].marker # "END"
      BY <1>1, <2>2 DEF Gapless
    <3> QED BY <1>1, <1>3, <2>2, <3>1
  <2>3. ASSUME NEW j \in 1..(Len(m) - 1), published'[i] = m[j], published'[i + 1] = m[j + 1]
        PROVE  published'[i + 1].buffer - published'[i].buffer \in
                  IF published'[i].marker = "END" THEN {0} ELSE {1}
    <3>1. j \in 1..Len(m) /\ j + 1 \in 1..Len(m)
      BY <1>1
    <3>2. m[j].buffer = heard + 1 /\ m[j + 1].buffer = heard + 1 /\ m[j].marker = "END"
      BY <3>1
    <3> QED BY <1>1, <2>3, <3>2
  <2>4. \/ i \in 1..(Len(published) - 1)
           /\ published'[i] = published[i] /\ published'[i + 1] = published[i + 1]
        \/ published # <<>> /\ m # <<>>
           /\ published'[i] = published[Len(published)] /\ published'[i + 1] = m[1]
        \/ \E j \in 1..(Len(m) - 1) : published'[i] = m[j] /\ published'[i + 1] = m[j + 1]
    BY <1>1, Neighbours, ZenonT(40)
  <2> QED BY <2>1, <2>2, <2>3, <2>4
<1> QED
  BY <1>1, <1>2, <1>3, <1>4, <1>5, SMTT(30) DEF Gapless

(* One or two messages as the tail that is sent.                           *)
LEMMA OneMessage ==
    ASSUME TypeOK, NEW e \in Message
    PROVE  /\ <<e>> \in Seq(Message) /\ Len(<<e>>) = 1 /\ <<e>>[1] = e /\ <<e>> # <<>>
           /\ Append(published, e) = published \o <<e>>
<1>1. published \in Seq(Message)
  BY DEF TypeOK, Message
<1> QED
  BY <1>1

LEMMA TwoMessages ==
    ASSUME TypeOK, NEW d \in Message, NEW e \in Message
    PROVE  /\ <<d, e>> \in Seq(Message) /\ Len(<<d, e>>) = 2 /\ <<d, e>> # <<>>
           /\ <<d, e>>[1] = d /\ <<d, e>>[2] = e
           /\ published \o <<d>> \o <<e>> = published \o <<d, e>>
<1>1. published \in Seq(Message)
  BY DEF TypeOK, Message
<1>2. <<d>> \in Seq(Message) /\ <<e>> \in Seq(Message)
  OBVIOUS
<1>3. published \o <<d>> \o <<e>> = published \o (<<d>> \o <<e>>)
  BY <1>1, <1>2, ConcatAssociative
<1>4. /\ <<d, e>> \in Seq(Message) /\ Len(<<d, e>>) = 2 /\ <<d, e>> # <<>>
      /\ <<d, e>>[1] = d /\ <<d, e>>[2] = e
  OBVIOUS
<1>5. <<d>> \o <<e>> = <<d, e>>
  <2> DEFINE c == <<d>> \o <<e>>
             u == <<d, e>>
  <2>1. c \in Seq(Message) /\ Len(c) = 2 /\ c[1] = d /\ c[2] = e
    BY <1>2, CatProps
  <2> HIDE DEF c, u
  <2>2. u \in Seq(Message) /\ Len(u) = 2 /\ u[1] = d /\ u[2] = e
    BY <1>4 DEF u
  <2>3. \A i \in 1..Len(c) : c[i] = u[i]
    BY <2>1, <2>2
  <2>4. c = u
    BY <2>1, <2>2, <2>3, SeqEqual
  <2> QED BY <2>4 DEF c, u
<1> QED
  BY <1>3, <1>4, <1>5

(* Every step keeps the stream of continuous mode without a gap.           *)
LEMMA NextGapless == IndInv /\ Gapless /\ [Next]_vars => Gapless'
<1> SUFFICES ASSUME IndInv, Gapless, [Next]_vars PROVE Gapless'
  OBVIOUS
<1>c. continuous' = continuous
  BY DEF Next, vars, AudioIn, BufferSizeChange, Quiet, DetectContinuous,
         DetectHeadless, DetectStart, Detect, PacketContinues, PacketEnds, Receive
<1>0. CASE ~continuous
  BY <1>c, <1>0 DEF Gapless
<1> SUFFICES ASSUME continuous PROVE Gapless'
  BY <1>0
<1>1. CASE UNCHANGED <<heard, published>>
  BY <1>c, <1>1 DEF Gapless
<1>2. ASSUME Receive, NEW k \in Markers \ {"END"}, NEW id \in Nat \cup {-1},
             published' = Append(published, Tagged(heard + 1, k, id))
      PROVE  Gapless'
  <2> DEFINE e == Tagged(heard + 1, k, id)
  <2>1. heard' = heard + 1 /\ heard + 1 \in 0..MaxHeard
    BY <1>2, ReceiveFacts DEF IndInv
  <2>2. e \in Message /\ e.buffer = heard + 1 /\ e.marker = k
    <3>1. e \in Message /\ e.buffer = heard + 1
      BY <2>1, TaggedType
    <3> QED BY <3>1 DEF Tagged
  <2> HIDE DEF e
  <2>3. published' = published \o <<e>>
    BY <1>2, <2>2, OneMessage DEF IndInv, e
  <2> DEFINE m == <<e>>
  <2>4. /\ m \in Seq(Message) /\ Len(m) = 1 /\ m # <<>>
        /\ \A i \in 1..Len(m) : m[i].buffer = heard + 1
        /\ \A i \in 1..(Len(m) - 1) : m[i].marker = "END"
        /\ m[Len(m)].marker # "END"
    BY <2>2
  <2> HIDE DEF m
  <2> QED BY <1>c, <2>1, <2>3, <2>4, GaplessSend DEF m
<1>3. ASSUME NEW s \in Samples, PacketEnds(s) PROVE Gapless'
  <2> DEFINE d == Tagged(heard + 1, "END", in_packet_id)
             e == Tagged(heard + 1, "NONE", in_packet_id)
             m == <<d, e>>
  <2>1. heard' = heard + 1 /\ heard + 1 \in 0..MaxHeard
    BY <1>3, ReceiveFacts DEF IndInv, PacketEnds
  <2>2. in_packet_id \in Nat \cup {-1} /\ "END" \in Markers /\ "NONE" \in Markers
    BY DEF IndInv, TypeOK, Markers
  <2>3. /\ d \in Message /\ d.buffer = heard + 1
        /\ e \in Message /\ e.buffer = heard + 1
    BY <2>1, <2>2, TaggedType
  <2>4. d.marker = "END" /\ e.marker = "NONE"
    BY DEF Tagged
  <2>5. published' = published \o <<d>> \o <<e>>
    BY <1>3 DEF PacketEnds
  <2> HIDE DEF d, e
  <2>6. published' = published \o m
    BY <2>3, <2>5, TwoMessages DEF IndInv
  <2>7. m \in Seq(Message) /\ Len(m) = 2 /\ m # <<>> /\ m[1] = d /\ m[2] = e
    BY <2>3
  <2> HIDE DEF m
  <2>8. /\ \A i \in 1..Len(m) : m[i].buffer = heard + 1
        /\ \A i \in 1..(Len(m) - 1) : m[i].marker = "END"
        /\ m[Len(m)].marker # "END"
    BY <2>3, <2>4, <2>7
  <2> QED BY <1>c, <2>1, <2>6, <2>7, <2>8, GaplessSend
<1>4. in_packet_id \in Nat \cup {-1} /\ global_packet_id \in Nat \cup {-1}
      /\ "NONE" \in Markers \ {"END"} /\ "START" \in Markers \ {"END"}
      /\ "MIDDLE" \in Markers \ {"END"}
  BY DEF IndInv, TypeOK, Markers
<1>5. ASSUME NEW s \in Samples, Quiet(s) PROVE Gapless'
  BY <1>2, <1>4, <1>5 DEF Quiet
<1>6. ASSUME NEW s \in Samples, DetectContinuous(s) PROVE Gapless'
  BY <1>2, <1>4, <1>6 DEF DetectContinuous, Detect
<1>7. ASSUME NEW s \in Samples, PacketContinues(s) PROVE Gapless'
  BY <1>2, <1>4, <1>7 DEF PacketContinues
<1>8. \/ UNCHANGED <<heard, published>>
      \/ \E s \in Samples : \/ Quiet(s) \/ DetectContinuous(s)
                            \/ PacketContinues(s) \/ PacketEnds(s)
  BY DEF Next, vars, AudioIn, BufferSizeChange, DetectHeadless, DetectStart
<1> QED
  BY <1>1, <1>3, <1>5, <1>6, <1>7, <1>8

(* In continuous mode every buffer received is sent, in order and without a *)
(* gap, through every sequence of buffers, packets and resizes; the buffer  *)
(* in which a packet ends is sent twice (DetectorThread::audio_in).         *)
THEOREM NothingMissedContinuously == Spec => []ContinuousIsGapless
<1>1. Init => Gapless
  BY DEF Init, Gapless
<1>2. Gapless => ContinuousIsGapless
  BY DEF Gapless, ContinuousIsGapless
<1> QED
  BY <1>1, <1>2, NextGapless, InvariantHolds, PTL DEF Spec

-----------------------------------------------------------------------------
(* The packets of packet mode *)

\* b may come directly after a.
Follows(a, b) ==
    \/ /\ a.packet_id = b.packet_id
       /\ a.marker # "END" /\ b.marker # "START"
       /\ Rank(a.marker) <= Rank(b.marker)
    \/ /\ b.packet_id = a.packet_id + 1
       /\ a.marker = "END" /\ b.marker # "NONE"

\* What the last message sent may be: of the packet that goes on or, if that has
\* sent nothing yet or none goes on, the END of the one before.
LastSent(e, open, id, next) ==
    IF open THEN \/ e.packet_id = id /\ e.marker # "END"
                 \/ e.packet_id = id - 1 /\ e.marker = "END"
            ELSE e.packet_id = next - 1 /\ e.marker = "END"

\* WellBracketed is inductive with the ids of the current packet and of the last
\* message.
Brackets ==
    ~continuous =>
        /\ \A i \in 1..(Len(published) - 1) : Follows(published[i], published[i + 1])
        /\ in_packet_ => in_packet_id = global_packet_id - 1
        /\ published # <<>> =>
              LastSent(published[Len(published)], in_packet_, in_packet_id, global_packet_id)

(* Sending messages that follow each other and the last one keeps the      *)
(* packets bracketed.                                                      *)
LEMMA BracketsSend ==
    ASSUME IndInv, Brackets, ~continuous, UNCHANGED continuous,
           NEW m \in Seq(Message), m # <<>>, published' = published \o m,
           \A i \in 1..(Len(m) - 1) : Follows(m[i], m[i + 1]),
           published # <<>> => Follows(published[Len(published)], m[1]),
           in_packet_' => in_packet_id' = global_packet_id' - 1,
           LastSent(m[Len(m)], in_packet_', in_packet_id', global_packet_id')
    PROVE  Brackets'
<1>1. published \in Seq(Message)
  BY DEF IndInv, TypeOK, Message
<1>2. published'[Len(published')] = m[Len(m)]
  BY <1>1, EndsOfCat
<1>3. ASSUME NEW i \in 1..(Len(published') - 1)
      PROVE  Follows(published'[i], published'[i + 1])
  <2>1. CASE /\ i \in 1..(Len(published) - 1)
             /\ published'[i] = published[i] /\ published'[i + 1] = published[i + 1]
    BY <2>1 DEF Brackets
  <2>2. CASE /\ published # <<>> /\ m # <<>>
             /\ published'[i] = published[Len(published)] /\ published'[i + 1] = m[1]
    BY <2>2
  <2>3. CASE \E j \in 1..(Len(m) - 1) : published'[i] = m[j] /\ published'[i + 1] = m[j + 1]
    BY <2>3
  <2> QED BY <1>1, <2>1, <2>2, <2>3, Neighbours
<1> QED
  BY <1>2, <1>3 DEF Brackets

(* The head of a packet is a START and then NONEs, with one id.            *)
LEMMA PacketHeadFollows ==
    ASSUME NEW q \in Seq(0..MaxHeard), q # <<>>, NEW id \in Nat
    PROVE  LET m == PacketHead(q, id)
           IN  /\ m \in Seq(Message) /\ m # <<>>
               /\ \A i \in 1..(Len(m) - 1) : Follows(m[i], m[i + 1])
               /\ m[1].marker = "START" /\ m[1].packet_id = id
               /\ m[Len(m)].marker # "END" /\ m[Len(m)].packet_id = id
<1> DEFINE m == PacketHead(q, id)
<1>1. m \in Seq(Message) /\ Len(m) = Len(q) /\ Len(q) \in Nat \ {0}
  BY PacketHeadProps
<1>2. \A i \in 1..Len(q) : /\ m[i].marker = IF i = 1 THEN "START" ELSE "NONE"
                           /\ m[i].packet_id = id
  BY DEF PacketHead, Tagged
<1> HIDE DEF m
<1>3. ASSUME NEW i \in 1..(Len(m) - 1) PROVE Follows(m[i], m[i + 1])
  <2>1. i \in 1..Len(q) /\ i + 1 \in 1..Len(q) /\ i + 1 # 1
    BY <1>1
  <2>2. /\ m[i].packet_id = id /\ m[i + 1].packet_id = id
        /\ m[i].marker \in {"START", "NONE"} /\ m[i + 1].marker = "NONE"
    BY <1>2, <2>1
  <2>3. Rank("START") = 1 /\ Rank("NONE") = 2
    BY DEF Rank
  <2>4. Rank(m[i].marker) <= Rank(m[i + 1].marker)
    BY <2>2, <2>3
  <2> QED BY <2>2, <2>4 DEF Follows
<1>4. 1 \in 1..Len(q) /\ Len(m) \in 1..Len(q) /\ m # <<>>
  BY <1>1
<1>5. /\ m[1].marker = "START" /\ m[1].packet_id = id
      /\ m[Len(m)].marker # "END" /\ m[Len(m)].packet_id = id
  BY <1>2, <1>4
<1> QED
  BY <1>1, <1>3, <1>4, <1>5 DEF m

(* The MIDDLE or the END of the current packet may always come next.       *)
LEMMA BracketsInPacket ==
    ASSUME IndInv, Brackets, ~continuous, UNCHANGED <<continuous, in_packet_id, global_packet_id>>,
           in_packet_, Receive, NEW k \in {"MIDDLE", "END"},
           published' = published \o <<Tagged(heard + 1, k, in_packet_id)>>,
           in_packet_' <=> k = "MIDDLE"
    PROVE  Brackets'
<1> DEFINE e == Tagged(heard + 1, k, in_packet_id)
           m == <<e>>
<1>1. heard + 1 \in 0..MaxHeard /\ in_packet_id \in Nat \cup {-1} /\ k \in Markers
  BY ReceiveFacts DEF IndInv, TypeOK, Markers
<1>2. e \in Message /\ e.marker = k /\ e.packet_id = in_packet_id
  <2>1. e \in Message
    BY <1>1, TaggedType
  <2> QED BY <2>1 DEF Tagged
<1>3. in_packet_id = global_packet_id - 1 /\ global_packet_id \in Nat
  BY DEF Brackets, IndInv, TypeOK
<1> HIDE DEF e
<1>4. m \in Seq(Message) /\ m # <<>> /\ Len(m) = 1 /\ m[1] = e
  BY <1>2
<1>5. LastSent(e, in_packet_', in_packet_id', global_packet_id')
  BY <1>2, <1>3 DEF LastSent
<1>6. ASSUME published # <<>> PROVE Follows(published[Len(published)], e)
  <2> DEFINE last == published[Len(published)]
  <2>1. last \in Message
    <3>1. published \in Seq(Message)
      BY DEF IndInv, TypeOK, Message
    <3>2. Len(published) \in 1..Len(published)
      BY <1>6, <3>1
    <3> QED BY <3>1, <3>2
  <2>2. \/ last.packet_id = in_packet_id /\ last.marker # "END"
        \/ last.packet_id = in_packet_id - 1 /\ last.marker = "END"
    BY <1>6 DEF Brackets, LastSent
  <2>3. last.marker \in Markers /\ last.packet_id \in Int
    BY <2>1 DEF Message
  <2> HIDE DEF last
  <2>4. /\ Rank("START") = 1 /\ Rank("NONE") = 2
        /\ Rank("MIDDLE") = 3 /\ Rank("END") = 4
    BY DEF Rank
  <2>5. last.marker # "END" => Rank(last.marker) <= Rank(e.marker)
    BY <1>2, <2>3, <2>4 DEF Markers
  <2>6. Follows(last, e)
    BY <1>1, <1>2, <2>2, <2>3, <2>5, SMTT(30) DEF Follows
  <2> QED BY <2>6 DEF last
<1>7. published' = published \o m
  BY DEF e
<1> HIDE DEF m
<1> QED
  BY <1>3, <1>4, <1>5, <1>6, <1>7, BracketsSend

(* Every step keeps the packets bracketed.                                 *)
LEMMA NextBrackets == IndInv /\ Brackets /\ [Next]_vars => Brackets'
<1> SUFFICES ASSUME IndInv, Brackets, [Next]_vars PROVE Brackets'
  OBVIOUS
<1>c. continuous' = continuous
  BY DEF Next, vars, AudioIn, BufferSizeChange, Quiet, DetectContinuous,
         DetectHeadless, DetectStart, Detect, PacketContinues, PacketEnds, Receive
<1>0. CASE continuous
  BY <1>c, <1>0 DEF Brackets
<1> SUFFICES ASSUME ~continuous PROVE Brackets'
  BY <1>0
<1>t. /\ published \in Seq(Message) /\ in_packet_ \in BOOLEAN
      /\ in_packet_id \in Nat \cup {-1} /\ global_packet_id \in Nat
  BY DEF IndInv, TypeOK, Message
<1>1. CASE UNCHANGED <<published, in_packet_, in_packet_id, global_packet_id>>
  BY <1>c, <1>1 DEF Brackets
<1>2. ASSUME NEW s \in Samples, DetectHeadless(s) PROVE Brackets'
  <2>1. /\ published' = published /\ ~in_packet_ /\ in_packet_'
        /\ in_packet_id' = global_packet_id /\ global_packet_id' = global_packet_id + 1
    BY <1>2 DEF DetectHeadless, Detect
  <2> QED BY <1>c, <1>t, <2>1 DEF Brackets, LastSent
<1>3. ASSUME NEW s \in Samples, DetectStart(s) PROVE Brackets'
  <2> DEFINE q == PushBack(prebuffer_, capacity, heard + 1)
             m == PacketHead(q, global_packet_id)
  <2>1. /\ published' = published \o m /\ ~in_packet_ /\ in_packet_' /\ Receive
        /\ in_packet_id' = global_packet_id /\ global_packet_id' = global_packet_id + 1
    BY <1>3 DEF DetectStart, Detect
  <2>2. q \in Seq(0..MaxHeard) /\ Len(q) \in 1..capacity /\ capacity \in Nat
    BY <2>1, PushKeeps DEF IndInv, TypeOK
  <2> HIDE DEF q
  <2>3. q # <<>>
    BY <2>2
  <2>4. /\ m \in Seq(Message) /\ m # <<>>
        /\ \A i \in 1..(Len(m) - 1) : Follows(m[i], m[i + 1])
        /\ m[1].marker = "START" /\ m[1].packet_id = global_packet_id
        /\ m[Len(m)].marker # "END" /\ m[Len(m)].packet_id = global_packet_id
    BY <1>t, <2>2, <2>3, PacketHeadFollows
  <2> HIDE DEF m
  <2>5. ASSUME published # <<>> PROVE Follows(published[Len(published)], m[1])
    <3>1. /\ published[Len(published)].packet_id = global_packet_id - 1
          /\ published[Len(published)].marker = "END"
      BY <2>1, <2>5 DEF Brackets, LastSent
    <3> QED BY <1>t, <2>4, <3>1 DEF Follows
  <2>6. LastSent(m[Len(m)], in_packet_', in_packet_id', global_packet_id')
    BY <2>1, <2>4 DEF LastSent
  <2>7. in_packet_id' = global_packet_id' - 1
    BY <1>t, <2>1
  <2> QED BY <1>c, <2>1, <2>4, <2>5, <2>6, <2>7, BracketsSend
<1>4. ASSUME NEW s \in Samples, PacketContinues(s) PROVE Brackets'
  <2> DEFINE e == Tagged(heard + 1, "MIDDLE", in_packet_id)
  <2>1. /\ Receive /\ in_packet_ /\ published' = Append(published, e)
        /\ UNCHANGED <<in_packet_, in_packet_id, global_packet_id>>
    BY <1>4 DEF PacketContinues
  <2>2. e \in Message
    BY <1>t, <2>1, ReceiveFacts, TaggedType DEF IndInv, Markers
  <2>3. published' = published \o <<e>>
    <3> HIDE DEF e
    <3> QED BY <2>1, <2>2, OneMessage DEF IndInv
  <2> QED BY <1>c, <2>1, <2>3, BracketsInPacket
<1>5. ASSUME NEW s \in Samples, PacketEnds(s) PROVE Brackets'
  <2> DEFINE e == Tagged(heard + 1, "END", in_packet_id)
  <2>1. /\ Receive /\ in_packet_ /\ ~in_packet_' /\ published' = published \o <<e>> \o <<>>
        /\ UNCHANGED <<in_packet_id, global_packet_id>>
    BY <1>5 DEF PacketEnds
  <2>2. e \in Message
    BY <1>t, <2>1, ReceiveFacts, TaggedType DEF IndInv, Markers
  <2>3. published' = published \o <<e>>
    <3> HIDE DEF e
    <3>1. published \o <<e>> \in Seq(Message)
      BY <1>t, <2>2
    <3> QED BY <2>1, <3>1, ConcatEmptySeq
  <2> QED BY <1>c, <2>1, <2>3, BracketsInPacket
<1>6. \/ UNCHANGED <<published, in_packet_, in_packet_id, global_packet_id>>
      \/ \E s \in Samples : \/ DetectHeadless(s) \/ DetectStart(s)
                            \/ PacketContinues(s) \/ PacketEnds(s)
  BY DEF Next, vars, core, AudioIn, BufferSizeChange, Quiet, DetectContinuous
<1> QED
  BY <1>1, <1>2, <1>3, <1>4, <1>5, <1>6

(* In packet mode the packets are well bracketed, also those whose head is  *)
(* missing because a resize has padded the prebuffer.                       *)
THEOREM PacketsBracketed == Spec => []WellBracketed
<1>1. Init => Brackets
  BY DEF Init, Brackets
<1>2. Brackets => WellBracketed
  BY DEF Brackets, WellBracketed, Follows, LastSent
<1> QED
  BY <1>1, <1>2, NextBrackets, InvariantHolds, PTL DEF Spec

-----------------------------------------------------------------------------
(* The silence that ends a packet *)

\* f is the length of the silence at the end of w.
Trailing(w, f) ==
    /\ f \in 0..Len(w)
    /\ \A i \in (Len(w) - f + 1)..Len(w) : ~w[i]
    /\ f < Len(w) => w[Len(w) - f]

\* EndsAtFirstSilence is inductive with what frames_since_silence counts.
Silence ==
    /\ EndsAtFirstSilence
    /\ in_packet_ => global_packet_id > 0 /\ Trailing(since, frames_since_silence)
    /\ ~in_packet_ => frames_since_silence = 0

(* The samples of two buffers one after the other.                         *)
LEMMA CatSamples ==
    ASSUME NEW w \in Seq(BOOLEAN), NEW s \in Seq(BOOLEAN)
    PROVE  /\ w \o s \in Seq(BOOLEAN)
           /\ Len(w) \in Nat /\ Len(s) \in Nat /\ Len(w \o s) = Len(w) + Len(s)
           /\ \A i \in 1..Len(w) : (w \o s)[i] = w[i]
           /\ \A i \in 1..Len(s) : (w \o s)[Len(w) + i] = s[i]
BY CatProps

(* The loop of audio_in, which knows only how long the silence before the  *)
(* buffer has lasted, sees a silence exactly if the samples since the      *)
(* detection contain one that they have not contained before.              *)
LEMMA SilenceSeen ==
    ASSUME NEW w \in Seq(BOOLEAN), NEW s \in Seq(BOOLEAN), NEW f \in Nat, Trailing(w, f),
           ~QuietWindow(w)
    PROVE  SilenceReached(f, s) <=> QuietWindow(w \o s)
<1> DEFINE c == w \o s
           L == Len(w)
<1>1. /\ L \in Nat /\ Len(s) \in Nat /\ Len(c) = L + Len(s)
      /\ \A i \in 1..L : c[i] = w[i]
      /\ \A i \in 1..Len(s) : c[L + i] = s[i]
  BY CatSamples
<1>2. f \in 0..L /\ (\A i \in (L - f + 1)..L : ~w[i]) /\ (f < L => w[L - f])
  BY DEF Trailing
<1>s. SilentSamples \in Nat \ {0}
  BY SilentAssumption
<1> HIDE DEF c, L
<1>3. ASSUME SilenceReached(f, s) PROVE QuietWindow(c)
  <2>1. PICK k \in 1..Len(s) :
           \/ f + k >= SilentSamples /\ \A i \in 1..k : ~s[i]
           \/ k >= SilentSamples /\ \A i \in (k - SilentSamples + 1)..k : ~s[i]
    BY <1>3 DEF SilenceReached
  <2> DEFINE K == L + k
  <2>0. K = L + k
    OBVIOUS
  <2> HIDE DEF K
  <2>2. K \in SilentSamples..Len(c)
    BY <1>1, <1>2, <1>s, <2>0, <2>1
  <2>3. ASSUME NEW i \in (K - SilentSamples + 1)..K PROVE ~c[i]
    <3>1. CASE i <= L
      <4>1. i \in (L - f + 1)..L /\ i \in 1..L
        BY <1>1, <1>2, <1>s, <2>0, <2>1, <2>3, <3>1
      <4> QED BY <1>1, <1>2, <4>1
    <3>2. CASE i > L
      <4> DEFINE j == i - L
      <4>1. j \in 1..Len(s) /\ i = L + j
        BY <1>1, <1>2, <1>s, <2>0, <2>1, <2>3, <3>2
      <4>2. /\ k \in Nat /\ K \in Nat /\ K = L + k /\ SilentSamples \in Nat
            /\ i \in Int /\ i >= K - SilentSamples + 1 /\ i <= K
        BY <1>1, <1>s, <2>0, <2>1, <2>2, <2>3
      <4>3. j \in 1..k
        BY <1>1, <3>2, <4>2
      <4>4. j \in (k - SilentSamples + 1)..k
        BY <1>1, <4>2
      <4>5. ~s[j]
        BY <2>1, <4>3, <4>4
      <4> QED BY <1>1, <4>1, <4>5
    <3> QED BY <1>1, <1>s, <2>0, <2>1, <2>3, <3>1, <3>2
  <2>4. \A i \in (K - SilentSamples + 1)..K : ~c[i]
    BY <2>3
  <2> QED BY <2>2, <2>4 DEF QuietWindow
<1>4. ASSUME QuietWindow(c) PROVE SilenceReached(f, s)
  <2>1. PICK K \in SilentSamples..Len(c) : \A i \in (K - SilentSamples + 1)..K : ~c[i]
    BY <1>4 DEF QuietWindow
  <2>2. K \in Nat /\ K <= L + Len(s) /\ K >= SilentSamples
    BY <1>1, <1>s, <2>1
  <2>3. K > L
    <3> SUFFICES ASSUME K <= L PROVE FALSE
      BY <1>1, <2>2
    <3>1. K \in SilentSamples..L
      BY <1>1, <1>s, <2>2
    <3>2. \A i \in (K - SilentSamples + 1)..K : i \in 1..L
      BY <1>1, <1>s, <2>2
    <3>3. \A i \in (K - SilentSamples + 1)..K : ~w[i]
      BY <1>1, <2>1, <3>2
    <3> QED BY <3>1, <3>3 DEF QuietWindow, L
  <2> DEFINE k == K - L
  <2>4. k \in 1..Len(s) /\ K = L + k
    BY <1>1, <2>2, <2>3
  <2> HIDE DEF k
  <2>5. CASE k >= SilentSamples
    <3>1. ASSUME NEW i \in (k - SilentSamples + 1)..k PROVE ~s[i]
      <4>1. i \in 1..Len(s) /\ L + i \in (K - SilentSamples + 1)..K
        BY <1>1, <1>s, <2>4, <2>5
      <4> QED BY <1>1, <2>1, <4>1
    <3> QED BY <2>4, <2>5, <3>1 DEF SilenceReached
  <2>6. CASE k < SilentSamples
    <3>1. ASSUME NEW i \in 1..k PROVE ~s[i]
      <4>1. i \in 1..Len(s) /\ L + i \in (K - SilentSamples + 1)..K
        BY <1>1, <1>s, <2>4, <2>6
      <4> QED BY <1>1, <2>1, <4>1
    <3>2. f + k >= SilentSamples
      <4> SUFFICES ASSUME f + k < SilentSamples PROVE FALSE
        BY <1>2, <1>s, <2>4
      <4>1. f < L /\ L - f \in 1..L /\ L - f \in (K - SilentSamples + 1)..K
        BY <1>1, <1>2, <1>s, <2>2, <2>4
      <4> QED BY <1>1, <1>2, <2>1, <4>1
    <3> QED BY <2>4, <3>1, <3>2 DEF SilenceReached
  <2> QED BY <1>1, <1>s, <2>4, <2>5, <2>6
<1> QED
  BY <1>3, <1>4 DEF c

(* The counter after a buffer is the length of the silence at its end.     *)
LEMMA TrailingKept ==
    ASSUME NEW w \in Seq(BOOLEAN), NEW s \in Seq(BOOLEAN), NEW f \in Nat, Trailing(w, f),
           NEW l \in 0..Len(s), LastLoud(s, l)
    PROVE  Trailing(w \o s, IF l = 0 THEN f + Len(s) ELSE Len(s) - l)
<1> DEFINE c == w \o s
           L == Len(w)
           g == IF l = 0 THEN f + Len(s) ELSE Len(s) - l
<1>1. /\ L \in Nat /\ Len(s) \in Nat /\ Len(c) = L + Len(s)
      /\ \A i \in 1..L : c[i] = w[i]
      /\ \A i \in 1..Len(s) : c[L + i] = s[i]
  BY CatSamples
<1>2. f \in 0..L /\ (\A i \in (L - f + 1)..L : ~w[i]) /\ (f < L => w[L - f])
  BY DEF Trailing
<1>3. (l > 0 => s[l]) /\ \A i \in (l + 1)..Len(s) : ~s[i]
  BY DEF LastLoud
<1> HIDE DEF c, L
<1>4. g \in 0..Len(c)
  BY <1>1, <1>2
<1>5. ASSUME NEW i \in (Len(c) - g + 1)..Len(c) PROVE ~c[i]
  <2>1. CASE i <= L
    <3>1. i \in (L - f + 1)..L /\ i \in 1..L
      BY <1>1, <1>2, <1>5, <2>1
    <3> QED BY <1>1, <1>2, <3>1
  <2>2. CASE i > L
    <3> DEFINE j == i - L
    <3>1. j \in (l + 1)..Len(s) /\ j \in 1..Len(s) /\ i = L + j
      BY <1>1, <1>2, <1>5, <2>2
    <3> QED BY <1>1, <1>3, <3>1
  <2> QED BY <1>1, <1>4, <1>5, <2>1, <2>2
<1>6. ASSUME g < Len(c) PROVE c[Len(c) - g]
  <2>1. CASE l = 0
    <3>1. Len(c) - g = L - f /\ f < L /\ L - f \in 1..L
      BY <1>1, <1>2, <1>6, <2>1
    <3> QED BY <1>1, <1>2, <3>1
  <2>2. CASE l > 0
    <3>1. Len(c) - g = L + l /\ l \in 1..Len(s)
      <4>1. l # 0 /\ g = Len(s) - l
        BY <2>2
      <4> HIDE DEF g
      <4> QED BY <1>1, <2>2, <4>1
    <3> QED BY <1>1, <1>3, <2>2, <3>1
  <2> QED BY <2>1, <2>2
<1> QED
  BY <1>4, <1>5, <1>6 DEF Trailing, c

(* Every step keeps the counter in agreement with the samples.             *)
LEMMA NextSilence == IndInv /\ Silence /\ [Next]_vars => Silence'
<1> SUFFICES ASSUME IndInv, Silence, [Next]_vars PROVE Silence'
  OBVIOUS
<1>t. /\ since \in Seq(BOOLEAN) /\ in_packet_ \in BOOLEAN
      /\ frames_since_silence \in Nat /\ global_packet_id \in Nat
  BY DEF IndInv, TypeOK
<1>1. CASE UNCHANGED <<in_packet_, frames_since_silence, since, global_packet_id>>
  BY <1>1 DEF Silence, EndsAtFirstSilence
<1>2. ASSUME NEW s \in Samples, Detect(s) PROVE Silence'
  <2>1. /\ ~in_packet_ /\ in_packet_' /\ since' = <<>> /\ global_packet_id' = global_packet_id + 1
        /\ frames_since_silence' = 0
    BY <1>2 DEF Detect, Silence
  <2>2. Trailing(<<>>, 0)
    BY DEF Trailing
  <2>3. ~QuietWindow(<<>>)
    BY SilentAssumption DEF QuietWindow
  <2>4. global_packet_id' > 0
    BY <1>t, <2>1
  <2> QED BY <2>1, <2>2, <2>3, <2>4 DEF Silence, EndsAtFirstSilence
<1>3. ASSUME NEW s \in Samples, in_packet_
      PROVE  /\ s \in Seq(BOOLEAN) /\ Trailing(since, frames_since_silence)
             /\ SilenceReached(frames_since_silence, s) <=> QuietWindow(since \o s)
             /\ global_packet_id > 0
  <2>1. s \in Seq(BOOLEAN)
    BY SamplesAssumption
  <2>2. Trailing(since, frames_since_silence) /\ global_packet_id > 0 /\ ~QuietWindow(since)
    BY <1>3 DEF Silence, EndsAtFirstSilence
  <2> QED BY <1>t, <2>1, <2>2, SilenceSeen
<1>4. ASSUME NEW s \in Samples, PacketContinues(s) PROVE Silence'
  <2>1. /\ in_packet_ /\ in_packet_' = in_packet_ /\ since' = since \o s
        /\ global_packet_id' = global_packet_id
        /\ ~SilenceReached(frames_since_silence, s)
    BY <1>4 DEF PacketContinues
  <2>2. PICK l \in 0..Len(s) :
           /\ LastLoud(s, l)
           /\ frames_since_silence' =
                 IF l = 0 THEN frames_since_silence + Len(s) ELSE Len(s) - l
    BY <1>4 DEF PacketContinues
  <2>3. Trailing(since', frames_since_silence')
    BY <1>t, <1>3, <2>1, <2>2, TrailingKept
  <2>4. ~QuietWindow(since')
    BY <1>3, <2>1
  <2> QED BY <1>3, <2>1, <2>3, <2>4 DEF Silence, EndsAtFirstSilence
<1>5. ASSUME NEW s \in Samples, PacketEnds(s) PROVE Silence'
  <2>1. /\ in_packet_ /\ in_packet_' = FALSE /\ since' = since \o s
        /\ frames_since_silence' = 0
        /\ SilenceReached(frames_since_silence, s)
    BY <1>5 DEF PacketEnds
  <2>2. QuietWindow(since')
    BY <1>3, <2>1
  <2> QED BY <2>1, <2>2 DEF Silence, EndsAtFirstSilence
<1>6. \/ UNCHANGED <<in_packet_, frames_since_silence, since, global_packet_id>>
      \/ \E s \in Samples : Detect(s) \/ PacketContinues(s) \/ PacketEnds(s)
  BY DEF Next, vars, core, AudioIn, BufferSizeChange, Quiet, DetectContinuous,
         DetectHeadless, DetectStart
<1> QED
  BY <1>1, <1>2, <1>4, <1>5, <1>6

(* A packet ends with the first buffer that completes the configured       *)
(* silence, counted across buffers of any sizes, and with no other.        *)
THEOREM EndsWithTheSilence == Spec => []EndsAtFirstSilence
<1>1. Init => Silence
  BY DEF Init, Silence, EndsAtFirstSilence
<1>2. Silence => EndsAtFirstSilence
  BY DEF Silence
<1> QED
  BY <1>1, <1>2, NextSilence, InvariantHolds, PTL DEF Spec

-----------------------------------------------------------------------------
(* Logger: where it is in the stream of a transmitter *)

Buffers == [id : Ids, seq : 0..MaxBuffers, marker : {"NONE", "START", "MIDDLE", "END"}]

\* A buffer counts from 1 within a packet, and outside, where it is unmarked
\* and sent in continuous mode (cont) only, it is 0.
Placed(cont, b) ==
    /\ b.marker = "NONE" <=> b.seq = 0
    /\ b.marker = "NONE" => cont
    /\ b.marker = "START" => b.seq = 1
    /\ b.marker # "NONE" => b.id >= 0

\* No buffer of b's packet follows b.
Closes(b) == b.marker \in {"END", "NONE"}

\* A detector's counters.
PacketOK(pk) ==
    /\ pk \in [id : Ids, sent : 0..MaxBuffers, open : BOOLEAN, quiet : Nat]
    /\ pk.id = -1 => ~pk.open
    /\ pk.open => pk.sent \in 1..(MaxBuffers - 1)

\* c is a buffer that may come after b.
After(b, c) ==
    IF Closes(b) THEN IF c.marker = "NONE" THEN c.id = b.id ELSE c.id = b.id + 1 /\ c.seq = 1
    ELSE c.id = b.id /\ c.seq = b.seq + 1

\* A queue holds the last buffers of its detector, one after the other.
Stream(cont, q, pk) ==
    /\ q \in Seq(Buffers)
    /\ \A i \in 1..Len(q) : q[i].id <= pk.id /\ Placed(cont, q[i])
    /\ \A i \in 1..Len(q) : i < Len(q) => After(q[i], q[i + 1])
    /\ \A i \in 1..Len(q) : i = Len(q) =>
          /\ q[i].id = pk.id /\ (pk.open => q[i].seq = pk.sent)
          /\ pk.open <=> ~Closes(q[i])

\* What comes next is not the beginning of packet id but a later buffer of it.
Mid(q, pk, id) ==
    IF q # <<>> THEN q[1].id = id /\ q[1].seq > 1 ELSE pk.id = id /\ pk.open

\* All of packet id has been taken out of the queue.
Done(q, pk, id) ==
    IF q # <<>> THEN q[1].id > id \/ (q[1].id = id /\ q[1].marker = "NONE")
    ELSE pk.id > id \/ (pk.id = id /\ ~pk.open)

\* The number of the next buffer within a packet that has begun.
NextSeq(q, pk) == IF q # <<>> THEN q[1].seq ELSE pk.sent + 1

Contents == Seq(Transmitters \X (0..MaxBuffers))

LogTypes ==
    /\ cfg_continuous \in BOOLEAN
    /\ \A f \in Transmitters : PacketOK(packet[f])
    /\ packet = [f \in Transmitters |-> packet[f]]
    /\ DetectorAudio = [f \in Transmitters |-> DetectorAudio[f]]
    /\ AudioOut = [f \in Transmitters |-> [t \in Receivers(f) |-> AudioOut[f][t]]]
    /\ content \in [Names -> Contents]
    /\ announced \in [Transmitters \X Ids -> Nat]
    /\ DOMAIN files_ \subseteq ({"in"} \X Ids \X Transmitters) \cup ({"out"} \X Ids \X Modems)

Streams ==
    \A f \in Transmitters :
        /\ Stream(cfg_continuous, DetectorAudio[f], packet[f])
        /\ \A t \in Receivers(f) : Stream(cfg_continuous, AudioOut[f][t], packet[f])

\* Before it is launched the logger gets nothing and has nothing open.
NotYet ==
    ~running => /\ \A f \in Transmitters : DetectorAudio[f] = <<>>
                /\ DOMAIN files_ = {}

\* An entry of files_ is null, or the logger is in the middle of the packet and
\* it is a file that holds what has come so far.
Entry(v, name, q, pk, id) ==
    \/ v = NullFile
    \/ v = name /\ Mid(q, pk, id) /\ Len(content[name]) = NextSeq(q, pk) - 1

InFiles ==
    \A f \in Transmitters, id \in Ids :
        /\ Faithful(content[<<"in", id, f, -1>>], f)
        /\ <<"in", id, f>> \in DOMAIN files_ =>
              /\ cfg_continuous \/ Mid(DetectorAudio[f], packet[f], id)
              /\ Entry(files_[<<"in", id, f>>], <<"in", id, f, -1>>,
                       DetectorAudio[f], packet[f], id)

\* Transmitter g has come to packet id, and in packet mode is in the middle of
\* it, as t sees it.
Uses(g, t, id) ==
    packet[g].id >= id /\ (cfg_continuous \/ Mid(AudioOut[g][t], packet[g], id))

\* The entry of a receiver is used by some transmitter, and an open file is of
\* one in the middle of the packet.
OutFiles ==
    \A t \in Modems, id \in Ids :
        <<"out", id, t>> \in DOMAIN files_ =>
            /\ \E g \in Transmitters \ {t} : Uses(g, t, id)
            /\ \/ files_[<<"out", id, t>>] = NullFile
               \/ \E g \in Transmitters \ {t} :
                     /\ files_[<<"out", id, t>>] = <<"out", id, g, t>>
                     /\ Mid(AudioOut[g][t], packet[g], id)

\* If there is only one who can use it, it is as that of a transmission.
OutAlone ==
    \A f \in Transmitters, id \in Ids : Alone(f, id) =>
        \A t \in Receivers(f) :
            /\ Faithful(content[<<"out", id, f, t>>], f)
            /\ <<"out", id, t>> \in DOMAIN files_ =>
                  Entry(files_[<<"out", id, t>>], <<"out", id, f, t>>,
                        AudioOut[f][t], packet[f], id)

ClosedIsPast ==
    \A f \in Transmitters, id \in Ids : \A t \in Receivers(f) :
        <<f, id, t>> \in closed => Done(AudioOut[f][t], packet[f], id)

LogInv ==
    /\ LogTypes
    /\ Streams
    /\ NotYet
    /\ InFiles
    /\ OutFiles
    /\ OutAlone
    /\ ClosedIsPast
    /\ AllClosedAnnounced
-----------------------------------------------------------------------------
(* Queues *)

LEMMA LogBounds == MaxBuffers \in Nat /\ MaxBuffers >= 2 /\ MaxPackets \in Nat
BY LoggerBoundsAssumption

LEMMA BufferTypes ==
    ASSUME NEW b \in Buffers
    PROVE  /\ b.id \in Ids /\ b.id \in Int /\ b.id < MaxPackets
           /\ b.seq \in Nat /\ b.seq <= MaxBuffers
           /\ b.marker \in {"NONE", "START", "MIDDLE", "END"}
<1>1. b.id \in Ids /\ b.seq \in 0..MaxBuffers /\ b.marker \in {"NONE", "START", "MIDDLE", "END"}
  BY DEF Buffers
<1> QED BY <1>1, LogBounds DEF Ids

LEMMA PacketTypes ==
    ASSUME NEW pk, PacketOK(pk)
    PROVE  /\ pk.id \in Int /\ pk.id >= -1 /\ pk.id < MaxPackets /\ pk.id \in Ids
           /\ pk.sent \in Nat /\ pk.sent <= MaxBuffers /\ pk.open \in BOOLEAN /\ pk.quiet \in Nat
<1>1. pk.id \in Ids /\ pk.sent \in 0..MaxBuffers /\ pk.open \in BOOLEAN /\ pk.quiet \in Nat
  BY DEF PacketOK
<1> QED BY <1>1, LogBounds DEF Ids

\* b is what a detector with the counters pk may send, and then has pk2.
Upcoming(cont, pk, b, pk2) ==
    /\ b \in Buffers /\ Placed(cont, b)
    /\ IF pk.open THEN b.marker # "NONE" /\ b.id = pk.id /\ b.seq = pk.sent + 1
       ELSE IF b.marker = "NONE" THEN b.id = pk.id ELSE b.id = pk.id + 1 /\ b.seq = 1
    /\ PacketOK(pk2)
    /\ pk2.id = b.id /\ (pk2.open <=> ~Closes(b)) /\ (pk2.open => pk2.sent = b.seq)

\* The queue r goes on from q as the detector does from pk to pk2.
Grows(cont, q, pk, r, pk2) ==
    /\ Stream(cont, r, pk2)
    /\ \A id \in Ids :
          /\ Mid(q, pk, id) => Mid(r, pk2, id) /\ NextSeq(r, pk2) = NextSeq(q, pk)
          /\ Done(q, pk, id) => Done(r, pk2, id)

LEMMA EmptyStream == \A cont, pk : Stream(cont, <<>>, pk)
<1>1. <<>> \in Seq(Buffers) /\ Len(<<>>) = 0
  OBVIOUS
<1> QED BY <1>1 DEF Stream

(* A buffer more at the end of a queue changes nothing about what comes    *)
(* next in a packet that has begun, and nothing about what has been done.  *)
LEMMA QueueAppend ==
    ASSUME NEW cont, NEW q, NEW pk, PacketOK(pk), Stream(cont, q, pk), NEW b, NEW pk2, Upcoming(cont, pk, b, pk2)
    PROVE  Grows(cont, q, pk, Append(q, b), pk2)
<1> DEFINE r == Append(q, b)
<1>1. q \in Seq(Buffers) /\ Len(q) \in Nat /\ b \in Buffers /\ Placed(cont, b)
  BY DEF Stream, Upcoming
<1>2. /\ r \in Seq(Buffers) /\ r # <<>> /\ Len(r) = Len(q) + 1
      /\ \A i \in 1..Len(q) : r[i] = q[i]
      /\ r[Len(q) + 1] = b
  BY <1>1, AppendProperties
<1> HIDE DEF r
<1>3. pk2.id = b.id /\ (pk2.open <=> ~Closes(b)) /\ (pk2.open => pk2.sent = b.seq)
  BY DEF Upcoming
<1>4. b.id \in Int /\ b.seq \in Nat /\ pk.id \in Int /\ pk.sent \in Nat
  BY <1>1, BufferTypes, PacketTypes
<1>5. IF pk.open THEN b.marker # "NONE" /\ b.id = pk.id /\ b.seq = pk.sent + 1
      ELSE IF b.marker = "NONE" THEN b.id = pk.id ELSE b.id = pk.id + 1 /\ b.seq = 1
  BY DEF Upcoming
<1>6. \A i \in 1..Len(q) : q[i].id \in Int /\ q[i].seq \in Nat
  <2>1. \A i \in 1..Len(q) : q[i] \in Buffers
    BY <1>1, ElementOfSeq
  <2> QED BY <2>1, BufferTypes
<1>7. Stream(cont, r, pk2)
  <2>1. ASSUME NEW i \in 1..Len(r)
        PROVE  r[i].id <= pk2.id /\ Placed(cont, r[i])
    <3>1. CASE i \in 1..Len(q)
      <4>1. r[i] = q[i] /\ q[i].id <= pk.id /\ Placed(cont, q[i])
        BY <1>2, <3>1 DEF Stream
      <4>2. q[i].id <= pk2.id
        BY <1>3, <1>4, <1>5, <1>6, <3>1, <4>1
      <4> QED BY <4>1, <4>2
    <3>2. CASE i = Len(q) + 1
      BY <1>1, <1>2, <1>3, <1>4, <3>2
    <3> QED BY <1>1, <1>2, <3>1, <3>2
  <2>2. ASSUME NEW i \in 1..Len(r), i < Len(r) PROVE After(r[i], r[i + 1])
    <3>1. i \in 1..Len(q) /\ r[i] = q[i]
      BY <1>1, <1>2, <2>2
    <3>2. CASE i < Len(q)
      <4>1. i + 1 \in 1..Len(q) /\ r[i + 1] = q[i + 1]
        BY <1>1, <1>2, <3>2
      <4> QED BY <3>1, <3>2, <4>1 DEF Stream
    <3>3. CASE i = Len(q)
      <4>1. r[i + 1] = b
        BY <1>2, <3>3
      <4>2. /\ q[i].id = pk.id /\ (pk.open => q[i].seq = pk.sent)
            /\ pk.open <=> ~Closes(q[i])
        BY <3>1, <3>3 DEF Stream
      <4> QED BY <1>5, <3>1, <4>1, <4>2 DEF After
    <3> QED BY <1>1, <3>1, <3>2, <3>3
  <2>3. ASSUME NEW i \in 1..Len(r), i = Len(r)
        PROVE  /\ r[i].id = pk2.id /\ (pk2.open => r[i].seq = pk2.sent)
               /\ pk2.open <=> ~Closes(r[i])
    <3>1. r[i] = b
      BY <1>2, <2>3
    <3> QED BY <1>3, <3>1
  <2> QED BY <1>2, <2>1, <2>2, <2>3 DEF Stream
<1>8. CASE q = <<>>
  <2>1. Len(q) = 0 /\ r[1] = b
    BY <1>2, <1>8
  <2>2. \A id \in Ids : id \in Int
    BY LogBounds DEF Ids
  <2>3. ASSUME NEW id \in Ids, Mid(q, pk, id) PROVE Mid(r, pk2, id) /\ NextSeq(r, pk2) = NextSeq(q, pk)
    <3>1. pk.id = id /\ pk.open
      BY <1>8, <2>3 DEF Mid
    <3>2. pk.sent >= 1
      BY <3>1 DEF PacketOK
    <3> QED BY <1>2, <1>4, <1>5, <1>8, <2>1, <3>1, <3>2 DEF Mid, NextSeq
  <2>4. ASSUME NEW id \in Ids, Done(q, pk, id) PROVE Done(r, pk2, id)
    <3>1. pk.id > id \/ (pk.id = id /\ ~pk.open)
      BY <1>8, <2>4 DEF Done
    <3>2. b.id > id \/ (b.id = id /\ b.marker = "NONE")
      BY <1>4, <1>5, <2>2, <3>1
    <3> QED BY <1>2, <2>1, <3>2 DEF Done
  <2> QED BY <1>7, <2>3, <2>4 DEF Grows, r
<1>9. CASE q # <<>>
  <2>1. r[1] = q[1]
    BY <1>1, <1>2, <1>9
  <2> QED BY <1>2, <1>7, <1>9, <2>1 DEF Grows, Mid, Done, NextSeq, r
<1> QED BY <1>8, <1>9

(* What the first buffer of a queue says about the rest of it.             *)
LEMMA QueueTail ==
    ASSUME NEW cont, NEW q, NEW pk, PacketOK(pk), Stream(cont, q, pk), q # <<>>
    PROVE  /\ Stream(cont, Tail(q), pk)
           /\ q[1] \in Buffers /\ q[1].id <= pk.id /\ Head(q) = q[1]
           /\ Placed(cont, q[1])
           /\ ~Closes(q[1]) => /\ Mid(Tail(q), pk, q[1].id)
                               /\ NextSeq(Tail(q), pk) = q[1].seq + 1
           /\ Closes(q[1]) => Done(Tail(q), pk, q[1].id)
           /\ \A id \in Ids : Done(q, pk, id) => Done(Tail(q), pk, id)
<1> DEFINE r == Tail(q)
           b == q[1]
<1>1. q \in Seq(Buffers) /\ Len(q) \in Nat /\ Len(q) >= 1 /\ Head(q) = q[1]
  BY DEF Stream
<1>2. /\ r \in Seq(Buffers) /\ Len(r) = Len(q) - 1
      /\ \A i \in 1..Len(r) : r[i] = q[i + 1]
  BY <1>1
<1>3. \A i \in 1..Len(q) : /\ q[i] \in Buffers /\ q[i].id \in Int /\ q[i].seq \in Nat
                            /\ Placed(cont, q[i])
  <2>1. \A i \in 1..Len(q) : q[i] \in Buffers
    BY <1>1, ElementOfSeq
  <2> QED BY <2>1, BufferTypes DEF Stream
<1>4. pk.id \in Int /\ pk.sent \in Nat
  BY PacketTypes
<1> HIDE DEF r
<1>5. Stream(cont, r, pk)
  <2>1. \A i \in 1..Len(r) : i + 1 \in 1..Len(q) /\ (i < Len(r) <=> i + 1 < Len(q))
                             /\ (i = Len(r) <=> i + 1 = Len(q))
    BY <1>1, <1>2
  <2>2. \A i \in 1..Len(r) : i < Len(r) => i + 1 \in 1..Len(r)
    BY <1>1, <1>2
  <2>3. \A i \in 1..Len(r) : r[i].id <= pk.id /\ Placed(cont, r[i])
    BY <1>2, <2>1 DEF Stream
  <2>4. ASSUME NEW i \in 1..Len(r), i < Len(r) PROVE After(r[i], r[i + 1])
    <3>1. r[i] = q[i + 1] /\ r[i + 1] = q[(i + 1) + 1]
      BY <1>2, <2>2, <2>4
    <3>2. After(q[i + 1], q[(i + 1) + 1])
      BY <2>1, <2>4 DEF Stream
    <3> QED BY <3>1, <3>2
  <2>5. ASSUME NEW i \in 1..Len(r), i = Len(r)
        PROVE  /\ r[i].id = pk.id /\ (pk.open => r[i].seq = pk.sent)
               /\ pk.open <=> ~Closes(r[i])
    <3>1. r[i] = q[i + 1] /\ i + 1 \in 1..Len(q) /\ i + 1 = Len(q)
      BY <1>2, <2>1, <2>5
    <3> QED BY <3>1 DEF Stream
  <2> QED BY <1>2, <2>3, <2>4, <2>5 DEF Stream
<1>6. b \in Buffers /\ b.id <= pk.id /\ Placed(cont, b)
  BY <1>1, <1>3 DEF Stream
<1>7. /\ b.id \in Int /\ b.seq \in Nat /\ (~Closes(b) => b.seq >= 1)
      /\ b.marker = "NONE" => Closes(b)
  BY <1>1, <1>3, <1>6 DEF Placed, Closes
<1>8. CASE Len(q) = 1
  <2>1. r = <<>>
    BY <1>2, <1>8
  <2>2. b.id = pk.id /\ (pk.open => b.seq = pk.sent) /\ (pk.open <=> ~Closes(b))
    BY <1>8 DEF Stream
  <2> HIDE DEF b
  <2>3. \A id \in Ids : Done(q, pk, id) => b.id > id \/ (b.id = id /\ b.marker = "NONE")
    BY <1>1 DEF Done, b
  <2>4. \A id \in Ids : id \in Int
    BY LogBounds DEF Ids
  <2>5. /\ ~Closes(b) => Mid(r, pk, b.id) /\ NextSeq(r, pk) = b.seq + 1
        /\ Closes(b) => Done(r, pk, b.id)
    BY <1>4, <1>7, <2>1, <2>2 DEF Mid, Done, NextSeq
  <2>6. \A id \in Ids : Done(q, pk, id) => Done(r, pk, id)
    BY <1>4, <1>7, <2>1, <2>2, <2>3, <2>4 DEF Done
  <2> QED BY <1>1, <1>5, <1>6, <2>5, <2>6 DEF r, b
<1>9. CASE Len(q) > 1
  <2>1. r # <<>> /\ r[1] = q[2] /\ 1 \in 1..Len(q) /\ 2 \in 1..Len(q)
    BY <1>1, <1>2, <1>9
  <2>2. After(b, q[2])
    BY <1>1, <1>9, <2>1 DEF Stream
  <2>3. q[2].id \in Int /\ q[2].seq \in Nat
    BY <1>3, <2>1
  <2> HIDE DEF b
  <2>4. \A id \in Ids : /\ id \in Int
                        /\ Done(q, pk, id) => b.id > id \/ (b.id = id /\ b.marker = "NONE")
    BY <1>1, LogBounds DEF Ids, Done, b
  <2>5. /\ ~Closes(b) => Mid(r, pk, b.id) /\ NextSeq(r, pk) = b.seq + 1
        /\ Closes(b) => Done(r, pk, b.id)
    BY <1>7, <2>1, <2>2, <2>3 DEF After, Mid, Done, NextSeq
  <2>6. \A id \in Ids : Done(q, pk, id) => Done(r, pk, id)
    <3>1. \/ q[2].id > b.id
          \/ q[2].id = b.id /\ (b.marker = "NONE" => q[2].marker = "NONE")
      BY <1>7, <2>2, <2>3 DEF After
    <3>2. ASSUME NEW id \in Ids, Done(q, pk, id)
          PROVE  q[2].id > id \/ (q[2].id = id /\ q[2].marker = "NONE")
      <4>1. id \in Int /\ (b.id > id \/ (b.id = id /\ b.marker = "NONE"))
        BY <2>4, <3>2
      <4>2. q[2].id > b.id => q[2].id > id
        BY <1>7, <2>3, <4>1
      <4> QED BY <3>1, <4>1, <4>2
    <3> QED BY <2>1, <3>2 DEF Done
  <2> QED BY <1>1, <1>5, <1>6, <2>5, <2>6 DEF r, b
<1>10. Len(q) = 1 \/ Len(q) > 1
  <2>1. Len(q) \in Nat /\ Len(q) >= 1
    BY <1>1
  <2>2. \A n \in Nat : n >= 1 => n = 1 \/ n > 1
    OBVIOUS
  <2> QED BY ONLY <2>1, <2>2
<1> QED BY <1>8, <1>9, <1>10

(* What comes next in a packet has a number above 1, and is marked.        *)
LEMMA MidMarked ==
    ASSUME NEW cont, NEW q, NEW pk, Stream(cont, q, pk), q # <<>>, NEW id, Mid(q, pk, id)
    PROVE  q[1].id = id /\ q[1].seq > 1 /\ q[1].marker \notin {"NONE", "START"}
<1>1. q[1].id = id /\ q[1].seq > 1
  BY DEF Mid
<1>2. Placed(cont, q[1])
  <2>1. Len(q) \in Nat /\ Len(q) >= 1
    BY DEF Stream
  <2> QED BY <2>1 DEF Stream
<1> QED BY <1>1, <1>2 DEF Placed

LEMMA MidNotDone ==
    ASSUME NEW cont, NEW q, NEW pk, PacketOK(pk), Stream(cont, q, pk), NEW id \in Ids, Mid(q, pk, id)
    PROVE  ~Done(q, pk, id) /\ id <= pk.id
<1>1. id \in Int /\ pk.id \in Int
  BY LogBounds, PacketTypes DEF Ids
<1>2. CASE q = <<>>
  BY <1>1, <1>2 DEF Mid, Done
<1>3. CASE q # <<>>
  <2>1. q[1].id <= pk.id
    BY <1>3, QueueTail
  <2>2. q[1].id = id /\ q[1].marker # "NONE"
    BY <1>3, MidMarked
  <2> QED BY <1>1, <1>3, <2>1, <2>2 DEF Done
<1> QED BY <1>2, <1>3

(* Growing twice is growing.                                               *)
LEMMA GrowsOn ==
    ASSUME NEW cont, NEW q, NEW pk, NEW r, NEW pk2, NEW u, NEW pk3, Grows(cont, q, pk, r, pk2), Grows(cont, r, pk2, u, pk3)
    PROVE  Grows(cont, q, pk, u, pk3)
BY Zenon DEF Grows

(* What Publish does to a queue: b at its end and, where b ends a packet   *)
(* in continuous mode, once more unmarked.                                 *)
LEMMA SentGrows ==
    ASSUME NEW q, NEW pk, PacketOK(pk), Stream(cfg_continuous, q, pk), NEW b, NEW pk2, Upcoming(cfg_continuous, pk, b, pk2)
    PROVE  Grows(cfg_continuous, q, pk, Sent(q, b), pk2)
<1>1. Grows(cfg_continuous, q, pk, Append(q, b), pk2)
  BY QueueAppend
<1>2. CASE cfg_continuous /\ b.marker = "END"
  <2> DEFINE c == Numbered(b.id, 0, "NONE")
  <2>1. Sent(q, b) = Append(Append(q, b), c)
    BY <1>2 DEF Sent
  <2>2. PacketOK(pk2) /\ Stream(cfg_continuous, Append(q, b), pk2) /\ pk2.id = b.id /\ ~pk2.open
    BY <1>1, <1>2 DEF Upcoming, Grows, Closes
  <2>3. c \in Buffers /\ c.id = b.id /\ c.marker = "NONE" /\ c.seq = 0
    <3>1. b.id \in Ids
      BY <2>2, PacketTypes
    <3> QED BY <3>1, LogBounds DEF Buffers, Numbered
  <2>4. Upcoming(cfg_continuous, pk2, c, pk2)
    BY <1>2, <2>2, <2>3 DEF Upcoming, Placed, Closes
  <2> HIDE DEF c
  <2>5. Grows(cfg_continuous, Append(q, b), pk2, Append(Append(q, b), c), pk2)
    BY <2>2, <2>4, QueueAppend
  <2> QED BY <1>1, <2>1, <2>5, GrowsOn
<1>3. CASE ~(cfg_continuous /\ b.marker = "END")
  BY <1>1, <1>3 DEF Sent
<1> QED BY <1>2, <1>3

-----------------------------------------------------------------------------
(* log_audio *)

\* The entry at key before the samples are written.
EntryFor(b, key, name) ==
    IF b.marker = "START" THEN name
    ELSE IF key \in DOMAIN files_ THEN files_[key] ELSE NullFile

\* What log_audio does to the entry at key, to the files and to all else.
Logged(b, f, key, name) ==
    /\ \A k : k # key => /\ k \in DOMAIN files_' <=> k \in DOMAIN files_
                         /\ k \in DOMAIN files_ => files_'[k] = files_[k]
    /\ IF b.marker = "END" THEN key \notin DOMAIN files_'
       ELSE key \in DOMAIN files_' /\ files_'[key] = EntryFor(b, key, name)
    /\ content' \in [Names -> Contents]
    /\ \A n \in Names : n # EntryFor(b, key, name) => content'[n] = content[n]
    /\ EntryFor(b, key, name) \in Names =>
          content'[EntryFor(b, key, name)] =
              Append(IF b.marker = "START" THEN <<>> ELSE content[EntryFor(b, key, name)],
                     <<f, b.seq>>)

LEMMA NoNameIsNull == NullFile \notin Names
<1>1. \A x, y, z, w : <<x, y, z, w>> # <<>>
  OBVIOUS
<1> QED BY <1>1 DEF NullFile, Names

LEMMA LogAudio ==
    ASSUME content \in [Names -> Contents], NEW b \in Buffers, NEW f \in Transmitters,
           NEW to, NEW dir, log_audio(b, f, to, dir), <<dir, b.id, f, to>> \in Names,
           LET v == EntryFor(b, <<dir, b.id, ModemIndex(dir, f, to)>>, <<dir, b.id, f, to>>)
           IN  v = NullFile \/ v \in Names
    PROVE  Logged(b, f, <<dir, b.id, ModemIndex(dir, f, to)>>, <<dir, b.id, f, to>>)
<1> DEFINE key == <<dir, b.id, ModemIndex(dir, f, to)>>
           name == <<dir, b.id, f, to>>
           v == EntryFor(b, key, name)
           opened == Opened(b, key, name)
<1>1. files_' = Erased(opened, b, key) /\ content' = Written(opened, b, key, name, f)
  BY DEF log_audio
<1>2. v = NullFile \/ v \in Names
  OBVIOUS
<1>3. name \in Names
  OBVIOUS
<1> HIDE DEF key, name
<1>4. /\ DOMAIN opened = DOMAIN files_ \cup {key}
      /\ opened[key] = v
      /\ \A k \in DOMAIN files_ : k # key => opened[k] = files_[k]
  BY DEF Opened, EntryFor
<1> HIDE DEF opened
<1>5. /\ \A k : k # key => /\ k \in DOMAIN files_' <=> k \in DOMAIN files_
                           /\ k \in DOMAIN files_ => files_'[k] = files_[k]
      /\ IF b.marker = "END" THEN key \notin DOMAIN files_'
         ELSE key \in DOMAIN files_' /\ files_'[key] = v
  <2>1. CASE b.marker = "END"
    <3>1. files_' = [k \in DOMAIN opened \ {key} |-> opened[k]]
      BY <1>1, <2>1 DEF Erased
    <3> QED BY <1>4, <2>1, <3>1
  <2>2. CASE b.marker # "END"
    <3>1. files_' = opened
      BY <1>1, <2>2 DEF Erased
    <3> QED BY <1>4, <2>2, <3>1
  <2> QED BY <2>1, <2>2
<1>6. v = name \/ b.marker # "START"
  BY DEF EntryFor
<1> DEFINE cut == IF b.marker = "START" THEN [content EXCEPT ![name] = <<>>] ELSE content
<1>7. <<f, b.seq>> \in Transmitters \X (0..MaxBuffers)
  BY DEF Buffers
<1>8. cut \in [Names -> Contents]
  <2>1. <<>> \in Contents
    BY DEF Contents
  <2> QED BY <1>3, <2>1
<1>9. content' = IF v = NullFile THEN cut ELSE [cut EXCEPT ![v] = Append(@, <<f, b.seq>>)]
  BY <1>1, <1>4 DEF Written
<1> HIDE DEF v
<1>10. \A n \in Names : n # v => cut[n] = content[n]
  BY <1>3, <1>6
<1>11. v \in Names => cut[v] = IF b.marker = "START" THEN <<>> ELSE content[v]
  BY <1>3, <1>6
<1> HIDE DEF cut
<1>12. v \in Names => Append(cut[v], <<f, b.seq>>) \in Contents
  <2>1. v \in Names => cut[v] \in Seq(Transmitters \X (0..MaxBuffers))
    BY <1>8 DEF Contents
  <2> QED BY <1>7, <2>1, AppendProperties DEF Contents
<1>13. /\ content' \in [Names -> Contents]
       /\ \A n \in Names : n # v => content'[n] = content[n]
       /\ v \in Names => content'[v] = Append(IF b.marker = "START" THEN <<>> ELSE content[v],
                                              <<f, b.seq>>)
  <2>1. CASE v = NullFile
    BY <1>8, <1>9, <1>10, <2>1, NoNameIsNull
  <2>2. CASE v \in Names
    <3>1. content' = [cut EXCEPT ![v] = Append(@, <<f, b.seq>>)]
      BY <1>9, <2>2, NoNameIsNull
    <3> QED BY <1>8, <1>10, <1>11, <1>12, <2>2, <3>1
  <2> QED BY <1>2, <2>1, <2>2 DEF v
<1> QED BY <1>5, <1>13 DEF Logged, v, key, name

\* The file at name is faithful and the entry at key in step with it.
FileOK(f, key, name, q, pk, id) ==
    /\ Faithful(content[name], f)
    /\ key \in DOMAIN files_ => Entry(files_[key], name, q, pk, id)

(* The file that a queue is written to goes on as the queue does: it holds *)
(* what has come since the START, and the entry for it stays in step.      *)
LEMMA FileGoesOn ==
    ASSUME content \in [Names -> Contents], NEW f \in Transmitters, NEW key, NEW name \in Names,
           NEW q, NEW pk, PacketOK(pk), Stream(cfg_continuous, q, pk), q # <<>>,
           FileOK(f, key, name, q, pk, q[1].id), Logged(q[1], f, key, name)
    PROVE  FileOK(f, key, name, Tail(q), pk, q[1].id)'
<1> SUFFICES /\ Faithful(content'[name], f)
             /\ key \in DOMAIN files_' => \/ files_'[key] = NullFile
                                          \/ /\ files_'[key] = name
                                             /\ Mid(Tail(q), pk, q[1].id)
                                             /\ Len(content'[name]) = NextSeq(Tail(q), pk) - 1
  BY DEF FileOK, Entry
<1> DEFINE b == q[1]
           v == EntryFor(b, key, name)
           c == content[name]
           n == NextSeq(Tail(q), pk)
           mid == Mid(Tail(q), pk, b.id)
<1>1. /\ b \in Buffers
      /\ b.marker = "START" => b.seq = 1
      /\ b.marker \notin {"END", "NONE"} => n = b.seq + 1 /\ mid
  BY QueueTail DEF Placed, Closes
<1>2. b.seq \in Nat /\ b.seq \in 0..MaxBuffers /\ b.marker \in {"NONE", "START", "MIDDLE", "END"}
  BY <1>1, BufferTypes DEF Buffers
<1>3. c \in Seq(Transmitters \X (0..MaxBuffers)) /\ content'[name] \in Seq(Transmitters \X (0..MaxBuffers))
  <2>1. content' \in [Names -> Contents]
    BY DEF Logged
  <2> QED BY <2>1 DEF Contents
<1>4. \A i \in 1..Len(c) : c[i] = <<f, i>>
  BY DEF FileOK, Faithful
<1>5. NextSeq(q, pk) = b.seq
  BY DEF NextSeq
<1>6. key \in DOMAIN files_' => b.marker # "END" /\ files_'[key] = v
  BY DEF Logged
<1>7. v # name => content'[name] = c
  BY DEF Logged
<1>8. v = name => content'[name] = Append(IF b.marker = "START" THEN <<>> ELSE c, <<f, b.seq>>)
  BY DEF Logged
<1>9. b.marker # "START" =>
         v = NullFile \/ (v = name /\ Len(c) = b.seq - 1 /\ b.seq > 1 /\ b.marker # "NONE")
  <2>1. Mid(q, pk, b.id) => b.seq > 1 /\ b.marker # "NONE"
    BY MidMarked
  <2> QED BY <1>5, <2>1 DEF EntryFor, FileOK, Entry
<1>10. b.marker = "START" => v = name
  BY DEF EntryFor
<1> HIDE DEF v, c, b, n, mid
<1>11. CASE v # name
  BY <1>1, <1>4, <1>6, <1>7, <1>9, <1>10, <1>11 DEF Faithful, b, c, n, mid
<1>12. CASE v = name
  <2> DEFINE d == IF b.marker = "START" THEN <<>> ELSE c
             d2 == content'[name]
  <2>1. /\ d \in Seq(Transmitters \X (0..MaxBuffers)) /\ Len(d) = b.seq - 1 /\ Len(d) \in Nat
        /\ b.seq >= 1 /\ b.marker # "NONE"
        /\ \A i \in 1..Len(d) : d[i] = <<f, i>>
    <3>1. CASE b.marker = "START"
      BY <1>1, <3>1
    <3>2. CASE b.marker # "START"
      <4>1. v # NullFile
        BY <1>12, NoNameIsNull
      <4> QED BY <1>2, <1>3, <1>4, <1>9, <3>2, <4>1
    <3> QED BY <3>1, <3>2
  <2>2. d2 = Append(d, <<f, b.seq>>)
    BY <1>8, <1>12
  <2> HIDE DEF d, d2
  <2>3. <<f, b.seq>> \in Transmitters \X (0..MaxBuffers)
    BY <1>2
  <2>4. /\ Len(d2) = b.seq
        /\ \A i \in 1..Len(d) : d2[i] = d[i]
        /\ d2[b.seq] = <<f, b.seq>>
    <3>1. Len(d2) = Len(d) + 1 /\ (\A i \in 1..Len(d) : d2[i] = d[i]) /\ d2[Len(d) + 1] = <<f, b.seq>>
      BY <2>1, <2>2, <2>3, AppendProperties
    <3>2. Len(d) + 1 = b.seq
      BY <1>2, <2>1
    <3> QED BY <3>1, <3>2
  <2>5. Faithful(d2, f)
    <3>1. ASSUME NEW i \in 1..Len(d2) PROVE d2[i] = <<f, i>>
      <4>1. i \in 1..Len(d) \/ i = b.seq
        BY <1>2, <2>1, <2>4
      <4> QED BY <2>1, <2>4, <4>1
    <3> QED BY <3>1 DEF Faithful
  <2>6. key \in DOMAIN files_' => files_'[key] = name /\ mid /\ Len(d2) = n - 1
    BY <1>1, <1>2, <1>6, <1>12, <2>1, <2>4
  <2> QED BY <2>5, <2>6 DEF d2, b, n, mid
<1> QED BY <1>11, <1>12

-----------------------------------------------------------------------------
(* The invariant *)

LEMMA LogInitially == LoggerInit => LogInv
<1> SUFFICES ASSUME LoggerInit PROVE LogInv
  OBVIOUS
<1> DEFINE pk == [id |-> -1, sent |-> 0, open |-> FALSE, quiet |-> 0]
<1>1. \A f \in Transmitters : packet[f] = pk
  BY DEF LoggerInit
<1>2. /\ \A f \in Transmitters : DetectorAudio[f] = <<>>
      /\ \A f \in Transmitters : \A t \in Receivers(f) : AudioOut[f][t] = <<>>
  BY DEF LoggerInit
<1>3. DOMAIN files_ = {}
  BY DEF LoggerInit
<1>4. \A f \in Transmitters : PacketOK(packet[f])
  <2>1. -1 \in Ids /\ 0 \in 0..MaxBuffers /\ 0 \in Nat
    BY LogBounds DEF Ids
  <2>2. pk \in [id : Ids, sent : 0..MaxBuffers, open : BOOLEAN, quiet : Nat] /\ ~pk.open
    BY <2>1
  <2>3. PacketOK(pk)
    BY <2>2 DEF PacketOK
  <2> QED BY <1>1, <2>3
<1>5. Streams
  BY <1>2, EmptyStream DEF Streams
<1>6. content \in [Names -> Contents] /\ \A n \in Names : content[n] = <<>>
  <2>1. <<>> \in Contents
    BY DEF Contents
  <2> QED BY <2>1 DEF LoggerInit
<1>7. LogTypes
  BY <1>3, <1>4, <1>6 DEF LogTypes, LoggerInit
<1>8. \A f \in Transmitters, id \in Ids :
         /\ <<"in", id, f, -1>> \in Names
         /\ \A t \in Receivers(f) : <<"out", id, f, t>> \in Names
  BY ModemsAssumption DEF Names, Receivers
<1>9. \A f : Faithful(<<>>, f)
  BY DEF Faithful
<1>10. InFiles /\ OutFiles /\ OutAlone /\ NotYet
  BY <1>2, <1>3, <1>6, <1>8, <1>9 DEF InFiles, OutFiles, OutAlone, NotYet, Receivers
<1>11. ClosedIsPast /\ AllClosedAnnounced
  BY DEF ClosedIsPast, AllClosedAnnounced, LoggerInit
<1> QED BY <1>5, <1>7, <1>10, <1>11 DEF LogInv

LEMMA NamesOf ==
    ASSUME NEW id \in Ids, NEW f \in Transmitters
    PROVE  /\ <<"in", id, f, -1>> \in Names
           /\ \A t \in Receivers(f) : <<"out", id, f, t>> \in Names /\ t \in Modems
           /\ f \in Modems /\ f \in Nat
BY ModemsAssumption DEF Names, Receivers

(* Whoever uses an entry of packet id has come to that packet id.          *)
LEMMA OnlyHe ==
    ASSUME LogTypes, OutFiles, NEW f \in Transmitters, NEW id \in Ids, Alone(f, id),
           NEW t \in Modems, <<"out", id, t>> \in DOMAIN files_
    PROVE  t \in Receivers(f) /\ Uses(f, t, id)
<1>1. PICK g \in Transmitters \ {t} : Uses(g, t, id)
  BY DEF OutFiles
<1>2. t \in Receivers(g)
  BY <1>1 DEF Receivers
<1>3. packet[g].id \in Int /\ id \in Int /\ packet[g].id >= id
  BY <1>1, PacketTypes DEF LogTypes, Ids, Uses
<1>4. g = f
  BY <1>3 DEF Alone
<1> QED BY <1>1, <1>2, <1>4

(* What a detector sends changes nothing about the packets it has begun.   *)
LEMMA PublishKeeps ==
    ASSUME LogInv, NEW f \in Transmitters, NEW b, NEW pk, Upcoming(cfg_continuous, packet[f], b, pk),
           packet' = [packet EXCEPT ![f] = pk],
           DetectorAudio' = IF running THEN [DetectorAudio EXCEPT ![f] = Sent(@, b)]
                            ELSE DetectorAudio,
           AudioOut' = [AudioOut EXCEPT ![f] = [t \in Receivers(f) |-> Sent(@[t], b)]],
           UNCHANGED <<cfg_continuous, running, log>>
    PROVE  LogInv'
<1> USE DEF LogInv
<1>1. /\ packet'[f] = pk
      /\ \A g \in Transmitters \ {f} : packet'[g] = packet[g]
      /\ packet' = [g \in Transmitters |-> packet'[g]]
  BY DEF LogTypes
<1>2. /\ DetectorAudio'[f] = IF running THEN Sent(DetectorAudio[f], b) ELSE DetectorAudio[f]
      /\ \A g \in Transmitters \ {f} : DetectorAudio'[g] = DetectorAudio[g]
      /\ DetectorAudio' = [g \in Transmitters |-> DetectorAudio'[g]]
  BY DEF LogTypes
<1>3. /\ \A t \in Receivers(f) : AudioOut'[f][t] = Sent(AudioOut[f][t], b)
      /\ \A g \in Transmitters \ {f} : \A t \in Receivers(g) : AudioOut'[g][t] = AudioOut[g][t]
      /\ AudioOut' = [g \in Transmitters |-> [t \in Receivers(g) |-> AudioOut'[g][t]]]
  <2>1. DOMAIN AudioOut = Transmitters /\ AudioOut = [g \in Transmitters |-> AudioOut[g]]
    BY DEF LogTypes
  <2>2. \A g \in Transmitters : AudioOut[g] = [t \in Receivers(g) |-> AudioOut[g][t]]
    BY DEF LogTypes
  <2>3. /\ AudioOut' = [g \in Transmitters |-> AudioOut'[g]]
        /\ AudioOut'[f] = [t \in Receivers(f) |-> Sent(AudioOut[f][t], b)]
        /\ \A g \in Transmitters \ {f} : AudioOut'[g] = AudioOut[g]
    BY <2>1
  <2>4. \A g \in Transmitters : AudioOut'[g] = [t \in Receivers(g) |-> AudioOut'[g][t]]
    BY <2>2, <2>3
  <2> QED BY <2>3, <2>4
<1>4. /\ running' = running /\ files_' = files_ /\ content' = content
      /\ announced' = announced /\ closed' = closed /\ cfg_continuous' = cfg_continuous
  BY DEF log
<1>5. \A g \in Transmitters :
         /\ PacketOK(packet[g]) /\ Stream(cfg_continuous, DetectorAudio[g], packet[g])
         /\ \A t \in Receivers(g) : Stream(cfg_continuous, AudioOut[g][t], packet[g])
  BY DEF LogTypes, Streams
<1>6. PacketOK(packet'[f]) /\ packet'[f].id >= packet[f].id
  <2>1. PacketOK(pk) /\ (pk.id = packet[f].id \/ pk.id = packet[f].id + 1)
    BY DEF Upcoming
  <2>2. packet[f].id \in Int
    BY <1>5, PacketTypes
  <2> QED BY <1>1, <2>1, <2>2
<1>7. ~running => DetectorAudio[f] = <<>> /\ DOMAIN files_ = {}
  BY DEF NotYet
\* The two kinds of queues of f, and those of the others.
<1>8. \A t \in Receivers(f) :
         /\ Stream(cfg_continuous, AudioOut'[f][t], packet'[f])
         /\ \A id \in Ids :
               /\ Mid(AudioOut[f][t], packet[f], id) =>
                     /\ Mid(AudioOut'[f][t], packet'[f], id)
                     /\ NextSeq(AudioOut'[f][t], packet'[f]) = NextSeq(AudioOut[f][t], packet[f])
               /\ Done(AudioOut[f][t], packet[f], id) => Done(AudioOut'[f][t], packet'[f], id)
  <2> SUFFICES ASSUME NEW t \in Receivers(f)
               PROVE  Grows(cfg_continuous, AudioOut[f][t], packet[f], AudioOut'[f][t], packet'[f])
    BY Zenon DEF Grows
  <2>1. PICK q, pk0 : q = AudioOut[f][t] /\ pk0 = packet[f]
    OBVIOUS
  <2>2. Grows(cfg_continuous, q, pk0, Sent(q, b), pk)
    BY <1>5, <2>1, SentGrows
  <2>3. AudioOut'[f][t] = Sent(q, b)
    BY <1>3, <2>1
  <2> QED BY <1>1, <2>1, <2>2, <2>3, Zenon
<1>9. /\ Stream(cfg_continuous, DetectorAudio'[f], packet'[f])
      /\ running => \A id \in Ids : Mid(DetectorAudio[f], packet[f], id) =>
            /\ Mid(DetectorAudio'[f], packet'[f], id)
            /\ NextSeq(DetectorAudio'[f], packet'[f]) = NextSeq(DetectorAudio[f], packet[f])
  <2>1. CASE running
    <3>1. PICK q, pk0 : q = DetectorAudio[f] /\ pk0 = packet[f]
      OBVIOUS
    <3>2. Grows(cfg_continuous, q, pk0, Sent(q, b), pk)
      BY <1>5, <3>1, SentGrows
    <3>3. DetectorAudio'[f] = Sent(q, b)
      BY <1>2, <2>1, <3>1
    <3>4. Grows(cfg_continuous, DetectorAudio[f], packet[f], DetectorAudio'[f], packet'[f])
      BY <1>1, <3>1, <3>2, <3>3, Zenon
    <3> QED BY <3>4, Zenon DEF Grows
  <2>2. CASE ~running
    <3>1. Stream(cfg_continuous, <<>>, packet'[f])
      BY EmptyStream
    <3> QED BY <1>2, <1>7, <2>2, <3>1
  <2> QED BY <2>1, <2>2
<1>10. LogTypes'
  <2>1. \A g \in Transmitters : PacketOK(packet'[g])
    BY <1>1, <1>5, <1>6
  <2>2. /\ content' \in [Names -> Contents] /\ announced' \in [Transmitters \X Ids -> Nat]
        /\ DOMAIN files_' \subseteq ({"in"} \X Ids \X Transmitters) \cup ({"out"} \X Ids \X Modems)
        /\ cfg_continuous' \in BOOLEAN
    BY <1>4 DEF LogTypes
  <2> QED BY <1>1, <1>2, <1>3, <2>1, <2>2 DEF LogTypes
<1>11. Streams'
  BY <1>1, <1>2, <1>3, <1>4, <1>5, <1>8, <1>9 DEF Streams
<1>12. NotYet'
  BY <1>2, <1>4, <1>7 DEF NotYet
<1>13. InFiles'
  <2> SUFFICES ASSUME NEW g \in Transmitters, NEW id \in Ids
               PROVE  /\ Faithful(content'[<<"in", id, g, -1>>], g)
                      /\ <<"in", id, g>> \in DOMAIN files_' =>
                            /\ cfg_continuous' \/ Mid(DetectorAudio'[g], packet'[g], id)
                            /\ Entry(files_[<<"in", id, g>>], <<"in", id, g, -1>>,
                                     DetectorAudio[g], packet[g], id)'
    BY DEF InFiles
  <2>1. /\ Faithful(content[<<"in", id, g, -1>>], g)
        /\ <<"in", id, g>> \in DOMAIN files_ =>
              /\ cfg_continuous \/ Mid(DetectorAudio[g], packet[g], id)
              /\ Entry(files_[<<"in", id, g>>], <<"in", id, g, -1>>,
                       DetectorAudio[g], packet[g], id)
    BY DEF InFiles
  <2>2. Mid(DetectorAudio[g], packet[g], id) /\ <<"in", id, g>> \in DOMAIN files_ =>
           /\ Mid(DetectorAudio'[g], packet'[g], id)
           /\ NextSeq(DetectorAudio'[g], packet'[g]) = NextSeq(DetectorAudio[g], packet[g])
    BY <1>1, <1>2, <1>7, <1>9
  <2> QED BY <1>4, <2>1, <2>2 DEF Entry
<1>14. ASSUME NEW g \in Transmitters, NEW t \in Receivers(g), NEW id \in Ids
       PROVE  /\ Mid(AudioOut[g][t], packet[g], id) =>
                    /\ Mid(AudioOut'[g][t], packet'[g], id)
                    /\ NextSeq(AudioOut'[g][t], packet'[g]) = NextSeq(AudioOut[g][t], packet[g])
              /\ Uses(g, t, id) => Uses(g, t, id)'
  <2>1. Mid(AudioOut[g][t], packet[g], id) =>
           /\ Mid(AudioOut'[g][t], packet'[g], id)
           /\ NextSeq(AudioOut'[g][t], packet'[g]) = NextSeq(AudioOut[g][t], packet[g])
    BY <1>1, <1>3, <1>8
  <2>2. packet'[g].id >= packet[g].id /\ packet'[g].id \in Int /\ packet[g].id \in Int /\ id \in Int
    <3>1. PacketOK(packet[g]) /\ PacketOK(packet'[g])
      BY <1>1, <1>5, <1>6
    <3>2. packet'[g].id \in Int /\ packet[g].id \in Int /\ id \in Int
      BY <3>1, PacketTypes DEF Ids
    <3> QED BY <1>1, <1>6, <3>2
  <2> QED BY <1>4, <2>1, <2>2 DEF Uses
<1>15. OutFiles'
  <2> SUFFICES ASSUME NEW t \in Modems, NEW id \in Ids, <<"out", id, t>> \in DOMAIN files_
               PROVE  /\ \E g \in Transmitters \ {t} : Uses(g, t, id)'
                      /\ \/ files_[<<"out", id, t>>] = NullFile
                         \/ \E g \in Transmitters \ {t} :
                               /\ files_[<<"out", id, t>>] = <<"out", id, g, t>>
                               /\ Mid(AudioOut'[g][t], packet'[g], id)
    BY <1>4 DEF OutFiles
  <2>1. \A g \in Transmitters \ {t} : t \in Receivers(g)
    BY DEF Receivers
  <2>2. \E g \in Transmitters \ {t} : Uses(g, t, id)'
    <3>1. PICK g \in Transmitters \ {t} : Uses(g, t, id)
      BY DEF OutFiles
    <3> QED BY <1>14, <2>1, <3>1
  <2>3. CASE files_[<<"out", id, t>>] # NullFile
    <3>1. PICK g \in Transmitters \ {t} : /\ files_[<<"out", id, t>>] = <<"out", id, g, t>>
                                          /\ Mid(AudioOut[g][t], packet[g], id)
      BY <2>3 DEF OutFiles
    <3> QED BY <1>14, <2>1, <2>2, <3>1
  <2> QED BY <2>2, <2>3
<1>16. \A g \in Transmitters, id \in Ids : Alone(g, id)' => Alone(g, id)
  <2> SUFFICES ASSUME NEW g \in Transmitters, NEW id \in Ids, Alone(g, id)',
                      NEW h \in Transmitters \ {g}
               PROVE  packet[h].id < id
    BY DEF Alone
  <2>1. packet'[h].id < id
    BY DEF Alone
  <2>2. /\ packet'[h].id \in Int /\ packet[h].id \in Int /\ id \in Int
        /\ packet'[h].id >= packet[h].id
    <3>1. PacketOK(packet[h]) /\ PacketOK(packet'[h])
      BY <1>1, <1>5, <1>6
    <3>2. packet'[h].id \in Int /\ packet[h].id \in Int /\ id \in Int
      BY <3>1, PacketTypes DEF Ids
    <3> QED BY <1>1, <1>6, <3>2
  <2> QED BY <2>1, <2>2
<1>17. OutAlone'
  <2> SUFFICES ASSUME NEW g \in Transmitters, NEW id \in Ids, Alone(g, id), NEW t \in Receivers(g)
               PROVE  /\ Faithful(content'[<<"out", id, g, t>>], g)
                      /\ <<"out", id, t>> \in DOMAIN files_' =>
                            Entry(files_[<<"out", id, t>>], <<"out", id, g, t>>,
                                  AudioOut[g][t], packet[g], id)'
    BY <1>16 DEF OutAlone
  <2>1. /\ Faithful(content[<<"out", id, g, t>>], g)
        /\ <<"out", id, t>> \in DOMAIN files_ =>
              Entry(files_[<<"out", id, t>>], <<"out", id, g, t>>,
                    AudioOut[g][t], packet[g], id)
    BY DEF OutAlone
  <2>2. Mid(AudioOut[g][t], packet[g], id) =>
           /\ Mid(AudioOut'[g][t], packet'[g], id)
           /\ NextSeq(AudioOut'[g][t], packet'[g]) = NextSeq(AudioOut[g][t], packet[g])
    BY <1>14
  <2> QED BY <1>4, <2>1, <2>2 DEF Entry
<1>18. ClosedIsPast'
  BY <1>1, <1>3, <1>4, <1>8 DEF ClosedIsPast
<1>19. AllClosedAnnounced'
  BY <1>4, <1>16 DEF AllClosedAnnounced
<1> QED BY <1>10, <1>11, <1>12, <1>13, <1>15, <1>17, <1>18, <1>19

(* What a detector sends is the buffer after its last one.                 *)
LEMMA DetectorKeeps ==
    ASSUME LogInv, NEW f \in Transmitters, BeginPacket(f) \/ GoOn(f) \/ BetweenPackets(f)
    PROVE  LogInv'
<1>1. PacketOK(packet[f]) /\ cfg_continuous \in BOOLEAN /\ DOMAIN packet = Transmitters
  BY DEF LogInv, LogTypes
<1>2. /\ packet[f].id \in Int /\ packet[f].id >= -1 /\ packet[f].id \in Ids
      /\ packet[f].sent \in Nat /\ packet[f].sent \in 0..MaxBuffers /\ packet[f].quiet \in Nat
      /\ packet[f].id < MaxPackets /\ packet[f].open \in BOOLEAN
      /\ packet[f] = [id |-> packet[f].id, sent |-> packet[f].sent,
                      open |-> packet[f].open, quiet |-> packet[f].quiet]
  BY <1>1, PacketTypes DEF PacketOK
<1>3. ASSUME NEW b, Publish(f, b), NEW pk, Upcoming(cfg_continuous, packet[f], b, pk),
             packet' = [packet EXCEPT ![f] = pk]
      PROVE  LogInv'
  BY <1>3, PublishKeeps DEF Publish
\* A buffer of a packet.
<1>4. ASSUME NEW id \in Ids, NEW n \in 1..MaxBuffers, NEW marker \in {"START", "MIDDLE", "END"},
             InPacket(f, id, n, marker), id >= 0,
             IF packet[f].open THEN id = packet[f].id /\ n = packet[f].sent + 1
             ELSE id = packet[f].id + 1 /\ n = 1,
             marker = "START" => n = 1, n = MaxBuffers => marker = "END"
      PROVE  LogInv'
  <2> DEFINE b == Numbered(id, n, marker)
             pk == [id |-> id, sent |-> n, open |-> marker # "END", quiet |-> packet[f].quiet]
  <2>1. packet' = [packet EXCEPT ![f] = pk] /\ Publish(f, b)
    BY <1>4 DEF InPacket
  <2>2. b \in Buffers /\ b.id = id /\ b.seq = n /\ b.marker = marker
    BY LogBounds DEF Buffers, Numbered
  <2>3. pk.id = id /\ pk.sent = n /\ (pk.open <=> marker # "END")
    OBVIOUS
  <2>4. PacketOK(pk)
    <3>1. pk \in [id : Ids, sent : 0..MaxBuffers, open : BOOLEAN, quiet : Nat]
      BY <1>2, LogBounds
    <3>2. marker # "END" => n \in 1..(MaxBuffers - 1)
      BY <1>4, LogBounds
    <3> HIDE DEF pk
    <3> QED BY <1>4, <2>3, <3>1, <3>2 DEF PacketOK
  <2> HIDE DEF b, pk
  <2>5. Upcoming(cfg_continuous, packet[f], b, pk)
    BY <1>2, <1>4, <2>2, <2>3, <2>4 DEF Upcoming, Placed, Closes
  <2>6. PICK b0, pk0 : b0 = b /\ pk0 = pk
    OBVIOUS
  <2>7. Publish(f, b0) /\ Upcoming(cfg_continuous, packet[f], b0, pk0) /\ packet' = [packet EXCEPT ![f] = pk0]
    BY <2>1, <2>5, <2>6
  <2> QED BY <1>3, <2>7
<1>5. CASE BeginPacket(f)
  <2> DEFINE id == packet[f].id + 1
  <2>1. PICK marker \in {"START", "MIDDLE", "END"} : InPacket(f, id, 1, marker)
    BY <1>5 DEF BeginPacket
  <2>2. ~packet[f].open /\ id < MaxPackets
    BY <1>5 DEF BeginPacket
  <2>3. id \in Ids /\ id >= 0 /\ 1 \in 1..MaxBuffers /\ 1 # MaxBuffers
    BY <1>2, <2>2, LogBounds DEF Ids
  <2>4. PICK i : i = id
    OBVIOUS
  <2> QED BY <1>4, <2>1, <2>2, <2>3, <2>4
<1>6. CASE GoOn(f)
  <2> DEFINE n == packet[f].sent + 1
  <2>1. PICK marker \in {"MIDDLE", "END"} :
            /\ packet[f].sent + (IF cfg_continuous THEN 2 ELSE 1) >= MaxBuffers => marker = "END"
            /\ InPacket(f, packet[f].id, n, marker)
    BY <1>6 DEF GoOn
  <2>2. packet[f].open
    BY <1>6 DEF GoOn
  <2>3. n \in 1..MaxBuffers /\ packet[f].id >= 0
    <3>1. packet[f].id # -1 /\ packet[f].sent \in 1..(MaxBuffers - 1)
      BY <1>1, <2>2 DEF PacketOK
    <3> QED BY <1>2, <3>1, LogBounds
  <2>4. n = MaxBuffers => marker = "END"
    <3>1. n = MaxBuffers => packet[f].sent + (IF cfg_continuous THEN 2 ELSE 1) >= MaxBuffers
      BY <1>1, <1>2, LogBounds
    <3> QED BY <2>1, <3>1
  <2>5. PICK i, m : i = packet[f].id /\ m = n
    OBVIOUS
  <2>6. i \in Ids /\ m \in 1..MaxBuffers /\ i >= 0 /\ InPacket(f, i, m, marker) /\ marker # "START"
        /\ i = packet[f].id /\ m = packet[f].sent + 1 /\ (m = MaxBuffers => marker = "END")
    BY <1>2, <2>1, <2>3, <2>4, <2>5
  <2> HIDE DEF n
  <2> QED BY <1>4, <2>2, <2>6
<1>7. CASE BetweenPackets(f)
  <2> DEFINE b == Numbered(packet[f].id, 0, "NONE")
             pk == [packet[f] EXCEPT !.quiet = @ + 1]
  <2>1. /\ cfg_continuous /\ ~packet[f].open /\ Publish(f, b)
        /\ packet' = [packet EXCEPT ![f].quiet = @ + 1]
    BY <1>7 DEF BetweenPackets
  <2>2. packet' = [packet EXCEPT ![f] = pk]
    BY <1>1, <2>1
  <2>3. b \in Buffers /\ b.id = packet[f].id /\ b.seq = 0 /\ b.marker = "NONE"
    BY <1>2, LogBounds DEF Buffers, Numbered
  <2>4. pk.id = packet[f].id /\ pk.sent = packet[f].sent /\ pk.open = packet[f].open
        /\ pk \in [id : Ids, sent : 0..MaxBuffers, open : BOOLEAN, quiet : Nat]
    BY <1>2
  <2> HIDE DEF b, pk
  <2>5. PacketOK(pk)
    BY <2>1, <2>4 DEF PacketOK
  <2>6. Upcoming(cfg_continuous, packet[f], b, pk)
    BY <2>1, <2>3, <2>4, <2>5 DEF Upcoming, Placed, Closes
  <2>7. PICK b0, pk0 : b0 = b /\ pk0 = pk
    OBVIOUS
  <2>8. Publish(f, b0) /\ Upcoming(cfg_continuous, packet[f], b0, pk0) /\ packet' = [packet EXCEPT ![f] = pk0]
    BY <2>1, <2>2, <2>6, <2>7
  <2> QED BY <1>3, <2>8
<1> QED BY <1>5, <1>6, <1>7

LEMMA LaunchKeeps == LogInv /\ Launch => LogInv'
<1> SUFFICES ASSUME LogInv, Launch PROVE LogInv'
  OBVIOUS
<1>1. /\ running' /\ packet' = packet /\ DetectorAudio' = DetectorAudio /\ AudioOut' = AudioOut
      /\ files_' = files_ /\ content' = content /\ announced' = announced /\ closed' = closed
      /\ cfg_continuous' = cfg_continuous
  BY DEF Launch, detectors, log
<1>2. LogTypes' /\ Streams' /\ NotYet'
  BY <1>1 DEF LogInv, LogTypes, Streams, NotYet
<1>3. InFiles' /\ OutFiles' /\ OutAlone'
  BY <1>1 DEF LogInv, InFiles, OutFiles, OutAlone, Entry, Alone, Uses
<1>4. ClosedIsPast' /\ AllClosedAnnounced'
  BY <1>1 DEF LogInv, ClosedIsPast, AllClosedAnnounced, Alone
<1> QED BY <1>2, <1>3, <1>4 DEF LogInv

(* Taking the first buffer out of the queue from f to t.                   *)
LEMMA AudioOutTaken ==
    ASSUME LogTypes, Streams, NEW f \in Transmitters, NEW t \in Receivers(f),
           AudioOut[f][t] # <<>>, AudioOut' = [AudioOut EXCEPT ![f][t] = Tail(@)]
    PROVE  /\ AudioOut' = [g \in Transmitters |-> [u \in Receivers(g) |-> AudioOut'[g][u]]]
           /\ AudioOut'[f][t] = Tail(AudioOut[f][t])
           /\ \A g \in Transmitters : \A u \in Receivers(g) :
                 g # f \/ u # t => AudioOut'[g][u] = AudioOut[g][u]
           /\ \A g \in Transmitters : \A u \in Receivers(g) : Stream(cfg_continuous, AudioOut'[g][u], packet[g])
           /\ \A g \in Transmitters : \A u \in Receivers(g) : \A id \in Ids :
                 Done(AudioOut[g][u], packet[g], id) => Done(AudioOut'[g][u], packet[g], id)
<1>1. AudioOut = [g \in Transmitters |-> AudioOut[g]]
  BY DEF LogTypes
<1>2. \A g \in Transmitters : AudioOut[g] = [u \in Receivers(g) |-> AudioOut[g][u]]
  BY DEF LogTypes
<1>3. /\ AudioOut' = [g \in Transmitters |-> AudioOut'[g]]
      /\ AudioOut'[f] = [AudioOut[f] EXCEPT ![t] = Tail(@)]
      /\ \A g \in Transmitters : g # f => AudioOut'[g] = AudioOut[g]
  BY <1>1
<1>4. /\ AudioOut'[f] = [u \in Receivers(f) |-> AudioOut'[f][u]]
      /\ AudioOut'[f][t] = Tail(AudioOut[f][t])
      /\ \A u \in Receivers(f) : u # t => AudioOut'[f][u] = AudioOut[f][u]
  <2> DEFINE a == AudioOut[f]
             b == AudioOut'[f]
             R == Receivers(f)
             x == Tail(a[t])
  <2>1. a = [u \in R |-> a[u]] /\ b = [a EXCEPT ![t] = x] /\ t \in R
    BY <1>2, <1>3
  <2> HIDE DEF a, b, R, x
  <2>2. b = [u \in R |-> b[u]] /\ b[t] = x /\ \A u \in R : u # t => b[u] = a[u]
    BY <2>1
  <2> QED BY <2>2, Zenon DEF a, b, R, x
<1>5. ASSUME NEW g \in Transmitters PROVE AudioOut'[g] = [u \in Receivers(g) |-> AudioOut'[g][u]]
  <2>1. CASE g = f
    BY <1>4, <2>1, Zenon
  <2>2. CASE g # f
    <3> DEFINE a == AudioOut[g]
               b == AudioOut'[g]
    <3>1. b = a /\ a = [u \in Receivers(g) |-> a[u]]
      BY <1>2, <1>3, <2>2, Zenon
    <3> HIDE DEF a, b
    <3>2. b = [u \in Receivers(g) |-> b[u]]
      BY <3>1, Zenon
    <3> QED BY <3>2 DEF b
  <2> QED BY <2>1, <2>2
<1>6. \A g \in Transmitters : \A u \in Receivers(g) :
         g # f \/ u # t => AudioOut'[g][u] = AudioOut[g][u]
  BY <1>3, <1>4
<1>7. \A g \in Transmitters : /\ PacketOK(packet[g])
                              /\ \A u \in Receivers(g) : Stream(cfg_continuous, AudioOut[g][u], packet[g])
  BY DEF LogTypes, Streams
<1>8. /\ Stream(cfg_continuous, AudioOut'[f][t], packet[f])
      /\ \A id \in Ids : Done(AudioOut[f][t], packet[f], id) => Done(AudioOut'[f][t], packet[f], id)
  BY <1>4, <1>7, QueueTail
<1>9. \A g \in Transmitters : \A u \in Receivers(g) : Stream(cfg_continuous, AudioOut'[g][u], packet[g])
  BY <1>6, <1>7, <1>8
<1>10. \A g \in Transmitters : \A u \in Receivers(g) : \A id \in Ids :
          Done(AudioOut[g][u], packet[g], id) => Done(AudioOut'[g][u], packet[g], id)
  BY <1>6, <1>8
<1> QED BY <1>3, <1>4, <1>5, <1>6, <1>9, <1>10

LEMMA MissedKeeps ==
    ASSUME LogInv, NEW f \in Transmitters, NEW t \in Receivers(f), Missed(f, t)
    PROVE  LogInv'
<1>1. /\ AudioOut[f][t] # <<>> /\ AudioOut' = [AudioOut EXCEPT ![f][t] = Tail(@)]
      /\ ~running /\ ~running' /\ packet' = packet /\ DetectorAudio' = DetectorAudio
      /\ files_' = files_ /\ content' = content /\ announced' = announced /\ closed' = closed
      /\ cfg_continuous' = cfg_continuous
  BY DEF Missed, log
<1>2. /\ AudioOut' = [g \in Transmitters |-> [u \in Receivers(g) |-> AudioOut'[g][u]]]
      /\ \A g \in Transmitters : \A u \in Receivers(g) : Stream(cfg_continuous, AudioOut'[g][u], packet[g])
      /\ \A g \in Transmitters : \A u \in Receivers(g) : \A id \in Ids :
            Done(AudioOut[g][u], packet[g], id) => Done(AudioOut'[g][u], packet[g], id)
  BY <1>1, AudioOutTaken DEF LogInv
<1>3. DOMAIN files_ = {}
  BY <1>1 DEF LogInv, NotYet
<1>4. LogTypes' /\ Streams' /\ NotYet'
  BY <1>1, <1>2 DEF LogInv, LogTypes, Streams, NotYet
<1>5. InFiles' /\ OutFiles' /\ OutAlone'
  BY <1>1, <1>3 DEF LogInv, InFiles, OutFiles, OutAlone, Alone
<1>6. ClosedIsPast' /\ AllClosedAnnounced'
  BY <1>1, <1>2 DEF LogInv, ClosedIsPast, AllClosedAnnounced, Alone
<1> QED BY <1>4, <1>5, <1>6 DEF LogInv

LEMMA LogInKeeps ==
    ASSUME LogInv, NEW f \in Transmitters, LogIn(f)
    PROVE  LogInv'
<1> DEFINE q == DetectorAudio[f]
           b == q[1]
           key == <<"in", b.id, f>>
           name == <<"in", b.id, f, -1>>
<1>1. PacketOK(packet[f]) /\ Stream(cfg_continuous, q, packet[f]) /\ q # <<>>
  BY DEF LogInv, LogTypes, Streams, LogIn
<1>2. b \in Buffers /\ b.id \in Ids /\ Head(q) = b /\ Stream(cfg_continuous, Tail(q), packet[f])
  BY <1>1, QueueTail, BufferTypes
<1>3. /\ log_audio(b, f, -1, "in")
      /\ DetectorAudio' = [DetectorAudio EXCEPT ![f] = Tail(q)]
      /\ packet' = packet /\ AudioOut' = AudioOut /\ running' = running
      /\ cfg_continuous' = cfg_continuous
  BY <1>2 DEF LogIn
<1>4. announced' = announced /\ closed' = closed
  BY <1>3 DEF log_audio
<1>5. name \in Names /\ f \in Modems
  BY <1>2, NamesOf
<1>6. /\ Faithful(content[name], f)
      /\ key \in DOMAIN files_ => Entry(files_[key], name, q, packet[f], b.id)
  BY <1>2 DEF LogInv, InFiles
<1> HIDE DEF q, b
<1>7. EntryFor(b, key, name) = NullFile \/ EntryFor(b, key, name) = name
  BY <1>6 DEF EntryFor, Entry
<1>8. Logged(b, f, key, name)
  <2>1. ModemIndex("in", f, -1) = f
    BY DEF ModemIndex
  <2>2. content \in [Names -> Contents]
    BY DEF LogInv, LogTypes
  <2> QED BY <1>2, <1>3, <1>5, <1>7, <2>1, <2>2, LogAudio
<1>9. /\ Faithful(content'[name], f)
      /\ key \in DOMAIN files_' => \/ files_'[key] = NullFile
                                   \/ /\ files_'[key] = name
                                      /\ Mid(Tail(q), packet[f], b.id)
                                      /\ Len(content'[name]) = NextSeq(Tail(q), packet[f]) - 1
      /\ key \in DOMAIN files_' => cfg_continuous \/ Mid(Tail(q), packet[f], b.id)
  <2>1. content \in [Names -> Contents]
    BY DEF LogInv, LogTypes
  <2>2. PICK s, pk, k, n : s = q /\ pk = packet[f] /\ k = key /\ n = name
    OBVIOUS
  <2> HIDE DEF key, name
  <2>3. Logged(s[1], f, k, n)
    BY <1>8, <2>2 DEF b, Logged, EntryFor
  <2>4. /\ PacketOK(pk) /\ Stream(cfg_continuous, s, pk) /\ s # <<>> /\ n \in Names
        /\ FileOK(f, k, n, s, pk, s[1].id)
    <3>1. PacketOK(pk) /\ Stream(cfg_continuous, s, pk) /\ s # <<>> /\ n \in Names
      BY <1>1, <1>5, <2>2
    <3>2. FileOK(f, k, n, s, pk, s[1].id)
      BY <1>6, <2>2 DEF b, FileOK
    <3> QED BY <3>1, <3>2
  <2>5. /\ Faithful(content'[n], f)
        /\ k \in DOMAIN files_' => \/ files_'[k] = NullFile
                                   \/ /\ files_'[k] = n
                                      /\ Mid(Tail(s), pk, s[1].id)
                                      /\ Len(content'[n]) = NextSeq(Tail(s), pk) - 1
    <3>1. FileOK(f, k, n, Tail(s), pk, s[1].id)'
      BY <2>1, <2>3, <2>4, FileGoesOn, Zenon
    <3> QED BY <3>1 DEF FileOK, Entry
  <2>6. k \in DOMAIN files_' => cfg_continuous \/ Mid(Tail(s), pk, s[1].id)
    <3>1. k \in DOMAIN files_' => s[1].marker # "END"
      BY <2>3 DEF Logged
    <3>2. Placed(cfg_continuous, s[1]) /\ (~Closes(s[1]) => Mid(Tail(s), pk, s[1].id))
      BY <2>4, QueueTail
    <3> QED BY <3>1, <3>2 DEF Placed, Closes
  <2>7. s[1].id = b.id
    BY <2>2 DEF b
  <2> QED BY <2>2, <2>5, <2>6, <2>7
<1>10. /\ \A k : k # key => /\ k \in DOMAIN files_' <=> k \in DOMAIN files_
                            /\ k \in DOMAIN files_ => files_'[k] = files_[k]
       /\ content' \in [Names -> Contents]
  BY <1>8 DEF Logged
<1>11. \A n \in Names : n # name => content'[n] = content[n]
  <2>1. \A n \in Names : n # EntryFor(b, key, name) => content'[n] = content[n]
    BY <1>8 DEF Logged
  <2> QED BY <1>7, <2>1, NoNameIsNull
<1>12. /\ DetectorAudio'[f] = Tail(q)
       /\ \A g \in Transmitters : g # f => DetectorAudio'[g] = DetectorAudio[g]
       /\ DetectorAudio' = [g \in Transmitters |-> DetectorAudio'[g]]
  BY <1>3 DEF LogInv, LogTypes
<1>13. LogTypes'
  <2>1. DOMAIN files_' \subseteq ({"in"} \X Ids \X Transmitters) \cup ({"out"} \X Ids \X Modems)
    BY <1>2, <1>10 DEF LogInv, LogTypes
  <2> QED BY <1>3, <1>4, <1>10, <1>12, <2>1 DEF LogInv, LogTypes
<1>14. Streams'
  BY <1>2, <1>3, <1>12 DEF LogInv, Streams
<1>15. NotYet'
  BY <1>1, <1>3 DEF LogInv, NotYet, q
<1>16. InFiles'
  <2> SUFFICES ASSUME NEW g \in Transmitters, NEW id \in Ids
               PROVE  /\ Faithful(content'[<<"in", id, g, -1>>], g)
                      /\ <<"in", id, g>> \in DOMAIN files_' =>
                            /\ cfg_continuous \/ Mid(DetectorAudio'[g], packet[g], id)
                            /\ \/ files_'[<<"in", id, g>>] = NullFile
                               \/ /\ files_'[<<"in", id, g>>] = <<"in", id, g, -1>>
                                  /\ Mid(DetectorAudio'[g], packet[g], id)
                                  /\ Len(content'[<<"in", id, g, -1>>]) =
                                        NextSeq(DetectorAudio'[g], packet[g]) - 1
    BY <1>3 DEF InFiles, Entry
  <2>1. CASE g = f /\ id = b.id
    BY <1>9, <1>12, <2>1
  <2>2. CASE ~(g = f /\ id = b.id)
    <3> DEFINE k == <<"in", id, g>>
               n == <<"in", id, g, -1>>
    <3>1. k # key /\ n # name /\ n \in Names
      BY <2>2, NamesOf
    <3>2. /\ Faithful(content[n], g)
          /\ k \in DOMAIN files_ =>
                /\ cfg_continuous \/ Mid(DetectorAudio[g], packet[g], id)
                /\ \/ files_[k] = NullFile
                   \/ /\ files_[k] = n
                      /\ Mid(DetectorAudio[g], packet[g], id)
                      /\ Len(content[n]) = NextSeq(DetectorAudio[g], packet[g]) - 1
      BY DEF LogInv, InFiles, Entry
    <3>3. g = f => ~Mid(DetectorAudio[g], packet[g], id)
      BY <1>1, <2>2 DEF Mid, q, b
    <3> HIDE DEF k, n, key, name
    <3>4. k \in DOMAIN files_' => k \in DOMAIN files_ /\ files_'[k] = files_[k]
      BY <1>10, <3>1
    <3>5. content'[n] = content[n]
      BY <1>11, <3>1
    <3>6. g # f => DetectorAudio'[g] = DetectorAudio[g]
      BY <1>12
    <3> QED BY <3>2, <3>3, <3>4, <3>5, <3>6 DEF k, n
  <2> QED BY <2>1, <2>2
<1>17. \A id \in Ids, t \in Modems :
          /\ <<"out", id, t>> \in DOMAIN files_' <=> <<"out", id, t>> \in DOMAIN files_
          /\ <<"out", id, t>> \in DOMAIN files_ => files_'[<<"out", id, t>>] = files_[<<"out", id, t>>]
  BY <1>10
<1>18. \A g \in Transmitters, id \in Ids : \A t \in Receivers(g) :
          content'[<<"out", id, g, t>>] = content[<<"out", id, g, t>>]
  BY <1>11, NamesOf
<1>19. \A g \in Transmitters, id \in Ids : Alone(g, id)' <=> Alone(g, id)
  BY <1>3 DEF Alone
<1>20. OutFiles'
  <2>1. \A g, t, id : Uses(g, t, id)' <=> Uses(g, t, id)
    BY <1>3 DEF Uses
  <2> QED BY <1>3, <1>17, <2>1, Zenon DEF LogInv, OutFiles
<1>21. OutAlone'
  <2> SUFFICES ASSUME NEW g \in Transmitters, NEW id \in Ids, Alone(g, id)',
                      NEW t \in Receivers(g)
               PROVE  (/\ Faithful(content[<<"out", id, g, t>>], g)
                       /\ <<"out", id, t>> \in DOMAIN files_ =>
                             Entry(files_[<<"out", id, t>>], <<"out", id, g, t>>,
                                   AudioOut[g][t], packet[g], id))'
    BY DEF OutAlone, Receivers
  <2>1. Alone(g, id) /\ t \in Modems
    BY <1>19 DEF Receivers
  <2>2. /\ Faithful(content[<<"out", id, g, t>>], g)
        /\ <<"out", id, t>> \in DOMAIN files_ =>
              Entry(files_[<<"out", id, t>>], <<"out", id, g, t>>,
                    AudioOut[g][t], packet[g], id)
    BY <2>1 DEF LogInv, OutAlone
  <2>3. content'[<<"out", id, g, t>>] = content[<<"out", id, g, t>>]
    BY <1>18
  <2>4. /\ <<"out", id, t>> \in DOMAIN files_' <=> <<"out", id, t>> \in DOMAIN files_
        /\ <<"out", id, t>> \in DOMAIN files_ => files_'[<<"out", id, t>>] = files_[<<"out", id, t>>]
    BY <1>17, <2>1
  <2>5. AudioOut'[g][t] = AudioOut[g][t] /\ packet'[g] = packet[g]
    BY <1>3
  <2> QED BY <2>2, <2>3, <2>4, <2>5 DEF Entry
<1>22. ClosedIsPast' /\ AllClosedAnnounced'
  <2>1. \A g \in Transmitters, id \in Ids : \A t \in Receivers(g) :
           <<"out", id, t>> \in DOMAIN files_' <=> <<"out", id, t>> \in DOMAIN files_
    BY <1>17, NamesOf
  <2> QED BY <1>3, <1>4, <1>19, <2>1 DEF LogInv, ClosedIsPast, AllClosedAnnounced
<1> QED BY <1>13, <1>14, <1>15, <1>16, <1>20, <1>21, <1>22 DEF LogInv

LEMMA LogOutKeeps ==
    ASSUME LogInv, NEW f \in Transmitters, NEW t \in Receivers(f), LogOut(f, t)
    PROVE  LogInv'
<1> DEFINE q == AudioOut[f][t]
           b == q[1]
           key == <<"out", b.id, t>>
           name == <<"out", b.id, f, t>>
<1>1. PacketOK(packet[f]) /\ Stream(cfg_continuous, q, packet[f]) /\ q # <<>>
  BY DEF LogInv, LogTypes, Streams, LogOut
<1>2. /\ b \in Buffers /\ b.id \in Ids /\ Head(q) = b
      /\ b.id <= packet[f].id /\ b.id \in Int /\ packet[f].id \in Int
      /\ b.marker \notin {"END", "NONE"} => Mid(Tail(q), packet[f], b.id)
      /\ b.marker = "END" => Done(Tail(q), packet[f], b.id)
      /\ b.marker = "NONE" => cfg_continuous
  <2>1. /\ b \in Buffers /\ Head(q) = b /\ b.id <= packet[f].id /\ Placed(cfg_continuous, b)
        /\ ~Closes(b) => Mid(Tail(q), packet[f], b.id)
        /\ Closes(b) => Done(Tail(q), packet[f], b.id)
    BY <1>1, QueueTail
  <2>2. packet[f].id \in Int
    BY <1>1, PacketTypes
  <2> HIDE DEF b, q
  <2>3. b.id \in Ids /\ b.id \in Int
    BY <2>1, BufferTypes
  <2> QED BY <2>1, <2>2, <2>3 DEF Placed, Closes
<1>3. /\ log_audio(b, f, t, "out")
      /\ AudioOut' = [AudioOut EXCEPT ![f][t] = Tail(@)]
      /\ packet' = packet /\ DetectorAudio' = DetectorAudio /\ running /\ running'
      /\ cfg_continuous' = cfg_continuous
  BY <1>2 DEF LogOut
<1>4. name \in Names /\ t \in Modems /\ t # f
  BY <1>2, NamesOf DEF Receivers
\* The queues.
<1>5. /\ AudioOut' = [g \in Transmitters |-> [u \in Receivers(g) |-> AudioOut'[g][u]]]
      /\ AudioOut'[f][t] = Tail(q)
      /\ \A g \in Transmitters : \A u \in Receivers(g) :
            g # f \/ u # t => AudioOut'[g][u] = AudioOut[g][u]
      /\ \A g \in Transmitters : \A u \in Receivers(g) : Stream(cfg_continuous, AudioOut'[g][u], packet[g])
      /\ \A g \in Transmitters : \A u \in Receivers(g) : \A id \in Ids :
            Done(AudioOut[g][u], packet[g], id) => Done(AudioOut'[g][u], packet[g], id)
  BY <1>1, <1>3, AudioOutTaken DEF LogInv
<1>6. \A id \in Ids : Mid(q, packet[f], id) =>
         id = b.id /\ b.marker \notin {"NONE", "START"} /\ b.seq > 1
  <2> SUFFICES ASSUME NEW id \in Ids, Mid(q, packet[f], id)
               PROVE  id = b.id /\ b.marker \notin {"NONE", "START"} /\ b.seq > 1
    OBVIOUS
  <2> QED BY <1>1, MidMarked
\* The entry of the receiver and the file it names.
<1>7. key \in DOMAIN files_ => \/ files_[key] = NullFile
                               \/ \E g \in Transmitters \ {t} : files_[key] = <<"out", b.id, g, t>>
  BY <1>2, <1>4 DEF LogInv, OutFiles
<1> HIDE DEF q, b
<1>8. \/ EntryFor(b, key, name) = NullFile
      \/ \E g \in Transmitters \ {t} : EntryFor(b, key, name) = <<"out", b.id, g, t>>
  <2>1. f \in Transmitters \ {t}
    BY <1>4
  <2> QED BY <1>7, <2>1 DEF EntryFor
<1>9. EntryFor(b, key, name) = NullFile \/ EntryFor(b, key, name) \in Names
  <2>1. \A g \in Transmitters \ {t} : <<"out", b.id, g, t>> \in Names
    BY <1>2, <1>4, NamesOf DEF Receivers
  <2> QED BY <1>8, <2>1
<1>10. Logged(b, f, key, name)
  <2>1. ModemIndex("out", f, t) = t
    BY DEF ModemIndex
  <2>2. content \in [Names -> Contents]
    BY DEF LogInv, LogTypes
  <2> QED BY <1>2, <1>3, <1>4, <1>9, <2>1, <2>2, LogAudio
<1>11. /\ \A k : k # key => /\ k \in DOMAIN files_' <=> k \in DOMAIN files_
                            /\ k \in DOMAIN files_ => files_'[k] = files_[k]
       /\ IF b.marker = "END" THEN key \notin DOMAIN files_'
          ELSE key \in DOMAIN files_' /\ files_'[key] = EntryFor(b, key, name)
       /\ content' \in [Names -> Contents]
  BY <1>10 DEF Logged
<1>12. \A n \in Names : (\A g \in Transmitters : n # <<"out", b.id, g, t>>) => content'[n] = content[n]
  <2>1. \A n \in Names : n # EntryFor(b, key, name) => content'[n] = content[n]
    BY <1>10 DEF Logged
  <2> QED BY <1>8, <2>1, NoNameIsNull
<1>13. \A g \in Transmitters, id \in Ids : Alone(g, id)' <=> Alone(g, id)
  BY <1>3 DEF Alone
<1>14. LogTypes'
  <2>1. DOMAIN files_' \subseteq ({"in"} \X Ids \X Transmitters) \cup ({"out"} \X Ids \X Modems)
    BY <1>2, <1>4, <1>11 DEF LogInv, LogTypes
  <2>2. announced' \in [Transmitters \X Ids -> Nat]
    <3>1. announced \in [Transmitters \X Ids -> Nat]
      BY DEF LogInv, LogTypes
    <3>2. announced' = announced \/ announced' = [announced EXCEPT ![<<f, b.id>>] = @ + 1]
      BY <1>3 DEF log_audio
    <3> QED BY <1>2, <3>1, <3>2
  <2> QED BY <1>3, <1>5, <1>11, <2>1, <2>2 DEF LogInv, LogTypes
<1>15. Streams'
  BY <1>3, <1>5 DEF LogInv, Streams
<1>16. NotYet'
  BY <1>3 DEF NotYet
<1>17. InFiles'
  <2>1. \A g \in Transmitters, id \in Ids :
           /\ <<"in", id, g>> \in DOMAIN files_' <=> <<"in", id, g>> \in DOMAIN files_
           /\ <<"in", id, g>> \in DOMAIN files_ => files_'[<<"in", id, g>>] = files_[<<"in", id, g>>]
    BY <1>11
  <2>2. \A g \in Transmitters, id \in Ids : content'[<<"in", id, g, -1>>] = content[<<"in", id, g, -1>>]
    BY <1>12, NamesOf
  <2> QED BY <1>3, <2>1, <2>2 DEF LogInv, InFiles, Entry
<1>18. OutFiles'
  <2> SUFFICES ASSUME NEW u \in Modems, NEW id \in Ids, <<"out", id, u>> \in DOMAIN files_'
               PROVE  /\ \E g \in Transmitters \ {u} : Uses(g, u, id)'
                      /\ \/ files_'[<<"out", id, u>>] = NullFile
                         \/ \E g \in Transmitters \ {u} :
                               /\ files_'[<<"out", id, u>>] = <<"out", id, g, u>>
                               /\ Mid(AudioOut'[g][u], packet[g], id)
    BY <1>3 DEF OutFiles
  <2>1. CASE id = b.id /\ u = t
    <3>1. b.marker # "END" /\ files_'[key] = EntryFor(b, key, name)
      BY <1>11, <2>1
    <3>2. f \in Transmitters \ {t} /\ Uses(f, t, id)'
      BY <1>2, <1>3, <1>4, <1>5, <2>1, <3>1 DEF Uses
    <3>3. \/ EntryFor(b, key, name) = NullFile
          \/ \E g \in Transmitters \ {t} :
                /\ EntryFor(b, key, name) = <<"out", b.id, g, t>>
                /\ Mid(AudioOut'[g][t], packet[g], b.id)
      <4>1. CASE b.marker = "START"
        <5>1. EntryFor(b, key, name) = <<"out", b.id, f, t>>
          BY <4>1 DEF EntryFor
        <5>2. Mid(AudioOut'[f][t], packet[f], b.id)
          BY <1>2, <1>5, <4>1
        <5> QED BY <3>2, <5>1, <5>2
      <4>2. CASE b.marker # "START" /\ key \in DOMAIN files_
        <5>1. EntryFor(b, key, name) = files_[key]
          BY <4>2 DEF EntryFor
        <5>2. CASE files_[key] # NullFile
          <6>1. PICK g \in Transmitters \ {t} : /\ files_[key] = <<"out", b.id, g, t>>
                                                /\ Mid(AudioOut[g][t], packet[g], b.id)
            BY <1>2, <1>4, <4>2, <5>2 DEF LogInv, OutFiles
          <6>2. Mid(AudioOut'[g][t], packet[g], b.id)
            <7>1. CASE g = f
              BY <1>2, <1>5, <1>6, <3>1, <6>1, <7>1 DEF q
            <7>2. CASE g # f
              <8>1. t \in Receivers(g)
                BY <1>4 DEF Receivers
              <8> QED BY <1>5, <6>1, <7>2, <8>1
            <7> QED BY <7>1, <7>2
          <6> QED BY <5>1, <6>1, <6>2
        <5> QED BY <5>1, <5>2
      <4>3. CASE b.marker # "START" /\ key \notin DOMAIN files_
        BY <4>3 DEF EntryFor
      <4> QED BY <4>1, <4>2, <4>3
    <3> QED BY <2>1, <3>1, <3>2, <3>3
  <2>2. CASE ~(id = b.id /\ u = t)
    <3>1. <<"out", id, u>> # key
      BY <2>2
    <3>2. <<"out", id, u>> \in DOMAIN files_ /\ files_'[<<"out", id, u>>] = files_[<<"out", id, u>>]
      BY <1>11, <3>1
    <3>3. \A g \in Transmitters \ {u} :
             Mid(AudioOut[g][u], packet[g], id) => Mid(AudioOut'[g][u], packet[g], id)
      <4> SUFFICES ASSUME NEW g \in Transmitters \ {u}, Mid(AudioOut[g][u], packet[g], id)
                   PROVE  Mid(AudioOut'[g][u], packet[g], id)
        OBVIOUS
      <4>1. u \in Receivers(g) /\ (g # f \/ u # t)
        BY <1>6, <2>2 DEF Receivers, q
      <4> QED BY <1>5, <4>1
    <3>4. PICK g \in Transmitters \ {u} : Uses(g, u, id)
      BY <3>2 DEF LogInv, OutFiles
    <3>5. Uses(g, u, id)'
      BY <1>3, <3>3, <3>4 DEF Uses
    <3>6. \/ files_[<<"out", id, u>>] = NullFile
          \/ \E h \in Transmitters \ {u} : /\ files_[<<"out", id, u>>] = <<"out", id, h, u>>
                                           /\ Mid(AudioOut[h][u], packet[h], id)
      BY <3>2 DEF LogInv, OutFiles
    <3> QED BY <3>2, <3>3, <3>5, <3>6
  <2> QED BY <2>1, <2>2
<1>19. OutAlone'
  <2> SUFFICES ASSUME NEW g \in Transmitters, NEW id \in Ids, Alone(g, id), NEW u \in Receivers(g)
               PROVE  /\ Faithful(content'[<<"out", id, g, u>>], g)
                      /\ <<"out", id, u>> \in DOMAIN files_' =>
                            \/ files_'[<<"out", id, u>>] = NullFile
                            \/ /\ files_'[<<"out", id, u>>] = <<"out", id, g, u>>
                               /\ Mid(AudioOut'[g][u], packet[g], id)
                               /\ Len(content'[<<"out", id, g, u>>]) =
                                     NextSeq(AudioOut'[g][u], packet[g]) - 1
    BY <1>3, <1>13 DEF OutAlone, Entry
  <2> DEFINE k == <<"out", id, u>>
             n == <<"out", id, g, u>>
  <2>1. /\ Faithful(content[n], g)
        /\ k \in DOMAIN files_ => Entry(files_[k], n, AudioOut[g][u], packet[g], id)
    BY DEF LogInv, OutAlone
  <2>3. CASE id = b.id /\ u = t
    <3>1. g = f
      <4>1. g # f => packet[f].id < id
        BY DEF Alone
      <4>2. packet[f].id \in Int /\ id \in Int
        BY <1>1, PacketTypes DEF Ids
      <4> QED BY <1>2, <2>3, <4>1, <4>2
    <3>2. /\ Faithful(content[name], f)
          /\ key \in DOMAIN files_ => Entry(files_[key], name, q, packet[f], b.id)
      BY <2>1, <2>3, <3>1 DEF q
    <3>3. /\ Faithful(content'[name], f)
          /\ key \in DOMAIN files_' =>
                \/ files_'[key] = NullFile
                \/ /\ files_'[key] = name
                   /\ Mid(Tail(q), packet[f], b.id)
                   /\ Len(content'[name]) = NextSeq(Tail(q), packet[f]) - 1
      <4>1. content \in [Names -> Contents]
        BY DEF LogInv, LogTypes
      <4>2. PICK s, pk, k1, n1 : s = q /\ pk = packet[f] /\ k1 = key /\ n1 = name
        OBVIOUS
      <4> HIDE DEF key, name
      <4>3. Logged(s[1], f, k1, n1)
        BY <1>10, <4>2 DEF b, Logged, EntryFor
      <4>4. /\ PacketOK(pk) /\ Stream(cfg_continuous, s, pk) /\ s # <<>> /\ n1 \in Names
            /\ FileOK(f, k1, n1, s, pk, s[1].id)
        BY <1>1, <1>4, <3>2, <4>2 DEF b, FileOK
      <4>5. /\ Faithful(content'[n1], f)
            /\ k1 \in DOMAIN files_' =>
                  \/ files_'[k1] = NullFile
                  \/ /\ files_'[k1] = n1
                     /\ Mid(Tail(s), pk, s[1].id)
                     /\ Len(content'[n1]) = NextSeq(Tail(s), pk) - 1
        <5>1. FileOK(f, k1, n1, Tail(s), pk, s[1].id)'
          BY <4>1, <4>3, <4>4, FileGoesOn, Zenon
        <5> QED BY <5>1 DEF FileOK, Entry
      <4>6. s[1].id = b.id
        BY <4>2 DEF b
      <4> QED BY <4>2, <4>5, <4>6
    <3> QED BY <1>5, <2>3, <3>1, <3>3
  <2>4. CASE ~(id = b.id /\ u = t)
    <3>1. k # key /\ n \in Names /\ \A h \in Transmitters : n # <<"out", b.id, h, t>>
      BY <2>4, NamesOf
    <3>2. content'[n] = content[n]
      BY <1>12, <3>1
    <3>3. k \in DOMAIN files_' => k \in DOMAIN files_ /\ files_'[k] = files_[k]
      BY <1>11, <3>1
    <3>4. Mid(AudioOut[g][u], packet[g], id) => AudioOut'[g][u] = AudioOut[g][u]
      <4>1. Mid(AudioOut[g][u], packet[g], id) => g # f \/ u # t
        BY <1>6, <2>4 DEF q
      <4> QED BY <1>5, <4>1
    <3> QED BY <2>1, <3>2, <3>3, <3>4 DEF Entry
  <2> QED BY <2>3, <2>4
<1>20. closed' = IF b.marker = "END" THEN closed \cup {<<f, b.id, t>>} ELSE closed
  BY <1>3 DEF log_audio
<1>21. ClosedIsPast'
  <2> SUFFICES ASSUME NEW g \in Transmitters, NEW id \in Ids, NEW u \in Receivers(g),
                      <<g, id, u>> \in closed'
               PROVE  Done(AudioOut'[g][u], packet[g], id)
    BY <1>3 DEF ClosedIsPast
  <2>1. CASE <<g, id, u>> \in closed
    BY <1>5, <2>1 DEF LogInv, ClosedIsPast
  <2>2. CASE <<g, id, u>> \notin closed
    <3>1. g = f /\ id = b.id /\ u = t /\ b.marker = "END"
      BY <1>20, <2>2
    <3> QED BY <1>2, <1>5, <3>1
  <2> QED BY <2>1, <2>2
<1>22. AllClosedAnnounced'
  <2> SUFFICES ASSUME NEW g \in Transmitters, NEW id \in Ids, Alone(g, id), Receivers(g) # {},
                      \A u \in Receivers(g) : <<g, id, u>> \in closed'
               PROVE  \/ announced'[<<g, id>>] > 0
                      \/ /\ cfg_continuous
                         /\ \E u \in Receivers(g) : <<"out", id, u>> \in DOMAIN files_'
    BY <1>3, <1>13 DEF AllClosedAnnounced
  <2>1. announced \in [Transmitters \X Ids -> Nat]
    BY DEF LogInv, LogTypes
  <2>2. announced' = announced \/ announced' = [announced EXCEPT ![<<f, b.id>>] = @ + 1]
    BY <1>3 DEF log_audio
  <2>3. CASE g = f /\ id = b.id /\ b.marker = "END"
    <3>1. announced' = IF LastOne(files_', b) THEN [announced EXCEPT ![<<f, b.id>>] = @ + 1]
                       ELSE announced
      BY <1>3, <2>3 DEF log_audio
    <3>2. CASE LastOne(files_', b)
      BY <1>2, <2>1, <2>3, <3>1, <3>2
    <3>3. CASE ~LastOne(files_', b)
      <4>1. PICK u \in Modems : <<"out", id, u>> \in DOMAIN files_'
        BY <2>3, <3>3 DEF LastOne
      <4>2. u # t
        BY <1>11, <2>3, <4>1
      <4>3. <<"out", id, u>> \in DOMAIN files_
        BY <1>11, <4>1, <4>2
      <4>4. u \in Receivers(f) /\ Uses(f, u, id)
        BY <2>3, <4>3, OnlyHe DEF LogInv
      <4>5. CASE cfg_continuous
        BY <2>3, <4>1, <4>4, <4>5
      <4>6. CASE ~cfg_continuous
        <5>1. Mid(AudioOut[f][u], packet[f], id)
          BY <4>4, <4>6 DEF Uses
        <5>2. <<f, id, u>> \in closed
          BY <1>20, <2>3, <4>2, <4>4
        <5>3. Done(AudioOut[f][u], packet[f], id)
          BY <4>4, <5>2 DEF LogInv, ClosedIsPast
        <5>4. PacketOK(packet[f]) /\ Stream(cfg_continuous, AudioOut[f][u], packet[f])
          BY <4>4 DEF LogInv, LogTypes, Streams
        <5> QED BY <5>1, <5>3, <5>4, MidNotDone
      <4> QED BY <4>5, <4>6
    <3> QED BY <3>2, <3>3
  <2>4. CASE ~(g = f /\ id = b.id /\ b.marker = "END")
    <3>1. \A u \in Receivers(g) : <<g, id, u>> \in closed
      BY <1>20, <2>4
    <3>2. CASE announced[<<g, id>>] > 0
      BY <1>2, <2>1, <2>2, <3>2
    <3>3. CASE cfg_continuous /\ \E u \in Receivers(g) : <<"out", id, u>> \in DOMAIN files_
      <4>1. PICK u \in Receivers(g) : <<"out", id, u>> \in DOMAIN files_
        BY <3>3
      <4>2. <<"out", id, u>> \in DOMAIN files_'
        <5>1. CASE <<"out", id, u>> # key
          BY <1>11, <4>1, <5>1
        <5>2. CASE <<"out", id, u>> = key
          <6>1. id = b.id /\ u = t
            BY <5>2
          <6>2. g = f
            <7>1. id \in Int /\ (g # f => packet[f].id < id)
              BY <1>2, <6>1 DEF Alone
            <7> QED BY <1>2, <6>1, <7>1
          <6>3. b.marker # "END"
            BY <2>4, <6>1, <6>2
          <6> QED BY <1>11, <5>2, <6>3
        <5> QED BY <5>1, <5>2
      <4> QED BY <3>3, <4>2
    <3>4. announced[<<g, id>>] > 0 \/ (cfg_continuous /\ \E u \in Receivers(g) : <<"out", id, u>> \in DOMAIN files_)
      BY <3>1 DEF LogInv, AllClosedAnnounced
    <3> QED BY <3>2, <3>3, <3>4
  <2> QED BY <2>3, <2>4
<1> QED BY <1>14, <1>15, <1>16, <1>17, <1>18, <1>19, <1>21, <1>22 DEF LogInv

-----------------------------------------------------------------------------
(* Theorems *)

LEMMA LogInvariant == LoggerSpec => []LogInv
<1>1. LogInv /\ [LoggerNext]_logger_vars => LogInv'
  <2> SUFFICES ASSUME LogInv, [LoggerNext]_logger_vars PROVE LogInv'
    OBVIOUS
  <2>1. CASE Launch
    BY <2>1, LaunchKeeps
  <2>2. ASSUME NEW f \in Transmitters, BeginPacket(f) \/ GoOn(f) \/ BetweenPackets(f)
        PROVE  LogInv'
    BY <2>2, DetectorKeeps
  <2>3. ASSUME NEW f \in Transmitters, LogIn(f) PROVE LogInv'
    BY <2>3, LogInKeeps
  <2>4. ASSUME NEW f \in Transmitters, NEW t \in Receivers(f), Missed(f, t) PROVE LogInv'
    BY <2>4, MissedKeeps
  <2>5. ASSUME NEW f \in Transmitters, NEW t \in Receivers(f), LogOut(f, t) PROVE LogInv'
    BY <2>5, LogOutKeeps
  <2>6. CASE UNCHANGED logger_vars
    <3>1. /\ running' = running /\ packet' = packet /\ DetectorAudio' = DetectorAudio
          /\ AudioOut' = AudioOut /\ files_' = files_ /\ content' = content
          /\ announced' = announced /\ closed' = closed /\ cfg_continuous' = cfg_continuous
      BY <2>6 DEF logger_vars, detectors, log
    <3>2. LogTypes' /\ Streams' /\ NotYet'
      BY <3>1 DEF LogInv, LogTypes, Streams, NotYet
    <3>3. InFiles' /\ OutFiles' /\ OutAlone'
      BY <3>1 DEF LogInv, InFiles, OutFiles, OutAlone, Entry, Alone, Uses
    <3>4. ClosedIsPast' /\ AllClosedAnnounced'
      BY <3>1 DEF LogInv, ClosedIsPast, AllClosedAnnounced, Alone
    <3> QED BY <3>2, <3>3, <3>4 DEF LogInv
  <2> QED BY <2>1, <2>2, <2>3, <2>4, <2>5, <2>6 DEF LoggerNext
<1> QED BY <1>1, LogInitially, PTL DEF LoggerSpec

(* FilesFaithful, for every number of modems, packets and buffers: the     *)
(* file of a transmission always holds what was sent, in order and without *)
(* a gap (log_audio), and so does that of a reception until another modem  *)
(* comes to the same packet id.                                            *)
THEOREM FilesHoldWhatWasSent == LoggerSpec => []FilesFaithful
<1>1. LogInv => FilesFaithful
  BY DEF LogInv, InFiles, OutAlone, FilesFaithful
<1> QED BY <1>1, LogInvariant, PTL

(* NothingLeftOpen, for every number of modems, packets and buffers: an    *)
(* open file of files_ belongs to a packet that the logger is in the       *)
(* middle of, so none is left open when all that was sent has been         *)
(* handled; in packet mode that goes for every entry of files_.            *)
THEOREM NoEntryLeft == LoggerSpec => []NothingLeftOpen
<1>1. LogInv => NothingLeftOpen
  <2> SUFFICES ASSUME LogInv, AtRest, NEW k \in DOMAIN files_
               PROVE  files_[k] = NullFile /\ cfg_continuous
    BY DEF NothingLeftOpen
  <2>1. CASE k \in {"in"} \X Ids \X Transmitters
    <3>1. PICK id \in Ids, f \in Transmitters : k = <<"in", id, f>>
      BY <2>1
    <3>2. ~Mid(DetectorAudio[f], packet[f], id)
      BY DEF Mid, AtRest
    <3> QED BY <3>1, <3>2 DEF LogInv, InFiles, Entry
  <2>2. CASE k \in {"out"} \X Ids \X Modems
    <3>1. PICK id \in Ids, t \in Modems : k = <<"out", id, t>>
      BY <2>2
    <3>2. \A g \in Transmitters \ {t} : ~Mid(AudioOut[g][t], packet[g], id)
      BY DEF Mid, AtRest, Receivers
    <3> QED BY <3>1, <3>2 DEF LogInv, OutFiles, Uses
  <2> QED BY <2>1, <2>2 DEF LogInv, LogTypes
<1> QED BY <1>1, LogInvariant, PTL

(* AllClosedAnnounced, for every number of modems, packets and buffers:    *)
(* the END that closes the last of a packet's output files sends           *)
(* ALL_LOGS_CLOSED_FOR_PACKET, in whatever order the receivers' queues     *)
(* were handled, unless in continuous mode an unmarked buffer has put back *)
(* the entry of another receiver before (log_audio).                       *)
THEOREM LastCloseAnnounced == LoggerSpec => []AllClosedAnnounced
<1>1. LogInv => AllClosedAnnounced
  BY DEF LogInv
<1> QED BY <1>1, LogInvariant, PTL
=============================================================================
