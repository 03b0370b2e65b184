-------------------------- MODULE NetSimCore_proof --------------------------
(***************************************************************************)
(* The waits of NetSimCore's constructor and the audio between threads:    *)
(* whatever the number of hosts and modems, no thread misses a buffer size *)
(* and no processor misses anything a detector of its host sends.          *)
(***************************************************************************)
EXTENDS NetSimCore, FiniteSetTheorems, SequenceTheorems, TLAPS

\* What the main thread of a host has waited for when it goes on.
Waited ==
    \A h \in Hosts : \A i \in LocalModems(h) :
        /\ pc[h] \in {"detectors", "running"} => processor[i] = "ready"
        /\ pc[h] = "running" => detector[i] = "ready"
        /\ detector[i] # "off" => pc[h] \in {"detectors", "running"}

JackLast == \A h \in Hosts : jack[h] # "off" => pc[h] = "running"

\* A host neither subscribes to its own modems nor is sent their audio.
NoLoop ==
    \A h \in Hosts : \A n \in LocalModems(h) :
        n \notin joined[h] /\ to_host[n][h] = <<>>

IndInv ==
    /\ TypeOK
    /\ Waited
    /\ JackLast
    /\ EverySizeSeen
    /\ NoLoop
    /\ LocalStreamsWhole

-----------------------------------------------------------------------------
(* The modems of a host are modems, as many as Local says, and nobody      *)
(* else's.                                                                 *)
LEMMA LocalProps ==
    ASSUME NEW h \in Hosts
    PROVE  /\ First[h] \in Nat /\ Local[h] \in Nat
           /\ LocalModems(h) \subseteq Modems
           /\ IsFiniteSet(LocalModems(h))
           /\ Cardinality(LocalModems(h)) = Local[h]
           /\ \A g \in Hosts \ {h} : LocalModems(g) \cap LocalModems(h) = {}
<1>1. First[h] \in Nat /\ Local[h] \in Nat
  BY CoreAssumption
<1>2. First[h] \in Int /\ First[h] + Local[h] - 1 \in Int
  BY <1>1
<1>3. /\ IsFiniteSet(First[h]..(First[h] + Local[h] - 1))
      /\ Cardinality(First[h]..(First[h] + Local[h] - 1))
            = IF First[h] > First[h] + Local[h] - 1 THEN 0
              ELSE (First[h] + Local[h] - 1) - First[h] + 1
  BY <1>2, FS_Interval
<1>4. Cardinality(First[h]..(First[h] + Local[h] - 1)) = Local[h]
  BY <1>1, <1>3
<1> QED
  BY <1>1, <1>3, <1>4, CoreAssumption DEF LocalModems

(* A counter that has reached the local number of modems has counted every *)
(* one of them.                                                            *)
LEMMA AllReady ==
    ASSUME NEW h \in Hosts, NEW thread, Ready(thread, h) >= Local[h],
           NEW i \in LocalModems(h)
    PROVE  thread[i] = "ready"
<1> DEFINE R == {j \in LocalModems(h) : thread[j] = "ready"}
<1>1. /\ R \subseteq LocalModems(h) /\ IsFiniteSet(LocalModems(h))
      /\ Cardinality(LocalModems(h)) = Local[h] /\ Local[h] \in Nat
  BY LocalProps
<1>2. /\ IsFiniteSet(R) /\ Cardinality(R) <= Cardinality(LocalModems(h))
      /\ Cardinality(R) = Cardinality(LocalModems(h)) => R = LocalModems(h)
  BY <1>1, FS_Subset
<1>3. Cardinality(R) \in Nat
  BY <1>2, FS_CardinalityType
<1>4. Cardinality(R) >= Local[h]
  BY DEF Ready
<1>5. R = LocalModems(h)
  BY <1>1, <1>2, <1>3, <1>4
<1> QED
  BY <1>5

-----------------------------------------------------------------------------
(* Before anything has started the invariant holds.                        *)
LEMMA InitIndInv == Init => IndInv
<1> SUFFICES ASSUME Init PROVE IndInv
  OBVIOUS
<1>1. TypeOK
  BY CoreAssumption DEF Init, TypeOK, States
<1>2. Waited /\ JackLast
  <2>1. \A h \in Hosts : LocalModems(h) \subseteq Modems
    BY LocalProps
  <2> QED BY <2>1 DEF Init, Waited, JackLast
<1>3. EverySizeSeen /\ NoLoop
  BY LocalProps DEF Init, EverySizeSeen, NoLoop
<1>4. LocalStreamsWhole
  <2> SUFFICES ASSUME NEW h \in Hosts, NEW n \in LocalModems(h), NEW p \in LocalModems(h)
               PROVE  Stream(n, p) = [i \in 1..sent[n] |-> i]
    BY DEF LocalStreamsWhole
  <2>1. n \in Modems /\ p \in Modems
    BY LocalProps
  <2>2. sent[n] = 0 /\ heard[n][p] = <<>> /\ to_proc[n][p] = <<>>
    BY <2>1 DEF Init
  <2>3. <<>> \o <<>> = <<>> /\ [i \in 1..0 |-> i] = <<>>
    OBVIOUS
  <2> QED BY <2>2, <2>3 DEF Stream
<1> QED
  BY <1>1, <1>2, <1>3, <1>4 DEF IndInv

(* A step that leaves the streams alone keeps what is said of them.        *)
LEMMA StreamsUntouched ==
    ASSUME IndInv, UNCHANGED streams
    PROVE  NoLoop' /\ LocalStreamsWhole'
BY DEF IndInv, NoLoop, LocalStreamsWhole, Stream, streams

(* The main thread of a host launches the next kind of thread.             *)
LEMMA MainKeeps ==
    ASSUME IndInv, NEW h \in Hosts,
           LaunchBridge(h) \/ LaunchProcessors(h) \/ LaunchDetectors(h) \/ LaunchJack(h)
    PROVE  IndInv'
<1>0. TypeOK /\ Waited /\ JackLast /\ EverySizeSeen
  BY DEF IndInv
<1>1. UNCHANGED <<size_vars, streams>>
  BY DEF LaunchBridge, LaunchProcessors, LaunchDetectors, LaunchJack
<1>2. NoLoop' /\ LocalStreamsWhole'
  BY <1>1, StreamsUntouched
<1>3. EverySizeSeen'
  BY <1>0, <1>1 DEF EverySizeSeen, size_vars
<1>L. /\ \A g \in Hosts : LocalModems(g) \subseteq Modems
      /\ \A g \in Hosts \ {h} : LocalModems(g) \cap LocalModems(h) = {}
  BY LocalProps
<1>4. CASE LaunchBridge(h)
  <2>1. TypeOK'
    BY <1>0, <1>1, <1>4 DEF TypeOK, LaunchBridge, size_vars, streams, States
  <2>2. Waited' /\ JackLast'
    BY <1>0, <1>4, <1>L DEF TypeOK, LaunchBridge, Waited, JackLast
  <2> QED BY <1>2, <1>3, <2>1, <2>2 DEF IndInv
<1>5. CASE LaunchProcessors(h)
  <2>1. pc[h] \in {"begin", "bridge"} /\ pc' = [pc EXCEPT ![h] = "processors"]
    BY <1>5 DEF LaunchProcessors
  <2>2. \A i \in LocalModems(h) : detector[i] = "off"
    BY <1>0, <2>1 DEF Waited
  <2>3. /\ processor' = [i \in Modems |-> IF i \in LocalModems(h) THEN "launched" ELSE processor[i]]
        /\ UNCHANGED <<bridge, detector, jack>>
    BY <1>5 DEF LaunchProcessors, Launch
  <2>4. TypeOK'
    BY <1>0, <1>1, <2>1, <2>2, <2>3 DEF TypeOK, size_vars, streams, States
  <2>5. Waited' /\ JackLast'
    BY <1>0, <1>L, <2>1, <2>2, <2>3 DEF TypeOK, Waited, JackLast
  <2> QED BY <1>2, <1>3, <2>4, <2>5 DEF IndInv
<1>6. CASE LaunchDetectors(h)
  <2>1. /\ pc[h] = "processors" /\ pc' = [pc EXCEPT ![h] = "detectors"]
        /\ \A i \in LocalModems(h) : processor[i] = "ready"
    BY <1>6, AllReady DEF LaunchDetectors
  <2>2. \A i \in LocalModems(h) : detector[i] = "off"
    BY <1>0, <2>1 DEF Waited
  <2>3. /\ detector' = [i \in Modems |-> IF i \in DetectorCases(h) THEN "launched" ELSE detector[i]]
        /\ UNCHANGED <<bridge, processor, jack>>
        /\ DetectorCases(h) \subseteq LocalModems(h)
    BY <1>6 DEF LaunchDetectors, Launch, DetectorCases
  <2>4. TypeOK'
    BY <1>0, <1>1, <2>1, <2>3 DEF TypeOK, size_vars, streams, States
  <2>5. Waited' /\ JackLast'
    BY <1>0, <1>L, <2>1, <2>2, <2>3 DEF TypeOK, Waited, JackLast
  <2> QED BY <1>2, <1>3, <2>4, <2>5 DEF IndInv
<1>7. CASE LaunchJack(h)
  <2>1. /\ pc[h] = "detectors" /\ pc' = [pc EXCEPT ![h] = "running"]
        /\ \A i \in LocalModems(h) : detector[i] = "ready"
    BY <1>7, AllReady DEF LaunchJack
  <2>2. jack' = [jack EXCEPT ![h] = "launched"] /\ UNCHANGED <<bridge, processor, detector>>
    BY <1>7 DEF LaunchJack
  <2>3. TypeOK'
    BY <1>0, <1>1, <2>1, <2>2 DEF TypeOK, size_vars, streams, States
  <2>4. Waited' /\ JackLast'
    BY <1>0, <1>L, <2>1, <2>2 DEF TypeOK, Waited, JackLast
  <2> QED BY <1>2, <1>3, <2>3, <2>4 DEF IndInv
<1> QED
  BY <1>4, <1>5, <1>6, <1>7

(* A thread that was launched has run its constructor.                     *)
LEMMA StartKeeps ==
    ASSUME IndInv,
           \/ \E h \in Hosts : StartBridge(h) \/ StartJack(h)
           \/ \E i \in Modems : StartProcessor(i) \/ StartDetector(i)
    PROVE  IndInv'
<1>0. TypeOK /\ Waited /\ JackLast /\ EverySizeSeen
  BY DEF IndInv
<1>1. UNCHANGED <<pc, size_vars, streams>>
  BY DEF StartBridge, StartJack, StartProcessor, StartDetector
<1>2. NoLoop' /\ LocalStreamsWhole'
  BY <1>1, StreamsUntouched
<1>3. EverySizeSeen'
  BY <1>0, <1>1 DEF EverySizeSeen, size_vars
<1>4. TypeOK'
  <2>1. ASSUME NEW h \in Hosts, StartBridge(h) PROVE TypeOK'
    BY <1>0, <2>1 DEF TypeOK, StartBridge, size_vars, streams, States
  <2>2. ASSUME NEW h \in Hosts, StartJack(h) PROVE TypeOK'
    BY <1>0, <2>2 DEF TypeOK, StartJack, size_vars, streams, States
  <2>3. ASSUME NEW i \in Modems, StartProcessor(i) PROVE TypeOK'
    BY <1>0, <2>3 DEF TypeOK, StartProcessor, size_vars, streams, States
  <2>4. ASSUME NEW i \in Modems, StartDetector(i) PROVE TypeOK'
    BY <1>0, <2>4 DEF TypeOK, StartDetector, size_vars, streams, States
  <2> QED BY <2>1, <2>2, <2>3, <2>4
<1>5. Waited' /\ JackLast'
  <2>1. /\ \A i \in Modems : processor[i] = "ready" => processor'[i] = "ready"
        /\ \A i \in Modems : detector[i] = "ready" => detector'[i] = "ready"
        /\ \A i \in Modems : detector'[i] # "off" => detector[i] # "off"
        /\ \A h \in Hosts : jack'[h] # "off" => jack[h] # "off"
    BY <1>0 DEF TypeOK, StartBridge, StartJack, StartProcessor, StartDetector
  <2>2. \A h \in Hosts : LocalModems(h) \subseteq Modems
    BY LocalProps
  <2> QED BY <1>0, <1>1, <2>1, <2>2 DEF Waited, JackLast
<1> QED
  BY <1>2, <1>3, <1>4, <1>5 DEF IndInv

(* A buffer size is announced when everybody on the host has subscribed.   *)
LEMMA SizeKeeps ==
    ASSUME IndInv, NEW h \in Hosts, BufferSizeChange(h)
    PROVE  IndInv'
<1>0. TypeOK /\ Waited /\ JackLast /\ EverySizeSeen
  BY DEF IndInv
<1>1. UNCHANGED <<startup, streams>>
  BY DEF BufferSizeChange
<1>2. NoLoop' /\ LocalStreamsWhole'
  BY <1>1, StreamsUntouched
<1>3. Waited' /\ JackLast'
  BY <1>0, <1>1 DEF Waited, JackLast, startup
<1>4. \A i \in LocalModems(h) : processor[i] = "ready" /\ detector[i] = "ready"
  BY <1>0 DEF BufferSizeChange, JackLast, Waited
<1>5. /\ sizes[h] < MaxSizes
      /\ sizes' = [sizes EXCEPT ![h] = @ + 1]
      /\ det_sizes' = [i \in Modems |-> IF i \in LocalModems(h) THEN det_sizes[i] + 1
                                         ELSE det_sizes[i]]
      /\ proc_sizes' = [i \in Modems |-> IF i \in LocalModems(h) THEN proc_sizes[i] + 1
                                          ELSE proc_sizes[i]]
  BY <1>4 DEF BufferSizeChange
<1>6. /\ sizes' \in [Hosts -> 0..MaxSizes]
      /\ det_sizes' \in [Modems -> Nat] /\ proc_sizes' \in [Modems -> Nat]
  <2>1. MaxSizes \in Nat /\ sizes[h] \in 0..MaxSizes
    BY <1>0, CoreAssumption DEF TypeOK
  <2>2. sizes[h] + 1 \in 0..MaxSizes
    BY <1>5, <2>1
  <2>3. sizes' \in [Hosts -> 0..MaxSizes]
    BY <1>0, <1>5, <2>2 DEF TypeOK
  <2>4. det_sizes' \in [Modems -> Nat] /\ proc_sizes' \in [Modems -> Nat]
    BY <1>0, <1>5, SMTT(30) DEF TypeOK
  <2> QED BY <2>3, <2>4
<1>7. TypeOK'
  BY <1>0, <1>1, <1>6 DEF TypeOK, startup, streams
<1>8. EverySizeSeen'
  <2> SUFFICES ASSUME NEW g \in Hosts, NEW i \in LocalModems(g)
               PROVE  det_sizes'[i] = sizes'[g] /\ proc_sizes'[i] = sizes'[g]
    BY DEF EverySizeSeen
  <2>1. i \in Modems
    BY LocalProps
  <2>2. det_sizes[i] = sizes[g] /\ proc_sizes[i] = sizes[g]
    BY <1>0 DEF EverySizeSeen
  <2>3. g # h => i \notin LocalModems(h)
    BY LocalProps
  <2> QED BY <1>0, <1>5, <2>1, <2>2, <2>3 DEF TypeOK
<1> QED
  BY <1>2, <1>3, <1>7, <1>8 DEF IndInv

-----------------------------------------------------------------------------
(* Audio that is handed to the processors of a host: the queues keep their *)
(* type, and only those of other modems on the host grow.                  *)
LEMMA ToProcessorsProps ==
    ASSUME TypeOK, NEW h \in Hosts, NEW n \in Modems, NEW b \in 1..MaxBuffers,
           ToProcessors(h, n, b)
    PROVE  /\ to_proc' \in [Modems -> [Modems -> Seq(1..MaxBuffers)]]
           /\ \A k, p \in Modems :
                 to_proc'[k][p] = IF k = n /\ p \in Subscribers(h, n)
                                  THEN Append(to_proc[k][p], b) ELSE to_proc[k][p]
<1>1. to_proc \in [Modems -> [Modems -> Seq(1..MaxBuffers)]]
  BY DEF TypeOK
<1> DEFINE q == [p \in Modems |-> IF p \in Subscribers(h, n)
                                  THEN Append(to_proc[n][p], b) ELSE to_proc[n][p]]
<1>2. to_proc' = [to_proc EXCEPT ![n] = q]
  BY DEF ToProcessors
<1>3. q \in [Modems -> Seq(1..MaxBuffers)]
  <2>1. \A p \in Modems : to_proc[n][p] \in Seq(1..MaxBuffers)
    BY <1>1
  <2>2. \A p \in Modems : Append(to_proc[n][p], b) \in Seq(1..MaxBuffers)
    BY <2>1, AppendProperties
  <2> QED BY <2>1, <2>2
<1>4. to_proc' \in [Modems -> [Modems -> Seq(1..MaxBuffers)]]
  BY <1>1, <1>2, <1>3
<1>5. \A k \in Modems : to_proc'[k] = IF k = n THEN q ELSE to_proc[k]
  BY <1>1, <1>2
<1> QED
  BY <1>4, <1>5

(* Start-up and sizes do not depend on audio.                              *)
LEMMA StartupUntouched ==
    ASSUME IndInv, UNCHANGED <<startup, size_vars>>
    PROVE  Waited' /\ JackLast' /\ EverySizeSeen'
BY DEF IndInv, Waited, JackLast, EverySizeSeen, startup, size_vars

(* A bridge comes to hear of a modem of another host.                      *)
LEMMA JoinKeeps ==
    ASSUME IndInv, NEW h \in Hosts, NEW n \in Modems, Join(h, n)
    PROVE  IndInv'
<1>0. TypeOK /\ NoLoop /\ LocalStreamsWhole
  BY DEF IndInv
<1>1. /\ UNCHANGED <<startup, size_vars, sent, to_bridge, to_host, to_proc, heard>>
      /\ joined' = [joined EXCEPT ![h] = @ \cup {n}]
      /\ n \notin LocalModems(h)
  BY DEF Join, RemoteModems
<1>2. Waited' /\ JackLast' /\ EverySizeSeen'
  BY <1>1, StartupUntouched
<1>3. TypeOK'
  BY <1>0, <1>1 DEF TypeOK, startup, size_vars
<1>4. NoLoop'
  BY <1>0, <1>1 DEF TypeOK, NoLoop
<1>5. LocalStreamsWhole'
  BY <1>0, <1>1 DEF LocalStreamsWhole, Stream
<1> QED
  BY <1>2, <1>3, <1>4, <1>5 DEF IndInv

(* bridge_out sends to the hosts that have joined, never to its own.       *)
LEMMA BridgeOutKeeps ==
    ASSUME IndInv, NEW h \in Hosts, NEW n \in Modems, BridgeOut(h, n)
    PROVE  IndInv'
<1>0. TypeOK /\ NoLoop /\ LocalStreamsWhole
  BY DEF IndInv
<1> DEFINE b == Head(to_bridge[n])
           q == [g \in Hosts |-> IF n \in joined[g] THEN Append(to_host[n][g], b)
                                 ELSE to_host[n][g]]
<1>1. /\ UNCHANGED <<startup, size_vars, sent, joined, to_proc, heard>>
      /\ to_bridge[n] # <<>>
      /\ to_bridge' = [to_bridge EXCEPT ![n] = Tail(to_bridge[n])]
      /\ to_host' = [to_host EXCEPT ![n] = q]
  BY DEF BridgeOut
<1>2. Waited' /\ JackLast' /\ EverySizeSeen'
  BY <1>1, StartupUntouched
<1>3. /\ to_bridge[n] \in Seq(1..MaxBuffers)
      /\ to_host \in [Modems -> [Hosts -> Seq(1..MaxBuffers)]]
      /\ to_bridge \in [Modems -> Seq(1..MaxBuffers)]
  BY <1>0 DEF TypeOK
<1>4. b \in 1..MaxBuffers /\ Tail(to_bridge[n]) \in Seq(1..MaxBuffers)
  BY <1>1, <1>3, HeadTailProperties
<1>5. q \in [Hosts -> Seq(1..MaxBuffers)]
  <2>1. \A g \in Hosts : to_host[n][g] \in Seq(1..MaxBuffers)
    BY <1>3
  <2>2. \A g \in Hosts : Append(to_host[n][g], b) \in Seq(1..MaxBuffers)
    BY <1>4, <2>1, AppendProperties
  <2> QED BY <2>1, <2>2
<1>6. /\ to_bridge' \in [Modems -> Seq(1..MaxBuffers)]
      /\ to_host' \in [Modems -> [Hosts -> Seq(1..MaxBuffers)]]
  BY <1>1, <1>3, <1>4, <1>5
<1>7. TypeOK'
  BY <1>0, <1>1, <1>6 DEF TypeOK, startup, size_vars
<1>8. NoLoop'
  <2> SUFFICES ASSUME NEW g \in Hosts, NEW k \in LocalModems(g)
               PROVE  k \notin joined'[g] /\ to_host'[k][g] = <<>>
    BY DEF NoLoop
  <2>1. k \in Modems
    BY LocalProps
  <2>2. k \notin joined[g] /\ to_host[k][g] = <<>>
    BY <1>0 DEF NoLoop
  <2>3. to_host'[k] = IF k = n THEN q ELSE to_host[k]
    BY <1>1, <1>3, <2>1
  <2> QED BY <1>1, <2>2, <2>3
<1>9. LocalStreamsWhole'
  BY <1>0, <1>1 DEF LocalStreamsWhole, Stream
<1> QED
  BY <1>2, <1>7, <1>8, <1>9 DEF IndInv

(* What comes over the bridge is about a modem of another host, and is     *)
(* handed to the processors of this one.                                   *)
LEMMA BridgeInKeeps ==
    ASSUME IndInv, NEW h \in Hosts, NEW n \in Modems, BridgeIn(h, n)
    PROVE  IndInv'
<1>0. TypeOK /\ NoLoop /\ LocalStreamsWhole
  BY DEF IndInv
<1> DEFINE b == Head(to_host[n][h])
<1>1. /\ UNCHANGED <<startup, size_vars, sent, to_bridge, joined, heard>>
      /\ to_host[n][h] # <<>>
      /\ to_host' = [to_host EXCEPT ![n][h] = Tail(to_host[n][h])]
      /\ ToProcessors(h, n, b)
  BY DEF BridgeIn
<1>2. Waited' /\ JackLast' /\ EverySizeSeen'
  BY <1>1, StartupUntouched
<1>3. /\ to_host[n][h] \in Seq(1..MaxBuffers)
      /\ to_host \in [Modems -> [Hosts -> Seq(1..MaxBuffers)]]
  BY <1>0 DEF TypeOK
<1>4. b \in 1..MaxBuffers /\ Tail(to_host[n][h]) \in Seq(1..MaxBuffers)
  BY <1>1, <1>3, HeadTailProperties
<1>5. to_host' \in [Modems -> [Hosts -> Seq(1..MaxBuffers)]]
  BY <1>1, <1>3, <1>4
<1>6. /\ to_proc' \in [Modems -> [Modems -> Seq(1..MaxBuffers)]]
      /\ \A k, p \in Modems :
            to_proc'[k][p] = IF k = n /\ p \in Subscribers(h, n)
                             THEN Append(to_proc[k][p], b) ELSE to_proc[k][p]
  BY <1>0, <1>1, <1>4, ToProcessorsProps
<1>7. TypeOK'
  BY <1>0, <1>1, <1>5, <1>6 DEF TypeOK, startup, size_vars
<1>8. n \notin LocalModems(h)
  BY <1>0, <1>1 DEF NoLoop
<1>9. NoLoop'
  <2> SUFFICES ASSUME NEW g \in Hosts, NEW k \in LocalModems(g)
               PROVE  k \notin joined'[g] /\ to_host'[k][g] = <<>>
    BY DEF NoLoop
  <2>1. k \in Modems
    BY LocalProps
  <2>2. k \notin joined[g] /\ to_host[k][g] = <<>>
    BY <1>0 DEF NoLoop
  <2>3. k # n \/ g # h
    BY <1>8
  <2>4. to_host'[k][g] = to_host[k][g]
    BY <1>1, <1>3, <2>1, <2>3
  <2> QED BY <1>1, <2>2, <2>4
<1>10. LocalStreamsWhole'
  <2> SUFFICES ASSUME NEW g \in Hosts, NEW k \in LocalModems(g), NEW p \in LocalModems(g),
                      k # p
               PROVE  Stream(k, p)' = [i \in 1..sent'[k] |-> i]
    BY DEF LocalStreamsWhole
  <2>1. k \in Modems /\ p \in Modems
    BY LocalProps
  <2>2. k = n => p \notin Subscribers(h, n)
    BY <1>8, LocalProps DEF Subscribers
  <2>3. to_proc'[k][p] = to_proc[k][p]
    BY <1>6, <2>1, <2>2
  <2>4. Stream(k, p) = [i \in 1..sent[k] |-> i]
    BY <1>0 DEF LocalStreamsWhole
  <2> QED BY <1>1, <2>3, <2>4 DEF Stream
<1> QED
  BY <1>2, <1>7, <1>9, <1>10 DEF IndInv

-----------------------------------------------------------------------------
(* Appending to the queue is appending to the stream.                      *)
LEMMA AppendBehind ==
    ASSUME NEW S, NEW s \in Seq(S), NEW t \in Seq(S), NEW e \in S
    PROVE  s \o Append(t, e) = Append(s \o t, e)
<1>1. <<e>> \in Seq(S) /\ s \o t \in Seq(S)
  OBVIOUS
<1>2. Append(t, e) = t \o <<e>> /\ Append(s \o t, e) = (s \o t) \o <<e>>
  BY <1>1, AppendIsConcat
<1>3. (s \o t) \o <<e>> = s \o (t \o <<e>>)
  BY <1>1, ConcatAssociative
<1> QED
  BY <1>2, <1>3, Zenon

(* A buffer that joins the queue behind a stream 1, 2, ..., m.             *)
LEMMA StreamGrows ==
    ASSUME NEW m \in Nat, NEW s \in Seq(Nat), NEW t \in Seq(Nat)
    PROVE  s \o t = [i \in 1..m |-> i]
             => s \o Append(t, m + 1) = [i \in 1..(m + 1) |-> i]
<1>1. m + 1 \in Nat
  OBVIOUS
<1>2. s \o Append(t, m + 1) = Append(s \o t, m + 1)
  BY <1>1, AppendBehind
<1>3. Append([i \in 1..m |-> i], m + 1) = [i \in 1..(m + 1) |-> i]
  OBVIOUS
<1> QED
  BY <1>2, <1>3, Zenon

(* A buffer that goes from the queue to those already heard.               *)
LEMMA StreamMoves ==
    ASSUME NEW S, NEW s \in Seq(S), NEW t \in Seq(S), t # <<>>
    PROVE  Append(s, Head(t)) \o Tail(t) = s \o t
<1>1. Head(t) \in S /\ Tail(t) \in Seq(S) /\ <<Head(t)>> \in Seq(S)
  OBVIOUS
<1>2. Append(s, Head(t)) = s \o <<Head(t)>>
  BY <1>1, AppendIsConcat
<1>3. (s \o <<Head(t)>>) \o Tail(t) = s \o (<<Head(t)>> \o Tail(t))
  BY <1>1, ConcatAssociative
<1>4. <<Head(t)>> \o Tail(t) = t
  OBVIOUS
<1> QED
  BY <1>2, <1>3, <1>4, Zenon

(* A detector sends when every processor of its host has subscribed.       *)
LEMMA DetectKeeps ==
    ASSUME IndInv, NEW h \in Hosts, NEW n \in Modems, Detect(h, n)
    PROVE  IndInv'
<1>0. TypeOK /\ Waited /\ NoLoop /\ LocalStreamsWhole
  BY DEF IndInv
<1> DEFINE b == sent[n] + 1
<1>1. /\ UNCHANGED <<startup, size_vars, joined, to_host, heard>>
      /\ pc[h] = "running" /\ n \in LocalModems(h) /\ sent[n] < MaxBuffers
      /\ sent' = [sent EXCEPT ![n] = b]
      /\ ToProcessors(h, n, b)
      /\ to_bridge' \in {to_bridge, [to_bridge EXCEPT ![n] = Append(to_bridge[n], b)]}
  BY DEF Detect
<1>2. Waited' /\ JackLast' /\ EverySizeSeen'
  BY <1>1, StartupUntouched
<1>3. MaxBuffers \in Nat /\ sent[n] \in 0..MaxBuffers
  BY <1>0, CoreAssumption DEF TypeOK
<1>4. b \in 1..MaxBuffers /\ b \in 0..MaxBuffers /\ sent[n] \in Nat
  BY <1>1, <1>3
<1>5. sent' \in [Modems -> 0..MaxBuffers]
  BY <1>0, <1>1, <1>4 DEF TypeOK
<1>6. to_bridge' \in [Modems -> Seq(1..MaxBuffers)]
  <2>1. to_bridge \in [Modems -> Seq(1..MaxBuffers)]
    BY <1>0 DEF TypeOK
  <2>2. Append(to_bridge[n], b) \in Seq(1..MaxBuffers)
    BY <1>4, <2>1, AppendProperties
  <2> QED BY <1>1, <2>1, <2>2
<1>7. /\ to_proc' \in [Modems -> [Modems -> Seq(1..MaxBuffers)]]
      /\ \A k, p \in Modems :
            to_proc'[k][p] = IF k = n /\ p \in Subscribers(h, n)
                             THEN Append(to_proc[k][p], b) ELSE to_proc[k][p]
  BY <1>0, <1>1, <1>4, ToProcessorsProps
<1>8. TypeOK'
  BY <1>0, <1>1, <1>5, <1>6, <1>7 DEF TypeOK, startup, size_vars
<1>9. NoLoop'
  BY <1>0, <1>1 DEF NoLoop
<1>10. LocalStreamsWhole'
  <2> SUFFICES ASSUME NEW g \in Hosts, NEW k \in LocalModems(g), NEW p \in LocalModems(g),
                      k # p
               PROVE  Stream(k, p)' = [i \in 1..sent'[k] |-> i]
    BY DEF LocalStreamsWhole
  <2>1. k \in Modems /\ p \in Modems
    BY LocalProps
  <2>2. Stream(k, p) = [i \in 1..sent[k] |-> i]
    BY <1>0 DEF LocalStreamsWhole
  <2>3. CASE k = n
    <3>1. g = h
      BY <1>1, <2>3, LocalProps
    <3>2. p \in Subscribers(h, n)
      BY <1>0, <1>1, <2>3, <3>1 DEF Waited, Subscribers
    <3>3. to_proc'[k][p] = Append(to_proc[k][p], b) /\ sent'[k] = sent[k] + 1
      BY <1>0, <1>1, <1>7, <2>1, <2>3, <3>2 DEF TypeOK
    <3>4. heard[k][p] \in Seq(1..MaxBuffers) /\ to_proc[k][p] \in Seq(1..MaxBuffers)
      BY <1>0, <2>1 DEF TypeOK
    <3>5. heard[k][p] \in Seq(Nat) /\ to_proc[k][p] \in Seq(Nat) /\ sent[k] \in Nat
      BY <1>3, <1>4, <2>3, <3>4
    <3>6. heard[k][p] \o to_proc[k][p] = [i \in 1..sent[k] |-> i]
      BY <2>2 DEF Stream
    <3>7. heard[k][p] \o Append(to_proc[k][p], sent[k] + 1) = [i \in 1..(sent[k] + 1) |-> i]
      BY <3>5, <3>6, StreamGrows, Zenon
    <3>8. heard'[k][p] = heard[k][p]
      BY <1>1
    <3> QED BY <2>3, <3>3, <3>7, <3>8, Zenon DEF Stream
  <2>4. CASE k # n
    <3>1. to_proc'[k][p] = to_proc[k][p] /\ sent'[k] = sent[k] /\ heard'[k][p] = heard[k][p]
      BY <1>0, <1>1, <1>7, <2>1, <2>4 DEF TypeOK
    <3> QED BY <2>2, <3>1, Zenon DEF Stream
  <2> QED BY <2>3, <2>4
<1> QED
  BY <1>2, <1>8, <1>9, <1>10 DEF IndInv

(* What a processor takes from its queue it has heard: no stream changes.  *)
LEMMA DetectorAudioStreams ==
    ASSUME TypeOK, NEW p \in Modems, NEW n \in Modems, DetectorAudio(p, n)
    PROVE  \A k, q \in Modems : Stream(k, q)' = Stream(k, q)
<1> DEFINE b == Head(to_proc[n][p])
<1>1. /\ to_proc[n][p] # <<>>
      /\ to_proc' = [to_proc EXCEPT ![n][p] = Tail(to_proc[n][p])]
      /\ heard' = [heard EXCEPT ![n][p] = Append(heard[n][p], b)]
  BY DEF DetectorAudio
<1>2. /\ to_proc \in [Modems -> [Modems -> Seq(1..MaxBuffers)]]
      /\ heard \in [Modems -> [Modems -> Seq(1..MaxBuffers)]]
      /\ to_proc[n][p] \in Seq(1..MaxBuffers) /\ heard[n][p] \in Seq(1..MaxBuffers)
  BY DEF TypeOK
<1> SUFFICES ASSUME NEW k \in Modems, NEW q \in Modems
             PROVE  Stream(k, q)' = Stream(k, q)
  OBVIOUS
<1>3. CASE k = n /\ q = p
  <2>1. to_proc'[n][p] = Tail(to_proc[n][p]) /\ heard'[n][p] = Append(heard[n][p], b)
    BY <1>1, <1>2
  <2>2. Append(heard[n][p], b) \o Tail(to_proc[n][p]) = heard[n][p] \o to_proc[n][p]
    BY <1>1, <1>2, StreamMoves
  <2> QED BY <1>3, <2>1, <2>2, Zenon DEF Stream
<1>4. CASE ~(k = n /\ q = p)
  <2>1. to_proc'[k][q] = to_proc[k][q] /\ heard'[k][q] = heard[k][q]
    BY <1>1, <1>2, <1>4
  <2> QED BY <2>1, Zenon DEF Stream
<1> QED BY <1>3, <1>4

(* A processor takes a buffer from its queue: the stream stays the same.   *)
LEMMA DetectorAudioKeeps ==
    ASSUME IndInv, NEW p \in Modems, NEW n \in Modems, DetectorAudio(p, n)
    PROVE  IndInv'
<1>0. TypeOK /\ NoLoop /\ LocalStreamsWhole
  BY DEF IndInv
<1> DEFINE b == Head(to_proc[n][p])
<1>1. /\ UNCHANGED <<startup, size_vars, sent, to_bridge, joined, to_host>>
      /\ to_proc[n][p] # <<>>
      /\ to_proc' = [to_proc EXCEPT ![n][p] = Tail(to_proc[n][p])]
      /\ heard' = [heard EXCEPT ![n][p] = Append(heard[n][p], b)]
  BY DEF DetectorAudio
<1>2. Waited' /\ JackLast' /\ EverySizeSeen'
  BY <1>1, StartupUntouched
<1>3. /\ to_proc \in [Modems -> [Modems -> Seq(1..MaxBuffers)]]
      /\ heard \in [Modems -> [Modems -> Seq(1..MaxBuffers)]]
      /\ to_proc[n][p] \in Seq(1..MaxBuffers) /\ heard[n][p] \in Seq(1..MaxBuffers)
  BY <1>0 DEF TypeOK
<1>4. b \in 1..MaxBuffers /\ Tail(to_proc[n][p]) \in Seq(1..MaxBuffers)
  BY <1>1, <1>3, HeadTailProperties
<1>5. Append(heard[n][p], b) \in Seq(1..MaxBuffers)
  BY <1>3, <1>4, AppendProperties
<1>6. /\ to_proc' \in [Modems -> [Modems -> Seq(1..MaxBuffers)]]
      /\ heard' \in [Modems -> [Modems -> Seq(1..MaxBuffers)]]
  BY <1>1, <1>3, <1>4, <1>5
<1>7. TypeOK'
  BY <1>0, <1>1, <1>6 DEF TypeOK, startup, size_vars
<1>8. NoLoop'
  BY <1>0, <1>1 DEF NoLoop
<1>9. \A k, q \in Modems : Stream(k, q)' = Stream(k, q)
  BY <1>0, DetectorAudioStreams
<1>10. LocalStreamsWhole'
  <2> SUFFICES ASSUME NEW g \in Hosts, NEW k \in LocalModems(g), NEW q \in LocalModems(g),
                      k # q
               PROVE  Stream(k, q)' = [i \in 1..sent'[k] |-> i]
    BY DEF LocalStreamsWhole
  <2>1. k \in Modems /\ q \in Modems
    BY LocalProps
  <2>2. Stream(k, q) = [i \in 1..sent[k] |-> i] /\ sent' = sent
    BY <1>0, <1>1 DEF LocalStreamsWhole
  <2> QED BY <1>9, <2>1, <2>2, Zenon
<1> QED
  BY <1>2, <1>7, <1>8, <1>10 DEF IndInv

-----------------------------------------------------------------------------
(* Every step of every thread of every host keeps the invariant.           *)
LEMMA NextIndInv == IndInv /\ [Next]_vars => IndInv'
<1> SUFFICES ASSUME IndInv, [Next]_vars PROVE IndInv'
  OBVIOUS
<1>1. ASSUME NEW h \in Hosts,
             \/ LaunchBridge(h) \/ LaunchProcessors(h) \/ LaunchDetectors(h) \/ LaunchJack(h)
      PROVE  IndInv'
  BY <1>1, MainKeeps
<1>2. ASSUME \/ \E h \in Hosts : StartBridge(h) \/ StartJack(h)
             \/ \E i \in Modems : StartProcessor(i) \/ StartDetector(i)
      PROVE  IndInv'
  BY <1>2, StartKeeps
<1>3. ASSUME NEW h \in Hosts, BufferSizeChange(h) PROVE IndInv'
  BY <1>3, SizeKeeps
<1>4. ASSUME NEW h \in Hosts, NEW n \in Modems, Join(h, n) PROVE IndInv'
  BY <1>4, JoinKeeps
<1>5. ASSUME NEW h \in Hosts, NEW n \in Modems, Detect(h, n) PROVE IndInv'
  BY <1>5, DetectKeeps
<1>6. ASSUME NEW h \in Hosts, NEW n \in Modems, BridgeOut(h, n) PROVE IndInv'
  BY <1>6, BridgeOutKeeps
<1>7. ASSUME NEW h \in Hosts, NEW n \in Modems, BridgeIn(h, n) PROVE IndInv'
  BY <1>7, BridgeInKeeps
<1>8. ASSUME NEW p \in Modems, NEW n \in Modems, DetectorAudio(p, n) PROVE IndInv'
  BY <1>8, DetectorAudioKeeps
<1>9. ASSUME UNCHANGED vars PROVE IndInv'
  <2>1. UNCHANGED <<startup, size_vars, streams>>
    BY <1>9 DEF vars
  <2>2. NoLoop' /\ LocalStreamsWhole'
    BY <2>1, StreamsUntouched
  <2>3. Waited' /\ JackLast' /\ EverySizeSeen'
    BY <2>1, StartupUntouched
  <2>4. TypeOK'
    BY <2>1 DEF IndInv, TypeOK, startup, size_vars, streams
  <2> QED BY <2>2, <2>3, <2>4 DEF IndInv
<1> QED
  BY <1>1, <1>2, <1>3, <1>4, <1>5, <1>6, <1>7, <1>8, <1>9 DEF Next

(* The invariant holds in every reachable state.                           *)
LEMMA InvariantHolds == Spec => []IndInv
BY InitIndInv, NextIndInv, PTL DEF Spec

(* Type correctness; a modem's detector is never launched before its       *)
(* processor has subscribed.                                               *)
THEOREM TypeCorrect == Spec => []TypeOK
<1>1. IndInv => TypeOK
  BY DEF IndInv
<1> QED BY <1>1, InvariantHolds, PTL

(* No detector and no processor of any host misses a buffer size: the      *)
(* constructor's waits come before the first one can be published.         *)
THEOREM NoSizeMissed == Spec => []EverySizeSeen
<1>1. IndInv => EverySizeSeen
  BY DEF IndInv
<1> QED BY <1>1, InvariantHolds, PTL

(* A processor gets all that the other detectors of its host have ever     *)
(* sent, once and in order, whatever comes over the bridge meanwhile.      *)
THEOREM LocalAudioIsWhole == Spec => []LocalStreamsWhole
<1>1. IndInv => LocalStreamsWhole
  BY DEF IndInv
<1> QED BY <1>1, InvariantHolds, PTL
-----------------------------------------------------------------------------
(* What comes over the bridge *)

\* A stretch of consecutive buffers, the last of them number m.
EndsAt(q, m) == \A i \in 1..Len(q) : q[i] = m - Len(q) + i

\* The last buffer of a modem that bridge_out has passed on, and the last one
\* that bridge_in of a host has.
Passed(n) == sent[n] - Len(to_bridge[n])
Arrived(n, h) == Passed(n) - Len(to_host[n][h])

\* The bridge is ready before anything else of its host is launched.
BridgeFirst ==
    \A h \in Hosts :
        /\ Bridged /\ pc[h] \notin {"begin", "bridge"} => bridge[h] = "ready"
        /\ pc[h] \in {"begin", "bridge"} =>
              \A i \in LocalModems(h) : processor[i] = "off"

Outgoing == Bridged => \A n \in Modems : EndsAt(to_bridge[n], sent[n])

\* On its way to a host that has joined is what its bridge has not passed on yet.
Incoming ==
    \A h \in Hosts : \A n \in Modems \ LocalModems(h) :
        /\ EndsAt(to_host[n][h], Passed(n))
        /\ n \notin joined[h] => to_host[n][h] = <<>>

\* A processor that has subscribed has all that the bridge of its host has passed
\* on since.
Delivered ==
    \A h \in Hosts : \A n \in Modems \ LocalModems(h), p \in LocalModems(h) :
        /\ EndsAt(Stream(n, p), Arrived(n, h))
        /\ n \notin joined[h] \/ processor[p] # "ready" => Stream(n, p) = <<>>

\* Nobody gets his own audio, and nobody anything who is on no host.
Addressed ==
    \A n, p \in Modems :
        Stream(n, p) # <<>> => n # p /\ \E h \in Hosts : p \in LocalModems(h)

RemoteInv ==
    /\ BridgeFirst
    /\ Outgoing
    /\ Incoming
    /\ Delivered
    /\ Addressed

-----------------------------------------------------------------------------
(* Stretches of buffers that grow behind and are taken from the front.     *)
LEMMA StretchGrows ==
    ASSUME NEW S \in SUBSET Int, NEW q \in Seq(S), NEW m \in Int, m + 1 \in S, EndsAt(q, m)
    PROVE  EndsAt(Append(q, m + 1), m + 1)
<1> DEFINE t == Append(q, m + 1)
<1>1. Len(q) \in Nat /\ Len(t) = Len(q) + 1
  OBVIOUS
<1>2. \A i \in 1..Len(q) : t[i] = q[i]
  OBVIOUS
<1>3. t[Len(q) + 1] = m + 1
  OBVIOUS
<1>4. ASSUME NEW i \in 1..Len(t) PROVE t[i] = (m + 1) - Len(t) + i
  <2>1. CASE i = Len(q) + 1
    BY <1>1, <1>3, <2>1
  <2>2. CASE i \in 1..Len(q)
    BY <1>1, <1>2, <2>2 DEF EndsAt
  <2> QED BY <1>1, <1>4, <2>1, <2>2
<1> QED
  BY <1>4 DEF EndsAt

(* Taking the front of a stretch leaves its end where it was.              *)
LEMMA StretchTaken ==
    ASSUME NEW S \in SUBSET Int, NEW q \in Seq(S), NEW m \in Int, q # <<>>, EndsAt(q, m)
    PROVE  /\ EndsAt(Tail(q), m)
           /\ Head(q) = m - Len(q) + 1
           /\ Len(Tail(q)) = Len(q) - 1 /\ Len(q) \in Nat
<1>1. Len(q) \in Nat \ {0} /\ Len(Tail(q)) = Len(q) - 1 /\ Head(q) = q[1]
  OBVIOUS
<1>2. \A i \in 1..Len(Tail(q)) : Tail(q)[i] = q[i + 1]
  OBVIOUS
<1>3. ASSUME NEW i \in 1..Len(Tail(q)) PROVE Tail(q)[i] = m - Len(Tail(q)) + i
  <2>1. i + 1 \in 1..Len(q)
    BY <1>1, <1>3
  <2>2. q[i + 1] = m - Len(q) + (i + 1)
    BY <2>1 DEF EndsAt
  <2> QED BY <1>1, <1>2, <1>3, <2>2
<1>4. q[1] = m - Len(q) + 1
  BY <1>1 DEF EndsAt
<1> QED
  BY <1>1, <1>3, <1>4 DEF EndsAt

(* A stretch has neither a gap nor a repetition.                           *)
LEMMA StretchInOrder ==
    ASSUME NEW S \in SUBSET Int, NEW q \in Seq(S), NEW m \in Int, EndsAt(q, m),
           NEW i \in 1..(Len(q) - 1)
    PROVE  q[i + 1] = q[i] + 1
<1>1. Len(q) \in Nat /\ i \in 1..Len(q) /\ i + 1 \in 1..Len(q)
  OBVIOUS
<1> QED
  BY <1>1 DEF EndsAt

(* An empty queue ends anywhere.                                           *)
LEMMA EmptyStretch == \A m \in Int : EndsAt(<<>>, m)
BY DEF EndsAt

(* What the types say of the streams between two hosts.                    *)
LEMMA StreamTypes ==
    ASSUME TypeOK
    PROVE  /\ \A n, p \in Modems : /\ heard[n][p] \in Seq(1..MaxBuffers)
                                   /\ to_proc[n][p] \in Seq(1..MaxBuffers)
                                   /\ Stream(n, p) \in Seq(1..MaxBuffers)
           /\ \A n \in Modems, h \in Hosts : to_host[n][h] \in Seq(1..MaxBuffers)
           /\ \A n \in Modems : to_bridge[n] \in Seq(1..MaxBuffers) /\ sent[n] \in Int
           /\ \A n \in Modems : Passed(n) \in Int
           /\ \A n \in Modems, h \in Hosts : Arrived(n, h) \in Int
           /\ 1..MaxBuffers \in SUBSET Int
<1>1. MaxBuffers \in Nat
  BY CoreAssumption
<1>2. \A n, p \in Modems : heard[n][p] \in Seq(1..MaxBuffers) /\ to_proc[n][p] \in Seq(1..MaxBuffers)
  BY DEF TypeOK
<1>3. \A n, p \in Modems : Stream(n, p) \in Seq(1..MaxBuffers)
  BY <1>2, ConcatProperties DEF Stream
<1>4. \A n \in Modems, h \in Hosts : to_host[n][h] \in Seq(1..MaxBuffers)
  BY DEF TypeOK
<1>5. \A n \in Modems : to_bridge[n] \in Seq(1..MaxBuffers) /\ sent[n] \in Int
  BY <1>1 DEF TypeOK
<1>6. \A q \in Seq(1..MaxBuffers) : Len(q) \in Int
  OBVIOUS
<1>7. \A n \in Modems : Passed(n) \in Int
  BY <1>5, <1>6 DEF Passed
<1>8. \A n \in Modems, h \in Hosts : Arrived(n, h) \in Int
  BY <1>4, <1>6, <1>7 DEF Arrived
<1> QED
  BY <1>1, <1>2, <1>3, <1>4, <1>5, <1>7, <1>8

-----------------------------------------------------------------------------
(* Nothing has been sent before anything has started.                      *)
LEMMA InitRemote == Init => RemoteInv
<1> SUFFICES ASSUME Init PROVE RemoteInv
  OBVIOUS
<1>1. \A h \in Hosts : LocalModems(h) \subseteq Modems
  BY LocalProps
<1>2. BridgeFirst
  BY <1>1 DEF Init, BridgeFirst
<1>3. <<>> \o <<>> = <<>> /\ Len(<<>>) = 0
  OBVIOUS
<1>4. \A n, p \in Modems : Stream(n, p) = <<>>
  BY <1>3 DEF Init, Stream
<1>5. \A n \in Modems : sent[n] = 0 /\ to_bridge[n] = <<>>
  BY DEF Init
<1>6. \A n \in Modems, h \in Hosts : to_host[n][h] = <<>>
  BY DEF Init
<1>7. \A n \in Modems : Passed(n) = 0
  BY <1>3, <1>5 DEF Passed
<1>8. \A n \in Modems, h \in Hosts : Arrived(n, h) = 0
  BY <1>3, <1>6, <1>7 DEF Arrived
<1>9. EndsAt(<<>>, 0)
  BY EmptyStretch
<1> QED
  BY <1>1, <1>2, <1>4, <1>5, <1>6, <1>7, <1>8, <1>9, Zenon
  DEF RemoteInv, Outgoing, Incoming, Delivered, Addressed

(* The streams do not notice a step that neither touches them nor makes a  *)
(* processor that is ready anything else.                                  *)
LEMMA RemoteUntouched ==
    ASSUME RemoteInv, UNCHANGED streams,
           \A i \in Modems : processor[i] = "ready" => processor'[i] = "ready"
    PROVE  Outgoing' /\ Incoming' /\ Delivered' /\ Addressed'
<1>1. UNCHANGED <<sent, to_bridge, joined, to_host, to_proc, heard>>
  BY DEF streams
<1>2. \A n, p : Stream(n, p)' = Stream(n, p)
  BY <1>1 DEF Stream
<1>3. /\ \A n : Passed(n)' = Passed(n)
      /\ \A n, h : Arrived(n, h)' = Arrived(n, h)
  BY <1>1 DEF Passed, Arrived
<1>4. Outgoing'
  BY <1>1 DEF RemoteInv, Outgoing, EndsAt
<1>5. Incoming'
  BY <1>1, <1>3 DEF RemoteInv, Incoming, EndsAt
<1>6. Delivered'
  <2> SUFFICES ASSUME NEW h \in Hosts, NEW n \in Modems \ LocalModems(h), NEW p \in LocalModems(h)
               PROVE  /\ EndsAt(Stream(n, p), Arrived(n, h))'
                      /\ n \notin joined'[h] \/ processor'[p] # "ready" => Stream(n, p)' = <<>>
    BY DEF Delivered
  <2>1. p \in Modems
    BY LocalProps
  <2>2. /\ EndsAt(Stream(n, p), Arrived(n, h))
        /\ n \notin joined[h] \/ processor[p] # "ready" => Stream(n, p) = <<>>
    BY DEF RemoteInv, Delivered
  <2>3. Stream(n, p)' = Stream(n, p) /\ Arrived(n, h)' = Arrived(n, h)
    BY <1>2, <1>3
  <2>4. EndsAt(Stream(n, p), Arrived(n, h))'
    BY <2>2, <2>3 DEF EndsAt
  <2> QED BY <1>1, <2>1, <2>2, <2>3, <2>4
<1>7. Addressed'
  BY <1>2 DEF RemoteInv, Addressed
<1> QED
  BY <1>4, <1>5, <1>6, <1>7

(* The constructor waits for the bridge first, and no processor that has   *)
(* subscribed is launched again.                                           *)
LEMMA BridgeFirstKeeps ==
    ASSUME TypeOK, BridgeFirst, [Next]_vars
    PROVE  /\ BridgeFirst'
           /\ \A i \in Modems : processor[i] = "ready" => processor'[i] = "ready"
<1> DEFINE Goal == /\ BridgeFirst'
                   /\ \A i \in Modems : processor[i] = "ready" => processor'[i] = "ready"
<1>L. /\ \A h \in Hosts : LocalModems(h) \subseteq Modems
      /\ \A g, h \in Hosts : g # h => LocalModems(g) \cap LocalModems(h) = {}
  BY LocalProps
<1>1. ASSUME NEW h \in Hosts, LaunchBridge(h) PROVE Goal
  BY <1>1, <1>L DEF TypeOK, BridgeFirst, LaunchBridge
<1>2. ASSUME NEW h \in Hosts, LaunchProcessors(h) PROVE Goal
  <2>1. /\ pc[h] \in {"begin", "bridge"} /\ pc' = [pc EXCEPT ![h] = "processors"]
        /\ Bridged => bridge[h] = "ready"
        /\ bridge' = bridge
        /\ processor' = [i \in Modems |-> IF i \in LocalModems(h) THEN "launched" ELSE processor[i]]
    BY <1>2 DEF LaunchProcessors, Launch
  <2>2. \A i \in LocalModems(h) : processor[i] = "off"
    BY <2>1 DEF BridgeFirst
  <2>3. \A i \in Modems : processor[i] = "ready" => processor'[i] = "ready"
    BY <2>1, <2>2
  <2>4. BridgeFirst'
    BY <1>L, <2>1 DEF TypeOK, BridgeFirst
  <2> QED BY <2>3, <2>4
<1>3. ASSUME NEW h \in Hosts, LaunchDetectors(h) \/ LaunchJack(h) PROVE Goal
  <2>1. /\ pc[h] \in {"processors", "detectors"}
        /\ pc' \in {[pc EXCEPT ![h] = "detectors"], [pc EXCEPT ![h] = "running"]}
        /\ UNCHANGED <<bridge, processor>>
    BY <1>3 DEF LaunchDetectors, LaunchJack
  <2> QED BY <2>1 DEF TypeOK, BridgeFirst
<1>4. ASSUME NEW h \in Hosts, StartBridge(h) PROVE Goal
  BY <1>4 DEF TypeOK, BridgeFirst, StartBridge
<1>5. ASSUME NEW i \in Modems, StartProcessor(i) PROVE Goal
  <2>1. /\ processor[i] = "launched" /\ processor' = [processor EXCEPT ![i] = "ready"]
        /\ UNCHANGED <<pc, bridge>>
    BY <1>5 DEF StartProcessor
  <2> QED BY <1>L, <2>1 DEF TypeOK, BridgeFirst
<1>6. ASSUME UNCHANGED <<pc, bridge, processor>> PROVE Goal
  BY <1>6 DEF BridgeFirst
<1>7. ASSUME \/ \E i \in Modems : StartDetector(i)
             \/ \E h \in Hosts : StartJack(h) \/ BufferSizeChange(h)
             \/ \E h \in Hosts, n \in Modems : Join(h, n) \/ Detect(h, n)
             \/ \E h \in Hosts, n \in Modems : BridgeOut(h, n) \/ BridgeIn(h, n)
             \/ \E p, n \in Modems : DetectorAudio(p, n)
             \/ UNCHANGED vars
      PROVE  UNCHANGED <<pc, bridge, processor>>
  BY <1>7 DEF StartDetector, StartJack, BufferSizeChange, Join, Detect, BridgeOut,
              BridgeIn, DetectorAudio, vars, startup
<1> QED
  BY <1>1, <1>2, <1>3, <1>4, <1>5, <1>6, <1>7 DEF Next

(* A host that joins late starts with what is passed on from then on.      *)
LEMMA JoinRemote ==
    ASSUME IndInv, RemoteInv, NEW h \in Hosts, NEW n \in Modems, Join(h, n)
    PROVE  Outgoing' /\ Incoming' /\ Delivered' /\ Addressed'
<1>1. /\ UNCHANGED <<processor, sent, to_bridge, to_host, to_proc, heard>>
      /\ \A g \in Hosts : joined[g] \subseteq joined'[g]
  BY DEF IndInv, TypeOK, Join, startup
<1>2. \A k, p : Stream(k, p)' = Stream(k, p)
  BY <1>1 DEF Stream
<1>3. /\ \A k : Passed(k)' = Passed(k)
      /\ \A k, g : Arrived(k, g)' = Arrived(k, g)
  BY <1>1 DEF Passed, Arrived
<1>4. Outgoing'
  BY <1>1 DEF RemoteInv, Outgoing, EndsAt
<1>5. Incoming'
  BY <1>1, <1>3 DEF RemoteInv, Incoming, EndsAt
<1>6. Delivered'
  <2> SUFFICES ASSUME NEW g \in Hosts, NEW k \in Modems \ LocalModems(g), NEW p \in LocalModems(g)
               PROVE  /\ EndsAt(Stream(k, p), Arrived(k, g))'
                      /\ k \notin joined'[g] \/ processor'[p] # "ready" => Stream(k, p)' = <<>>
    BY DEF Delivered
  <2>1. /\ EndsAt(Stream(k, p), Arrived(k, g))
        /\ k \notin joined[g] \/ processor[p] # "ready" => Stream(k, p) = <<>>
    BY DEF RemoteInv, Delivered
  <2>2. Stream(k, p)' = Stream(k, p) /\ Arrived(k, g)' = Arrived(k, g)
    BY <1>2, <1>3
  <2>3. EndsAt(Stream(k, p), Arrived(k, g))'
    BY <2>1, <2>2 DEF EndsAt
  <2> QED BY <1>1, <2>1, <2>2, <2>3
<1>7. Addressed'
  BY <1>2 DEF RemoteInv, Addressed
<1> QED
  BY <1>4, <1>5, <1>6, <1>7

(* A detector's buffer goes to the bridge of its own host and to no        *)
(* processor of another.                                                   *)
LEMMA DetectRemote ==
    ASSUME IndInv, RemoteInv, NEW h \in Hosts, NEW n \in Modems, Detect(h, n)
    PROVE  Outgoing' /\ Incoming' /\ Delivered' /\ Addressed'
<1> DEFINE b == sent[n] + 1
<1>0. TypeOK /\ BridgeFirst /\ Outgoing /\ Incoming /\ Delivered /\ Addressed
  BY DEF IndInv, RemoteInv
<1>1. /\ UNCHANGED <<processor, joined, to_host, heard>>
      /\ pc[h] = "running" /\ n \in LocalModems(h) /\ sent[n] < MaxBuffers
      /\ sent' = [sent EXCEPT ![n] = b]
      /\ ToProcessors(h, n, b)
      /\ bridge[h] = "ready" => to_bridge' = [to_bridge EXCEPT ![n] = Append(to_bridge[n], b)]
  BY DEF Detect, startup
<1>2. MaxBuffers \in Nat /\ sent[n] \in 0..MaxBuffers
  BY <1>0, CoreAssumption DEF TypeOK
<1>3. b \in 1..MaxBuffers
  BY <1>1, <1>2
<1>4. \A k, p \in Modems :
         to_proc'[k][p] = IF k = n /\ p \in Subscribers(h, n)
                          THEN Append(to_proc[k][p], b) ELSE to_proc[k][p]
  BY <1>0, <1>1, <1>3, ToProcessorsProps
<1>5. Addressed'
  <2> SUFFICES ASSUME NEW k \in Modems, NEW p \in Modems, Stream(k, p)' # <<>>
               PROVE  k # p /\ \E g \in Hosts : p \in LocalModems(g)
    BY DEF Addressed
  <2>1. CASE k = n /\ p \in Subscribers(h, n)
    BY <2>1 DEF Subscribers
  <2>2. CASE ~(k = n /\ p \in Subscribers(h, n))
    <3>1. to_proc'[k][p] = to_proc[k][p] /\ heard'[k][p] = heard[k][p]
      BY <1>1, <1>4, <2>2
    <3>2. Stream(k, p)' = Stream(k, p)
      BY <3>1, Zenon DEF Stream
    <3> QED BY <1>0, <3>2 DEF Addressed
  <2> QED BY <2>1, <2>2
<1>6. CASE ~Bridged
  <2>1. \A g \in Hosts : Modems \ LocalModems(g) = {}
    BY <1>6, CoreAssumption
  <2>2. Outgoing' /\ Incoming' /\ Delivered'
    BY <1>6, <2>1 DEF Outgoing, Incoming, Delivered
  <2> QED BY <1>5, <2>2
<1>7. CASE Bridged
  <2>1. to_bridge' = [to_bridge EXCEPT ![n] = Append(to_bridge[n], b)]
    BY <1>0, <1>1, <1>7 DEF BridgeFirst
  <2>2. \A k \in Modems : /\ sent'[k] = IF k = n THEN b ELSE sent[k]
                          /\ to_bridge'[k] = IF k = n THEN Append(to_bridge[n], b) ELSE to_bridge[k]
    BY <1>0, <1>1, <2>1 DEF TypeOK
  <2>3. to_bridge[n] \in Seq(1..MaxBuffers) /\ sent[n] \in Int /\ 1..MaxBuffers \in SUBSET Int
    BY <1>0, StreamTypes
  <2>4. Len(Append(to_bridge[n], b)) = Len(to_bridge[n]) + 1 /\ Len(to_bridge[n]) \in Int
    BY <1>3, <2>3
  <2>5. \A k \in Modems : Passed(k)' = Passed(k)
    <3>1. ASSUME NEW k \in Modems, k = n PROVE Passed(k)' = Passed(k)
      <4>1. sent'[k] = sent[n] + 1 /\ Len(to_bridge'[k]) = Len(to_bridge[n]) + 1
        BY <2>2, <2>4, <3>1
      <4> QED BY <2>3, <2>4, <3>1, <4>1 DEF Passed
    <3>2. ASSUME NEW k \in Modems, k # n PROVE Passed(k)' = Passed(k)
      BY <2>2, <3>2 DEF Passed
    <3> QED BY <3>1, <3>2
  <2>6. \A k \in Modems, g \in Hosts : Arrived(k, g)' = Arrived(k, g)
    BY <1>1, <2>5 DEF Arrived
  <2>7. Outgoing'
    <3> SUFFICES ASSUME NEW k \in Modems PROVE EndsAt(to_bridge'[k], sent'[k])
      BY DEF Outgoing, EndsAt
    <3>1. EndsAt(to_bridge[k], sent[k])
      BY <1>0, <1>7 DEF Outgoing
    <3>2. CASE k = n
      <4>1. EndsAt(Append(to_bridge[n], b), b)
        BY <1>3, <2>3, <3>1, <3>2, StretchGrows
      <4> QED BY <2>2, <3>2, <4>1
    <3> QED BY <2>2, <3>1, <3>2
  <2>8. Incoming'
    BY <1>0, <1>1, <2>5 DEF Incoming, EndsAt
  <2>9. Delivered'
    <3> SUFFICES ASSUME NEW g \in Hosts, NEW k \in Modems \ LocalModems(g), NEW p \in LocalModems(g)
                 PROVE  /\ EndsAt(Stream(k, p), Arrived(k, g))'
                        /\ k \notin joined'[g] \/ processor'[p] # "ready" => Stream(k, p)' = <<>>
      BY DEF Delivered
    <3>1. p \in Modems /\ k \in Modems
      BY LocalProps
    <3>2. k = n => p \notin Subscribers(h, n)
      BY <1>1, LocalProps DEF Subscribers
    <3>3. to_proc'[k][p] = to_proc[k][p] /\ heard'[k][p] = heard[k][p]
      BY <1>1, <1>4, <3>1, <3>2
    <3>4. Stream(k, p)' = Stream(k, p)
      BY <3>3, Zenon DEF Stream
    <3>5. /\ EndsAt(Stream(k, p), Arrived(k, g))
          /\ k \notin joined[g] \/ processor[p] # "ready" => Stream(k, p) = <<>>
      BY <1>0 DEF Delivered
    <3>6. EndsAt(Stream(k, p), Arrived(k, g))'
      BY <2>6, <3>1, <3>4, <3>5 DEF EndsAt
    <3> QED BY <1>1, <3>4, <3>5, <3>6
  <2> QED BY <1>5, <2>7, <2>8, <2>9
<1> QED
  BY <1>6, <1>7

(* bridge_out passes the oldest buffer on to every host that has joined.   *)
LEMMA BridgeOutRemote ==
    ASSUME IndInv, RemoteInv, NEW h \in Hosts, NEW n \in Modems, BridgeOut(h, n)
    PROVE  Outgoing' /\ Incoming' /\ Delivered' /\ Addressed'
<1> DEFINE b == Head(to_bridge[n])
           q == [g \in Hosts |-> IF n \in joined[g] THEN Append(to_host[n][g], b)
                                 ELSE to_host[n][g]]
<1>0. TypeOK /\ Outgoing /\ Incoming /\ Delivered /\ Addressed
  BY DEF IndInv, RemoteInv
<1>1. /\ UNCHANGED <<processor, sent, joined, to_proc, heard>>
      /\ n \in LocalModems(h) /\ to_bridge[n] # <<>>
      /\ to_bridge' = [to_bridge EXCEPT ![n] = Tail(to_bridge[n])]
      /\ to_host' = [to_host EXCEPT ![n] = q]
  BY DEF BridgeOut, startup
<1>2. \A k, p : Stream(k, p)' = Stream(k, p)
  BY <1>1 DEF Stream
<1>3. Addressed'
  BY <1>0, <1>2 DEF Addressed
<1>4. CASE ~Bridged
  <2>1. \A g \in Hosts : Modems \ LocalModems(g) = {}
    BY <1>4, CoreAssumption
  <2>2. Outgoing' /\ Incoming' /\ Delivered'
    BY <1>4, <2>1 DEF Outgoing, Incoming, Delivered
  <2> QED BY <1>3, <2>2
<1>5. CASE Bridged
  <2>1. /\ to_bridge[n] \in Seq(1..MaxBuffers) /\ sent[n] \in Int /\ 1..MaxBuffers \in SUBSET Int
        /\ \A g \in Hosts : to_host[n][g] \in Seq(1..MaxBuffers)
        /\ Passed(n) \in Int
    BY <1>0, StreamTypes
  <2>2. EndsAt(to_bridge[n], sent[n])
    BY <1>0, <1>5 DEF Outgoing
  <2>3. /\ EndsAt(Tail(to_bridge[n]), sent[n])
        /\ b = sent[n] - Len(to_bridge[n]) + 1
        /\ Len(Tail(to_bridge[n])) = Len(to_bridge[n]) - 1 /\ Len(to_bridge[n]) \in Nat
    BY <1>1, <2>1, <2>2, StretchTaken
  <2>4. b \in 1..MaxBuffers
    BY <1>1, <2>1, HeadTailProperties
  <2>5. \A k \in Modems : /\ to_bridge'[k] = IF k = n THEN Tail(to_bridge[n]) ELSE to_bridge[k]
                          /\ to_host'[k] = IF k = n THEN q ELSE to_host[k]
    BY <1>0, <1>1 DEF TypeOK
  <2>6. b = Passed(n) + 1 /\ Passed(n)' = Passed(n) + 1
    <3>1. to_bridge'[n] = Tail(to_bridge[n])
      BY <2>5
    <3>2. Len(to_bridge'[n]) = Len(to_bridge[n]) - 1 /\ sent'[n] = sent[n]
      BY <1>1, <2>3, <3>1
    <3>3. /\ Passed(n)' = sent[n] - (Len(to_bridge[n]) - 1)
          /\ Passed(n) = sent[n] - Len(to_bridge[n])
      BY <3>2 DEF Passed
    <3> QED BY <2>1, <2>3, <3>3
  <2>7. \A k \in Modems \ {n} : Passed(k)' = Passed(k)
    BY <1>1, <2>5 DEF Passed
  <2>8. \A k \in Modems \ {n}, g \in Hosts : Arrived(k, g)' = Arrived(k, g)
    BY <2>5, <2>7 DEF Arrived
  <2>9. \A g \in Hosts : n \in joined[g] => Arrived(n, g)' = Arrived(n, g)
    <3> SUFFICES ASSUME NEW g \in Hosts, n \in joined[g] PROVE Arrived(n, g)' = Arrived(n, g)
      OBVIOUS
    <3>1. to_host'[n][g] = Append(to_host[n][g], b)
      BY <2>5
    <3>2. Len(to_host'[n][g]) = Len(to_host[n][g]) + 1 /\ Len(to_host[n][g]) \in Int
      BY <2>1, <2>4, <3>1
    <3> QED BY <2>1, <2>6, <3>2, SMTT(30) DEF Arrived
  <2>10. Outgoing'
    <3> SUFFICES ASSUME NEW k \in Modems PROVE EndsAt(to_bridge'[k], sent'[k])
      BY DEF Outgoing, EndsAt
    <3>1. EndsAt(to_bridge[k], sent[k])
      BY <1>0, <1>5 DEF Outgoing
    <3> QED BY <1>1, <2>3, <2>5, <3>1
  <2>11. Incoming'
    <3> SUFFICES ASSUME NEW g \in Hosts, NEW k \in Modems \ LocalModems(g)
                 PROVE  /\ EndsAt(to_host'[k][g], Passed(k)')
                        /\ k \notin joined'[g] => to_host'[k][g] = <<>>
      BY DEF Incoming, EndsAt
    <3>1. EndsAt(to_host[k][g], Passed(k)) /\ (k \notin joined[g] => to_host[k][g] = <<>>)
      BY <1>0 DEF Incoming
    <3>2. CASE k # n
      BY <1>1, <2>5, <2>7, <3>1, <3>2
    <3>3. CASE k = n /\ n \in joined[g]
      <4>1. to_host'[k][g] = Append(to_host[n][g], Passed(n) + 1)
        BY <2>5, <2>6, <3>3
      <4>2. EndsAt(Append(to_host[n][g], Passed(n) + 1), Passed(n) + 1)
        BY <2>1, <2>4, <2>6, <3>1, <3>3, StretchGrows
      <4> QED BY <1>1, <2>6, <3>3, <4>1, <4>2
    <3>4. CASE k = n /\ n \notin joined[g]
      <4>1. to_host'[k][g] = <<>>
        BY <2>5, <3>1, <3>4
      <4>2. EndsAt(<<>>, Passed(n) + 1)
        BY <2>1, EmptyStretch
      <4> QED BY <2>6, <3>4, <4>1, <4>2
    <3> QED BY <3>2, <3>3, <3>4
  <2>12. Delivered'
    <3> SUFFICES ASSUME NEW g \in Hosts, NEW k \in Modems \ LocalModems(g), NEW p \in LocalModems(g)
                 PROVE  /\ EndsAt(Stream(k, p)', Arrived(k, g)')
                        /\ k \notin joined'[g] \/ processor'[p] # "ready" => Stream(k, p)' = <<>>
      BY DEF Delivered, EndsAt
    <3>1. /\ EndsAt(Stream(k, p), Arrived(k, g))
          /\ k \notin joined[g] \/ processor[p] # "ready" => Stream(k, p) = <<>>
      BY <1>0 DEF Delivered
    <3>2. Stream(k, p)' = Stream(k, p)
      BY <1>2
    <3>3. CASE k # n \/ n \in joined[g]
      <4>1. Arrived(k, g)' = Arrived(k, g)
        BY <2>8, <2>9, <3>3
      <4> QED BY <1>1, <3>1, <3>2, <4>1
    <3>4. CASE k = n /\ n \notin joined[g]
      <4>1. Stream(k, p)' = <<>>
        BY <3>1, <3>2, <3>4
      <4>2. to_host'[k][g] = to_host[k][g]
        BY <2>5, <3>4
      <4>3. Len(to_host[k][g]) \in Int
        BY <2>1, <3>4
      <4>4. Arrived(k, g)' \in Int
        BY <2>1, <2>6, <3>4, <4>2, <4>3 DEF Arrived
      <4> QED BY <4>1, <4>4, EmptyStretch
    <3> QED BY <3>3, <3>4
  <2> QED BY <1>3, <2>10, <2>11, <2>12
<1> QED
  BY <1>4, <1>5

(* bridge_in hands the oldest buffer to every processor that has           *)
(* subscribed; the others have had nothing yet.                            *)
LEMMA BridgeInRemote ==
    ASSUME IndInv, RemoteInv, NEW h \in Hosts, NEW n \in Modems, BridgeIn(h, n)
    PROVE  Outgoing' /\ Incoming' /\ Delivered' /\ Addressed'
<1> DEFINE b == Head(to_host[n][h])
<1>0. TypeOK /\ NoLoop /\ Outgoing /\ Incoming /\ Delivered /\ Addressed
  BY DEF IndInv, RemoteInv
<1>1. /\ UNCHANGED <<processor, sent, to_bridge, joined, heard>>
      /\ to_host[n][h] # <<>>
      /\ to_host' = [to_host EXCEPT ![n][h] = Tail(to_host[n][h])]
      /\ ToProcessors(h, n, b)
  BY DEF BridgeIn, startup
<1>2. n \notin LocalModems(h)
  BY <1>0, <1>1 DEF NoLoop
<1>3. /\ to_host[n][h] \in Seq(1..MaxBuffers) /\ 1..MaxBuffers \in SUBSET Int
      /\ Passed(n) \in Int /\ Arrived(n, h) \in Int
  BY <1>0, StreamTypes
<1>4. EndsAt(to_host[n][h], Passed(n))
  BY <1>0, <1>2 DEF Incoming
<1>5. /\ EndsAt(Tail(to_host[n][h]), Passed(n))
      /\ b = Passed(n) - Len(to_host[n][h]) + 1
      /\ Len(Tail(to_host[n][h])) = Len(to_host[n][h]) - 1 /\ Len(to_host[n][h]) \in Nat
  BY <1>1, <1>3, <1>4, StretchTaken
<1>6. b \in 1..MaxBuffers
  BY <1>1, <1>3, HeadTailProperties
<1>7. \A k, p \in Modems :
         to_proc'[k][p] = IF k = n /\ p \in Subscribers(h, n)
                          THEN Append(to_proc[k][p], b) ELSE to_proc[k][p]
  BY <1>0, <1>1, <1>6, ToProcessorsProps
<1>8. \A k \in Modems, g \in Hosts :
         to_host'[k][g] = IF k = n /\ g = h THEN Tail(to_host[n][h]) ELSE to_host[k][g]
  BY <1>0, <1>1 DEF TypeOK
<1>9. \A k \in Modems : Passed(k)' = Passed(k)
  BY <1>1 DEF Passed
<1>10. b = Arrived(n, h) + 1 /\ Arrived(n, h)' = Arrived(n, h) + 1
  <2>1. to_host'[n][h] = Tail(to_host[n][h])
    BY <1>8
  <2> QED BY <1>3, <1>5, <1>9, <2>1, SMTT(30) DEF Arrived
<1>11. \A k \in Modems, g \in Hosts : k # n \/ g # h => Arrived(k, g)' = Arrived(k, g)
  BY <1>8, <1>9 DEF Arrived
<1>12. Outgoing'
  BY <1>0, <1>1 DEF Outgoing, EndsAt
<1>13. Incoming'
  <2> SUFFICES ASSUME NEW g \in Hosts, NEW k \in Modems \ LocalModems(g)
               PROVE  /\ EndsAt(to_host'[k][g], Passed(k)')
                      /\ k \notin joined'[g] => to_host'[k][g] = <<>>
    BY DEF Incoming, EndsAt
  <2>1. EndsAt(to_host[k][g], Passed(k)) /\ (k \notin joined[g] => to_host[k][g] = <<>>)
    BY <1>0 DEF Incoming
  <2>2. CASE k = n /\ g = h
    <3>1. k \in joined'[g]
      BY <1>1, <2>1, <2>2
    <3> QED BY <1>5, <1>8, <1>9, <2>2, <3>1
  <2>3. CASE ~(k = n /\ g = h)
    BY <1>1, <1>8, <1>9, <2>1, <2>3
  <2> QED BY <2>2, <2>3
<1>14. Delivered'
  <2> SUFFICES ASSUME NEW g \in Hosts, NEW k \in Modems \ LocalModems(g), NEW p \in LocalModems(g)
               PROVE  /\ EndsAt(Stream(k, p)', Arrived(k, g)')
                      /\ k \notin joined'[g] \/ processor'[p] # "ready" => Stream(k, p)' = <<>>
    BY DEF Delivered, EndsAt
  <2>1. p \in Modems /\ k \in Modems
    BY LocalProps
  <2>2. /\ EndsAt(Stream(k, p), Arrived(k, g))
        /\ k \notin joined[g] \/ processor[p] # "ready" => Stream(k, p) = <<>>
    BY <1>0 DEF Delivered
  <2>3. CASE k = n /\ g = h /\ processor[p] = "ready"
    <3>1. p \in Subscribers(h, n)
      BY <1>2, <2>3 DEF Subscribers
    <3>2. to_proc'[k][p] = Append(to_proc[k][p], b) /\ heard'[k][p] = heard[k][p]
      BY <1>1, <1>7, <2>1, <2>3, <3>1
    <3>3. /\ heard[k][p] \in Seq(1..MaxBuffers) /\ to_proc[k][p] \in Seq(1..MaxBuffers)
          /\ Stream(k, p) \in Seq(1..MaxBuffers)
      BY <1>0, <2>1, StreamTypes
    <3>4. heard[k][p] \o Append(to_proc[k][p], b) = Append(heard[k][p] \o to_proc[k][p], b)
      <4>1. \A s, t \in Seq(1..MaxBuffers), e \in 1..MaxBuffers :
               s \o Append(t, e) = Append(s \o t, e)
        BY AppendBehind
      <4> QED BY <1>6, <3>3, <4>1, Zenon
    <3>5. Stream(k, p)' = Append(Stream(k, p), b)
      BY <3>2, <3>4, Zenon DEF Stream
    <3>6. EndsAt(Append(Stream(k, p), Arrived(n, h) + 1), Arrived(n, h) + 1)
      BY <1>3, <1>6, <1>10, <2>2, <2>3, <3>3, StretchGrows
    <3>7. EndsAt(Stream(k, p)', Arrived(k, g)')
      BY <1>10, <2>3, <3>5, <3>6
    <3>8. n \in joined[h]
      BY <1>0, <1>1, <1>2 DEF Incoming
    <3> QED BY <1>1, <2>3, <3>7, <3>8
  <2>4. CASE k = n /\ g = h /\ processor[p] # "ready"
    <3>1. p \notin Subscribers(h, n)
      BY <2>4 DEF Subscribers
    <3>2. to_proc'[k][p] = to_proc[k][p] /\ heard'[k][p] = heard[k][p]
      BY <1>1, <1>7, <2>1, <3>1
    <3>3. Stream(k, p)' = Stream(k, p)
      BY <3>2, Zenon DEF Stream
    <3>4. Stream(k, p)' = <<>> /\ Arrived(k, g)' \in Int
      BY <1>3, <1>10, <2>2, <2>4, <3>3
    <3> QED BY <3>4, EmptyStretch
  <2>5. CASE ~(k = n /\ g = h)
    <3>1. k = n => p \notin Subscribers(h, n)
      BY <2>5, LocalProps DEF Subscribers
    <3>2. to_proc'[k][p] = to_proc[k][p] /\ heard'[k][p] = heard[k][p]
      BY <1>1, <1>7, <2>1, <3>1
    <3>3. Stream(k, p)' = Stream(k, p)
      BY <3>2, Zenon DEF Stream
    <3>4. Arrived(k, g)' = Arrived(k, g)
      BY <1>11, <2>1, <2>5
    <3> QED BY <1>1, <2>2, <3>3, <3>4
  <2> QED BY <2>3, <2>4, <2>5
<1>15. Addressed'
  <2> SUFFICES ASSUME NEW k \in Modems, NEW p \in Modems, Stream(k, p)' # <<>>
               PROVE  k # p /\ \E g \in Hosts : p \in LocalModems(g)
    BY DEF Addressed
  <2>1. CASE k = n /\ p \in Subscribers(h, n)
    BY <2>1 DEF Subscribers
  <2>2. CASE ~(k = n /\ p \in Subscribers(h, n))
    <3>1. to_proc'[k][p] = to_proc[k][p] /\ heard'[k][p] = heard[k][p]
      BY <1>1, <1>7, <2>2
    <3>2. Stream(k, p)' = Stream(k, p)
      BY <3>1, Zenon DEF Stream
    <3> QED BY <1>0, <3>2 DEF Addressed
  <2> QED BY <2>1, <2>2
<1> QED
  BY <1>12, <1>13, <1>14, <1>15

(* A processor takes a buffer from its queue: the stream stays the same.   *)
LEMMA DetectorAudioRemote ==
    ASSUME IndInv, RemoteInv, NEW p \in Modems, NEW n \in Modems, DetectorAudio(p, n)
    PROVE  Outgoing' /\ Incoming' /\ Delivered' /\ Addressed'
<1>0. TypeOK /\ Outgoing /\ Incoming /\ Delivered /\ Addressed
  BY DEF IndInv, RemoteInv
<1>1. UNCHANGED <<processor, sent, to_bridge, joined, to_host>>
  BY DEF DetectorAudio, startup
<1>2. \A k, q \in Modems : Stream(k, q)' = Stream(k, q)
  BY <1>0, DetectorAudioStreams
<1>3. /\ \A k : Passed(k)' = Passed(k)
      /\ \A k, g : Arrived(k, g)' = Arrived(k, g)
  BY <1>1 DEF Passed, Arrived
<1>4. Outgoing' /\ Incoming'
  BY <1>0, <1>1, <1>3 DEF Outgoing, Incoming, EndsAt
<1>5. Delivered'
  <2> SUFFICES ASSUME NEW g \in Hosts, NEW k \in Modems \ LocalModems(g), NEW q \in LocalModems(g)
               PROVE  /\ EndsAt(Stream(k, q)', Arrived(k, g)')
                      /\ k \notin joined'[g] \/ processor'[q] # "ready" => Stream(k, q)' = <<>>
    BY DEF Delivered, EndsAt
  <2>1. q \in Modems
    BY LocalProps
  <2>2. Stream(k, q)' = Stream(k, q) /\ Arrived(k, g)' = Arrived(k, g)
    BY <1>2, <1>3, <2>1
  <2> QED BY <1>0, <1>1, <2>2 DEF Delivered
<1>6. Addressed'
  BY <1>0, <1>2 DEF Addressed
<1> QED
  BY <1>4, <1>5, <1>6

-----------------------------------------------------------------------------
(* Every step of every thread of every host keeps what is said of the      *)
(* bridge.                                                                 *)
LEMMA NextRemote == IndInv /\ RemoteInv /\ [Next]_vars => RemoteInv'
<1> SUFFICES ASSUME IndInv, RemoteInv, [Next]_vars PROVE RemoteInv'
  OBVIOUS
<1> DEFINE Goal == Outgoing' /\ Incoming' /\ Delivered' /\ Addressed'
<1>1. BridgeFirst' /\ \A i \in Modems : processor[i] = "ready" => processor'[i] = "ready"
  BY BridgeFirstKeeps DEF IndInv, RemoteInv
<1>2. ASSUME UNCHANGED streams PROVE Goal
  BY <1>1, <1>2, RemoteUntouched
<1>3. ASSUME \/ \E h \in Hosts : LaunchBridge(h) \/ LaunchProcessors(h) \/ LaunchDetectors(h)
             \/ \E h \in Hosts : LaunchJack(h) \/ StartBridge(h) \/ StartJack(h)
             \/ \E i \in Modems : StartProcessor(i) \/ StartDetector(i)
             \/ \E h \in Hosts : BufferSizeChange(h)
             \/ UNCHANGED vars
      PROVE  UNCHANGED streams
  BY <1>3 DEF LaunchBridge, LaunchProcessors, LaunchDetectors, LaunchJack, StartBridge,
              StartJack, StartProcessor, StartDetector, BufferSizeChange, vars
<1>4. ASSUME NEW h \in Hosts, NEW n \in Modems, Join(h, n) PROVE Goal
  BY <1>4, JoinRemote
<1>5. ASSUME NEW h \in Hosts, NEW n \in Modems, Detect(h, n) PROVE Goal
  BY <1>5, DetectRemote
<1>6. ASSUME NEW h \in Hosts, NEW n \in Modems, BridgeOut(h, n) PROVE Goal
  BY <1>6, BridgeOutRemote
<1>7. ASSUME NEW h \in Hosts, NEW n \in Modems, BridgeIn(h, n) PROVE Goal
  BY <1>7, BridgeInRemote
<1>8. ASSUME NEW p \in Modems, NEW n \in Modems, DetectorAudio(p, n) PROVE Goal
  BY <1>8, DetectorAudioRemote
<1>9. Goal
  BY <1>2, <1>3, <1>4, <1>5, <1>6, <1>7, <1>8 DEF Next
<1> QED
  BY <1>1, <1>9 DEF RemoteInv

(* Together the two invariants say what RemoteStreamsInOrder says.         *)
LEMMA RemoteSuffices == IndInv /\ RemoteInv => RemoteStreamsInOrder
<1> SUFFICES ASSUME IndInv, RemoteInv, NEW n \in Modems, NEW p \in Modems
             PROVE  /\ \A i \in 1..(Len(Stream(n, p)) - 1) :
                          Stream(n, p)[i + 1] = Stream(n, p)[i] + 1
                    /\ n = p => Stream(n, p) = <<>>
                    /\ \A h \in Hosts : n \in LocalModems(h) => to_host[n][h] = <<>>
  BY DEF RemoteStreamsInOrder
<1>0. TypeOK /\ NoLoop /\ LocalStreamsWhole /\ Delivered /\ Addressed
  BY DEF IndInv, RemoteInv
<1>1. /\ Stream(n, p) \in Seq(1..MaxBuffers) /\ 1..MaxBuffers \in SUBSET Int
      /\ sent[n] \in Int /\ \A h \in Hosts : Arrived(n, h) \in Int
  BY <1>0, StreamTypes
<1>2. n = p => Stream(n, p) = <<>>
  BY <1>0 DEF Addressed
<1>3. \A h \in Hosts : n \in LocalModems(h) => to_host[n][h] = <<>>
  BY <1>0 DEF NoLoop
<1>4. CASE Stream(n, p) = <<>>
  BY <1>2, <1>3, <1>4
<1>5. CASE Stream(n, p) # <<>>
  <2>1. n # p
    BY <1>0, <1>5 DEF Addressed
  <2>2. PICK h \in Hosts : p \in LocalModems(h)
    BY <1>0, <1>5 DEF Addressed
  <2>3. CASE n \in LocalModems(h)
    <3>1. Stream(n, p) = [i \in 1..sent[n] |-> i]
      BY <1>0, <2>1, <2>2, <2>3 DEF LocalStreamsWhole
    <3>2. sent[n] \in Nat
      BY <1>0, CoreAssumption DEF TypeOK
    <3>3. Len(Stream(n, p)) = sent[n]
      BY <3>1, <3>2
    <3> QED BY <1>2, <1>3, <3>1, <3>2, <3>3
  <2>4. CASE n \notin LocalModems(h)
    <3>1. EndsAt(Stream(n, p), Arrived(n, h))
      BY <1>0, <2>2, <2>4 DEF Delivered
    <3>2. \A i \in 1..(Len(Stream(n, p)) - 1) : Stream(n, p)[i + 1] = Stream(n, p)[i] + 1
      BY <1>1, <3>1, StretchInOrder
    <3> QED BY <1>2, <1>3, <3>2
  <2> QED BY <2>3, <2>4
<1> QED
  BY <1>4, <1>5

(* What a remote detector sends comes over the bridge in order, without a  *)
(* gap and only once, however late the hosts find each other and the       *)
(* processors subscribe; no audio ever comes back to its own modem or      *)
(* host.                                                                   *)
THEOREM RemoteAudioInOrder == Spec => []RemoteStreamsInOrder
BY InitRemote, InvariantHolds, NextRemote, RemoteSuffices, PTL DEF Spec
=============================================================================
