----------------------------- MODULE NetSimCore -----------------------------
(***************************************************************************)
(* netsim_core on several hosts: the order in which its main thread starts *)
(* the others (netsim_core_main.cpp), and BridgeThread (bridge.h), which   *)
(* passes what the detectors of one host send to the processors of the     *)
(* others.                                                                 *)
(*                                                                         *)
(* launch_thread returns at once; a thread subscribes in its constructor,  *)
(* which runs in the new thread.  A publication reaches those who have     *)
(* subscribed by then, each through a queue of its own, and nobody else.   *)
(* Between hosts a subscription takes effect some time after it is made.   *)
(* A buffer is represented by its position in its detector's stream.       *)
(***************************************************************************)
EXTENDS Integers, Sequences, FiniteSets

CONSTANTS
    Hosts,
    Bridged,         \* has_bridge()
    First,           \* first_modem_index of a host
    Local,           \* local_number_of_modems of a host
    NumberOfModems,  \* number_of_modems
    MaxModems,       \* NETSIM_MAX_MODEMS
    Talkers,         \* bound: the modems that transmit
    MaxBuffers,      \* bound: buffers a detector sends
    MaxSizes         \* bound: buffer size changes on a host

Modems == 0..(NumberOfModems - 1)

LocalModems(h) == First[h]..(First[h] + Local[h] - 1)

\* The hosts of a bridge share the modems out between them.
ASSUME CoreAssumption ==
    /\ NumberOfModems \in Nat /\ MaxModems \in Nat /\ NumberOfModems <= MaxModems
    /\ First \in [Hosts -> Nat] /\ Local \in [Hosts -> Nat]
    /\ \A h \in Hosts : LocalModems(h) \subseteq Modems
    /\ \A g, h \in Hosts : g # h => LocalModems(g) \cap LocalModems(h) = {}
    /\ Bridged \in BOOLEAN
    /\ ~Bridged => \A h \in Hosts : LocalModems(h) = Modems
    /\ MaxBuffers \in Nat /\ MaxSizes \in Nat

VARIABLES
    pc,         \* how far the main thread of a host has come
    bridge,     \* state of the host's BridgeThread
    processor,  \* state of the ProcessorThread of a modem, on the modem's host
    detector,   \* state of the DetectorThread of a modem, on the modem's host
    jack,       \* state of the host's JackThread<0>
    sizes,      \* buffer size changes announced on a host
    det_sizes,  \* how many of them have been queued for a detector
    proc_sizes, \* and for a processor
    sent,       \* how many buffers a detector has published
    to_bridge,  \* DetectorAudio<n> queued for the bridge of n's host
    joined,     \* joined[h]: modems whose BridgeAudio reaches host h
    to_host,    \* BridgeAudio<n> on its way to a host
    to_proc,    \* DetectorAudio<n> queued for a processor
    heard       \* history: what a processor has been given of DetectorAudio<n>

startup == <<pc, bridge, processor, detector, jack>>
streams == <<sent, to_bridge, joined, to_host, to_proc, heard>>
size_vars == <<sizes, det_sizes, proc_sizes>>
vars == <<startup, size_vars, streams>>

Init ==
    /\ pc = [h \in Hosts |-> "begin"]
    /\ bridge = [h \in Hosts |-> "off"]
    /\ processor = [i \in Modems |-> "off"]
    /\ detector = [i \in Modems |-> "off"]
    /\ jack = [h \in Hosts |-> "off"]
    /\ sizes = [h \in Hosts |-> 0]
    /\ det_sizes = [i \in Modems |-> 0]
    /\ proc_sizes = [i \in Modems |-> 0]
    /\ sent = [n \in Modems |-> 0]
    /\ to_bridge = [n \in Modems |-> <<>>]
    /\ joined = [h \in Hosts |-> {}]
    /\ to_host = [n \in Modems |-> [h \in Hosts |-> <<>>]]
    /\ to_proc = [n \in Modems |-> [p \in Modems |-> <<>>]]
    /\ heard = [n \in Modems |-> [p \in Modems |-> <<>>]]

-----------------------------------------------------------------------------
(* The constructor of NetSimCore, on the main thread *)

LaunchBridge(h) ==
    /\ Bridged
    /\ pc[h] = "begin"
    /\ pc' = [pc EXCEPT ![h] = "bridge"]
    /\ bridge' = [bridge EXCEPT ![h] = "launched"]
    /\ UNCHANGED <<processor, detector, jack, size_vars, streams>>

Launch(thread, threads) ==
    [i \in Modems |-> IF i \in threads THEN "launched" ELSE thread[i]]

Ready(thread, h) == Cardinality({i \in LocalModems(h) : thread[i] = "ready"})

\* Once bridge_ready is set, or at once without a bridge.
LaunchProcessors(h) ==
    /\ pc[h] = IF Bridged THEN "bridge" ELSE "begin"
    /\ Bridged => bridge[h] = "ready"
    /\ pc' = [pc EXCEPT ![h] = "processors"]
    /\ processor' = Launch(processor, LocalModems(h))
    /\ UNCHANGED <<bridge, detector, jack, size_vars, streams>>

\* The cases of the switch: 1 to NETSIM_MAX_MODEMS, falling through downwards.
DetectorCases_BelowMax(h) ==
    IF First[h] + Local[h] \in 1..(MaxModems - 1) THEN LocalModems(h) ELSE {}

DetectorCases(h) ==
    IF First[h] + Local[h] \in 1..MaxModems THEN LocalModems(h) ELSE {}

LaunchDetectors_AtOnce(h) ==
    /\ pc[h] = "processors"
    /\ pc' = [pc EXCEPT ![h] = "detectors"]
    /\ detector' = Launch(detector, DetectorCases(h))
    /\ UNCHANGED <<bridge, processor, jack, size_vars, streams>>

\* Once processor_ready has reached the local number of modems.
LaunchDetectors(h) ==
    /\ pc[h] = "processors"
    /\ Ready(processor, h) >= Local[h]
    /\ pc' = [pc EXCEPT ![h] = "detectors"]
    /\ detector' = Launch(detector, DetectorCases(h))
    /\ UNCHANGED <<bridge, processor, jack, size_vars, streams>>

LaunchJack_AtOnce(h) ==
    /\ pc[h] = "detectors"
    /\ pc' = [pc EXCEPT ![h] = "running"]
    /\ jack' = [jack EXCEPT ![h] = "launched"]
    /\ UNCHANGED <<bridge, processor, detector, size_vars, streams>>

\* Once detector_ready has reached the local number of modems.
LaunchJack(h) ==
    /\ pc[h] = "detectors"
    /\ Ready(detector, h) >= Local[h]
    /\ pc' = [pc EXCEPT ![h] = "running"]
    /\ jack' = [jack EXCEPT ![h] = "launched"]
    /\ UNCHANGED <<bridge, processor, detector, size_vars, streams>>

-----------------------------------------------------------------------------
(* The constructors of the other threads *)

StartBridge(h) ==
    /\ bridge[h] = "launched"
    /\ bridge' = [bridge EXCEPT ![h] = "ready"]
    /\ UNCHANGED <<pc, processor, detector, jack, size_vars, streams>>

StartProcessor(i) ==
    /\ processor[i] = "launched"
    /\ processor' = [processor EXCEPT ![i] = "ready"]
    /\ UNCHANGED <<pc, bridge, detector, jack, size_vars, streams>>

StartDetector(i) ==
    /\ detector[i] = "launched"
    /\ detector' = [detector EXCEPT ![i] = "ready"]
    /\ UNCHANGED <<pc, bridge, processor, jack, size_vars, streams>>

StartJack(h) ==
    /\ jack[h] = "launched"
    /\ jack' = [jack EXCEPT ![h] = "ready"]
    /\ UNCHANGED <<pc, bridge, processor, detector, size_vars, streams>>

\* jack_buffer_size_change of JackThread<0>; the others publish nothing.
BufferSizeChange(h) ==
    LET Seen(thread, n) ==
            [i \in Modems |-> IF i \in LocalModems(h) /\ thread[i] = "ready"
                              THEN n[i] + 1 ELSE n[i]]
    IN  /\ jack[h] = "ready" /\ sizes[h] < MaxSizes
        /\ sizes' = [sizes EXCEPT ![h] = @ + 1]
        /\ det_sizes' = Seen(detector, det_sizes)
        /\ proc_sizes' = Seen(processor, proc_sizes)
        /\ UNCHANGED <<startup, streams>>

-----------------------------------------------------------------------------
(* Audio *)

\* The processors of a host that get DetectorAudio<n>: all but n's own.
Subscribers(h, n) == {p \in LocalModems(h) : processor[p] = "ready" /\ p # n}

ToProcessors(h, n, b) ==
    to_proc' = [to_proc EXCEPT ![n] =
        [p \in Modems |-> IF p \in Subscribers(h, n) THEN Append(@[p], b) ELSE @[p]]]

RemoteModems_All(h) == Modems

\* The modems whose BridgeAudio the bridge of h subscribes to.
RemoteModems(h) == Modems \ LocalModems(h)

\* The subscription of a bridge to one remote modem takes effect.  That to a
\* modem that never transmits makes no difference.
Join(h, n) ==
    /\ bridge[h] = "ready"
    /\ n \in (RemoteModems(h) \cap Talkers) \ joined[h]
    /\ joined' = [joined EXCEPT ![h] = @ \cup {n}]
    /\ UNCHANGED <<startup, size_vars, sent, to_bridge, to_host, to_proc, heard>>

\* The detector of n publishes a buffer, once the JackThreads are launched.
Detect(h, n) ==
    /\ pc[h] = "running"
    /\ n \in LocalModems(h) \cap Talkers /\ detector[n] = "ready"
    /\ sent[n] < MaxBuffers
    /\ sent' = [sent EXCEPT ![n] = @ + 1]
    /\ ToProcessors(h, n, sent[n] + 1)
    /\ to_bridge' = IF bridge[h] = "ready"
                    THEN [to_bridge EXCEPT ![n] = Append(@, sent[n] + 1)]
                    ELSE to_bridge
    /\ UNCHANGED <<startup, size_vars, joined, to_host, heard>>

BridgeOut(h, n) ==
    /\ n \in LocalModems(h) /\ to_bridge[n] # <<>>
    /\ to_bridge' = [to_bridge EXCEPT ![n] = Tail(@)]
    /\ to_host' = [to_host EXCEPT ![n] =
          [g \in Hosts |-> IF n \in joined[g] THEN Append(@[g], Head(to_bridge[n]))
                           ELSE @[g]]]
    /\ UNCHANGED <<startup, size_vars, sent, joined, to_proc, heard>>

BridgeIn(h, n) ==
    /\ to_host[n][h] # <<>>
    /\ to_host' = [to_host EXCEPT ![n][h] = Tail(@)]
    /\ ToProcessors(h, n, Head(to_host[n][h]))
    /\ UNCHANGED <<startup, size_vars, sent, to_bridge, joined, heard>>

\* The processor's detector_audio.
DetectorAudio(p, n) ==
    /\ to_proc[n][p] # <<>>
    /\ to_proc' = [to_proc EXCEPT ![n][p] = Tail(@)]
    /\ heard' = [heard EXCEPT ![n][p] = Append(@, Head(to_proc[n][p]))]
    /\ UNCHANGED <<startup, size_vars, sent, to_bridge, joined, to_host>>

Next ==
    \/ \E h \in Hosts : LaunchBridge(h)
    \/ \E h \in Hosts : LaunchProcessors(h)
    \/ \E h \in Hosts : LaunchDetectors(h)
    \/ \E h \in Hosts : LaunchJack(h)
    \/ \E h \in Hosts : StartBridge(h)
    \/ \E i \in Modems : StartProcessor(i)
    \/ \E i \in Modems : StartDetector(i)
    \/ \E h \in Hosts : StartJack(h)
    \/ \E h \in Hosts : BufferSizeChange(h)
    \/ \E h \in Hosts, n \in Modems : Join(h, n)
    \/ \E h \in Hosts, n \in Modems : Detect(h, n)
    \/ \E h \in Hosts, n \in Modems : BridgeOut(h, n)
    \/ \E h \in Hosts, n \in Modems : BridgeIn(h, n)
    \/ \E p, n \in Modems : DetectorAudio(p, n)

\* Threads run and poll their queues; the main thread rereads the counters.
Fairness ==
    /\ \A h \in Hosts :
          /\ WF_vars(LaunchBridge(h) \/ LaunchProcessors(h) \/ LaunchDetectors(h)
                       \/ LaunchJack(h))
          /\ WF_vars(StartBridge(h))
    /\ \A i \in Modems : WF_vars(StartProcessor(i)) /\ WF_vars(StartDetector(i))
    /\ \A h \in Hosts, n \in Modems :
          WF_vars(BridgeOut(h, n)) /\ WF_vars(BridgeIn(h, n))
    /\ \A p, n \in Modems : WF_vars(DetectorAudio(p, n))

Spec == Init /\ [][Next]_vars
FairSpec == Spec /\ Fairness

-----------------------------------------------------------------------------
(* Properties *)

States == {"off", "launched", "ready"}

(* Every variable stays in its type, and a modem's detector is never       *)
(* launched before its processor has subscribed.                           *)
TypeOK ==
    /\ pc \in [Hosts -> {"begin", "bridge", "processors", "detectors", "running"}]
    /\ bridge \in [Hosts -> States]
    /\ processor \in [Modems -> States]
    /\ detector \in [Modems -> States]
    /\ \A i \in Modems : detector[i] # "off" => processor[i] = "ready"
    /\ jack \in [Hosts -> States]
    /\ sizes \in [Hosts -> 0..MaxSizes]
    /\ det_sizes \in [Modems -> Nat]
    /\ proc_sizes \in [Modems -> Nat]
    /\ sent \in [Modems -> 0..MaxBuffers]
    /\ to_bridge \in [Modems -> Seq(1..MaxBuffers)]
    /\ joined \in [Hosts -> SUBSET Modems]
    /\ to_host \in [Modems -> [Hosts -> Seq(1..MaxBuffers)]]
    /\ to_proc \in [Modems -> [Modems -> Seq(1..MaxBuffers)]]
    /\ heard \in [Modems -> [Modems -> Seq(1..MaxBuffers)]]

(* Every detector and processor gets every buffer size change of its host, *)
(* the first one included: nothing is announced before all have            *)
(* subscribed.                                                             *)
EverySizeSeen ==
    \A h \in Hosts : \A i \in LocalModems(h) :
        det_sizes[i] = sizes[h] /\ proc_sizes[i] = sizes[h]

Stream(n, p) == heard[n][p] \o to_proc[n][p]

(* A processor gets all that the other detectors of its host have sent,    *)
(* from the first buffer on, once and in order.                            *)
LocalStreamsWhole ==
    \A h \in Hosts : \A n, p \in LocalModems(h) :
        n # p => Stream(n, p) = [i \in 1..sent[n] |-> i]

(* A processor gets what a remote detector sends in order, without a gap   *)
(* and only once, from the moment the two hosts have found each other; the *)
(* network never brings a modem its own audio, or a host its own modems'.  *)
RemoteStreamsInOrder ==
    \A n, p \in Modems :
        /\ \A i \in 1..(Len(Stream(n, p)) - 1) : Stream(n, p)[i + 1] = Stream(n, p)[i] + 1
        /\ n = p => Stream(n, p) = <<>>
        /\ \A h \in Hosts : n \in LocalModems(h) => to_host[n][h] = <<>>

(* Every host gets as far as launching the JackThreads.                    *)
StartupCompletes == \A h \in Hosts : <>(pc[h] = "running")
=============================================================================
