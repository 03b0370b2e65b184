------------------------------- MODULE Display -------------------------------
(***************************************************************************)
(* The display with everything that feeds it: netsim_manager, which routes *)
(* a session's request to the environment of its transmitter, the MOOS     *)
(* gateways (module Gateway), netsim_postprocess, whose two threads turn   *)
(* the answers and the closed recordings into images, and the sessions     *)
(* (module Liaison).                                                       *)
(*                                                                         *)
(* netsim_postprocess handles the events of one thread in order, however   *)
(* long octave takes; positions and statistics do not pass through it.     *)
(***************************************************************************)
EXTENDS Gateway, Liaison, FiniteSets

CONSTANTS
    Reports,      \* packets, positions and statistics that may be reported
    MaxClicks,    \* bound on requests for a plot
    MaxReports,   \* bound on reports
    MaxAudience,  \* bound on sessions opened where there are reports
    MaxStimuli    \* bound on sessions, requests and reports together

VARIABLES
    bellhop_request,  \* session -> its requests on their way to the manager
    logger_event,     \* for AudioImagesThread
    clicks,           \* number of requests made
    reports,          \* number of packets, positions and statistics
    recording,        \* packets begun and not closed
    plotted           \* history: the requests TLPlotThread has answered

display_vars ==
    <<bellhop_request, logger_event, clicks, reports, recording,
      plotted>>
vars == <<gateway_vars, liaison_vars, display_vars>>

EnvironmentOf(port) ==
    LET i == CHOOSE k \in DOMAIN Pairs : Pairs[k].modem_tcp_port = port
    IN  Pairs[i].environment

Environments == {Pairs[i].environment : i \in DOMAIN Pairs}

\* Every environment of the configuration has its gateway.
ASSUME EnvironmentsAssumption ==
    /\ Environments \subseteq {EnvironmentId(g) : g \in Gateways}
    /\ \A i, j \in DOMAIN Pairs :
          Pairs[i].modem_tcp_port = Pairs[j].modem_tcp_port => i = j

\* The identities of the clicks.
Ids == [n : 1..MaxClicks, ownship : Ports]

ASSUME ClicksAssumption == MaxClicks \in Nat /\ NoClick \notin Ids

ASSUME ReportsAssumption ==
    \A r \in Reports : r.kind \in {"PACKET_START", "nav", "stats"}

Init ==
    /\ GatewayInit
    /\ LiaisonInit
    /\ bellhop_request = [s \in Sessions |-> <<>>]
    /\ logger_event = <<>>
    /\ clicks = 0
    /\ reports = 0
    /\ recording = {}
    /\ plotted = {}

Opened == Cardinality({s \in Sessions : stage[s] # "none"})

\* What has come from outside; a session and a request of another program count
\* for two.
Stimuli == 2 * (Opened + foreign) + clicks + reports

-----------------------------------------------------------------------------
(* Users *)

Open(s) ==
    /\ Stimuli + 2 <= MaxStimuli
    /\ reports = 0 \/ Opened < MaxAudience
    /\ OpenSession(s)
    /\ UNCHANGED <<gateway_vars, display_vars>>

\* What the communications thread has not published yet is gone.
Leave(s) ==
    /\ EndSession(s)
    /\ \E left \in {bellhop_request[s], <<>>} :
          bellhop_request' = [bellhop_request EXCEPT ![s] = left]
    /\ UNCHANGED <<gateway_vars, logger_event, clicks, reports,
                   recording, plotted>>

RequestPlot(s, port) ==
    /\ clicks < MaxClicks
    /\ Stimuli < MaxStimuli
    /\ clicks' = clicks + 1
    /\ Click(s, port, [n |-> clicks + 1, ownship |-> port])
    /\ bellhop_request' = [bellhop_request EXCEPT ![s] =
            Append(@, [n |-> clicks + 1, ownship |-> port])]
    /\ UNCHANGED <<gateway_vars, logger_event, reports, recording,
                   plotted>>

RequestTooEarly(s) ==
    /\ ClickTooEarly(s)
    /\ UNCHANGED <<gateway_vars, display_vars>>

-----------------------------------------------------------------------------
(* netsim_manager *)

HandleBellhopRequest(s) ==
    /\ bellhop_request[s] # <<>>
    /\ bellhop_request' = [bellhop_request EXCEPT ![s] = Tail(@)]
    /\ PublishToGateways(EnvironmentOf(Head(bellhop_request[s]).ownship),
                         Head(bellhop_request[s]))
    /\ UNCHANGED <<BELLHOP_REQUEST, BELLHOP_RESPONSE, bellhop_response, foreign,
                   liaison_vars, logger_event, clicks, reports,
                   recording, plotted>>

-----------------------------------------------------------------------------
(* netsim_postprocess *)

\* TLPlotThread drops the answers to other MOOS programs.
PlotTL(resp) ==
    IF resp.requestor = "Translator"
    THEN /\ PostToWt([kind |-> "resp", id |-> resp.id, success |-> resp.success])
         /\ plotted' = plotted \cup {resp.id}
    ELSE UNCHANGED <<wt, plotted>>

TLPlot ==
    /\ bellhop_response # <<>>
    /\ bellhop_response' = Tail(bellhop_response)
    /\ PlotTL(Head(bellhop_response))
    /\ UNCHANGED <<env_bellhop_req, BELLHOP_REQUEST, BELLHOP_RESPONSE, foreign,
                   stage, ui, bellhop_request, logger_event, clicks,
                   reports, recording>>

AudioImages ==
    /\ logger_event # <<>>
    /\ logger_event' = Tail(logger_event)
    /\ PostToWt(Head(logger_event))
    /\ UNCHANGED <<gateway_vars, stage, ui, bellhop_request, clicks,
                   reports, recording, plotted>>

-----------------------------------------------------------------------------
(* What the rest of the system reports: the packets of the logger, the      *)
(* positions and the statistics of the manager.                             *)

\* What is reported while nobody is connected is left out.
Report ==
    /\ Connected # {}
    /\ reports < MaxReports
    /\ Stimuli < MaxStimuli
    /\ Opened <= MaxAudience
    /\ reports' = reports + 1
    /\ UNCHANGED <<gateway_vars, stage, ui, bellhop_request, clicks, plotted>>

StartPacket(r) ==
    /\ Report
    /\ recording' = recording \cup {reports + 1}
    /\ logger_event' = Append(logger_event,
            [kind |-> r.kind, modem |-> r.modem, packet |-> reports + 1])
    /\ UNCHANGED wt

ClosePacket(p) ==
    /\ Report
    /\ recording' = recording \ {p}
    /\ logger_event' = Append(logger_event,
            [kind |-> "ALL_LOGS_CLOSED_FOR_PACKET", packet |-> p])
    /\ UNCHANGED wt

\* env_nav_update and receive_stats: the manager publishes them directly.
Publish(r) ==
    /\ Report
    /\ PostToWt(r)
    /\ UNCHANGED <<logger_event, recording>>

-----------------------------------------------------------------------------
(* The steps of the modules below *)

GatewayStep(g) ==
    /\ \/ GobyToMoos(g)
       \/ \E success \in BOOLEAN : AnswerRequest(g, success)
       \/ MoosToGoby(g)
    /\ UNCHANGED <<liaison_vars, display_vars>>

AskIBellhop(g) ==
    /\ Stimuli + 2 <= MaxStimuli
    /\ ForeignRequest(g)
    /\ UNCHANGED <<liaison_vars, display_vars>>

SessionStep(s) ==
    /\ \/ HandleManagerCfg(s)
       \/ HandleUpdatedNav(s)
       \/ HandleReceiveStats(s)
       \/ HandleLogsClosed(s)
       \/ HandlePacketStart(s)
       \/ HandleBellhopResp(s)
       \/ PaintEvent(s)
    /\ UNCHANGED <<gateway_vars, display_vars>>

\* What the threads of the system do with what is queued for them.
SystemStep ==
    \/ TLPlot
    \/ AudioImages
    \/ \E g \in Gateways : GatewayStep(g)
    \/ \E s \in Sessions : HandleBellhopRequest(s) \/ SessionStep(s)

\* What users, the rest of the simulator and other MOOS programs do.
Stimulus ==
    \/ \E s \in Sessions : Open(s) \/ Leave(s) \/ RequestTooEarly(s)
    \/ \E s \in Sessions, port \in Ports : RequestPlot(s, port)
    \/ \E g \in Gateways : AskIBellhop(g)
    \/ \E r \in Reports : r.kind = "PACKET_START" /\ StartPacket(r)
    \/ \E r \in Reports : r.kind # "PACKET_START" /\ Publish(r)
    \/ \E p \in recording : ClosePacket(p)

Next == SystemStep \/ Stimulus

Spec == Init /\ [][Next]_vars

\* As long as something is queued for a thread, some thread handles something:
\* each of them waits for nothing but its queue.
FairSpec == Spec /\ WF_vars(SystemStep)

-----------------------------------------------------------------------------
(* Properties *)

OthersClicked(s) == \E t \in Sessions \ {s} : ui[t].scale # NoClick

\* As long as one session asks for plots, the plot it draws is the answer to the
\* request that set its axes and the scale of its dots: the disabled button keeps
\* dz_ and dr_ until the answer has come through the manager, the gateway,
\* iBellhop and netsim_postprocess, and was painted.
ImageMatchesScale ==
    \A s \in Sessions : OthersClicked(s) \/ ui[s].canvas[1] = ui[s].canvas[2]

\* handle_bellhop_resp: the positions drawn over a plot were noted after the
\* session handled the answer that brought the plot, never before it, however the
\* starts of packets, which wait in netsim_postprocess, and the answers interleave.
DotsOfThisPlot ==
    \A s \in Sessions : \A i \in DOMAIN ui[s].painted :
        ui[s].painted[i].plot = ui[s].painted[i].over

\* A session whose button is disabled gets it back, be the answer a success or a
\* failure, unless the session ends first (handle_bellhop_resp); if the programs of
\* the chain keep running.
ButtonComesBack ==
    \A s \in Sessions :
        (stage[s] = "connected" /\ ~ui[s].tl_request_) ~>
            (stage[s] = "ended" \/ ui[s].tl_request_)

-----------------------------------------------------------------------------
(* The chain implements TLService *)

\* What the elements of a queue at the positions S are about, in their order.
Picked(q, S) ==
    LET ids[n \in 0..Len(q)] ==
          IF n = 0 THEN <<>>
          ELSE IF n \in S THEN Append(ids[n - 1], q[n].id)
          ELSE ids[n - 1]
    IN  ids[Len(q)]

\* Those whose field f is v.
Own(q, f, v) == Picked(q, {k \in DOMAIN q : q[k][f] = v})

\* The answers to requests of an environment.
Back(q, e) ==
    Picked(q, {k \in DOMAIN q : /\ q[k].requestor = "Translator"
                                /\ EnvironmentOf(q[k].id.ownship) = e})

GatewayOf(e) == CHOOSE g \in Gateways : EnvironmentId(g) = e

\* The requests of an environment in what Goby and MOOS hold, oldest first.
Waiting(e) ==
    LET g == GatewayOf(e)
    IN  Back(bellhop_response, e)
            \o (Own(BELLHOP_RESPONSE[g], "requestor", "Translator")
            \o (Own(BELLHOP_REQUEST[g], "source", "Translator")
            \o Own(env_bellhop_req[g], "environment", e)))

News(s) == Own(wt[s], "kind", "resp")

Told(s) == LET a == ui[s].answers IN IF a = <<>> THEN <<>> ELSE a[Len(a)]

Service == INSTANCE TLService WITH
    waiting <- [e \in Environments |-> Waiting(e)],
    answered <- plotted,
    news <- [s \in Connected |-> News(s)],
    told <- [s \in Sessions |-> Told(s)]

\* Every request netsim_manager takes is answered once to the display, those for
\* one environment in order, whichever gateway hears of it and whatever other
\* programs of the community ask iBellhop, and every connected session is told
\* the same answers in the same order.
ImplementsTLService == Service!ServiceSpec
=============================================================================
