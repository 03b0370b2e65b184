-------------------------------- MODULE Gateway --------------------------------
(***************************************************************************)
(* NetSimCoreTranslation (moos_translator_plugin/moos_plugin.cpp), one per *)
(* MOOS community, which is one environment, and the community's iBellhop  *)
(* behind it.  It takes the requests netsim_manager has addressed to its   *)
(* environment to MOOS and brings every answer back to Goby.               *)
(*                                                                         *)
(* The impulse, performance and bellhop requests and the positions are     *)
(* handled alike, as are the three kinds of answers; only the bellhop ones *)
(* are followed here.  The MOOS text format loses nothing of a message.    *)
(***************************************************************************)
EXTENDS Naturals, Sequences

CONSTANTS
    Gateways,     \* the MOOS ports of the gateways
    ForeignId,    \* identity of the requests of other MOOS programs
    MaxForeign    \* bound on those requests

VARIABLES
    env_bellhop_req,    \* gateway -> what Goby has for it: [environment, id]
    BELLHOP_REQUEST,    \* gateway -> mail for its iBellhop: [source, id]
    BELLHOP_RESPONSE,   \* gateway -> mail for it: [requestor, id, success]
    bellhop_response,   \* what Goby has for netsim_postprocess
    foreign             \* requests made by other MOOS programs

gateway_vars == <<env_bellhop_req, BELLHOP_REQUEST, BELLHOP_RESPONSE,
                  bellhop_response, foreign>>

\* "based on MOOS port 0-9"
EnvironmentId(g) == g % 10

\* One gateway for each environment.
ASSUME GatewaysAssumption ==
    \A g, h \in Gateways : EnvironmentId(g) = EnvironmentId(h) => g = h

GatewayInit ==
    /\ env_bellhop_req = [g \in Gateways |-> <<>>]
    /\ BELLHOP_REQUEST = [g \in Gateways |-> <<>>]
    /\ BELLHOP_RESPONSE = [g \in Gateways |-> <<>>]
    /\ bellhop_response = <<>>
    /\ foreign = 0

\* Every gateway is subscribed to what the manager publishes.
PublishToGateways(environment, id) ==
    env_bellhop_req' = [g \in Gateways |->
        Append(env_bellhop_req[g], [environment |-> environment, id |-> id])]

GobyToMoos_Any(g) ==
    /\ env_bellhop_req[g] # <<>>
    /\ env_bellhop_req' = [env_bellhop_req EXCEPT ![g] = Tail(@)]
    /\ BELLHOP_REQUEST' = [BELLHOP_REQUEST EXCEPT ![g] =
            Append(@, [source |-> "Translator", id |-> Head(env_bellhop_req[g]).id])]
    /\ UNCHANGED <<BELLHOP_RESPONSE, bellhop_response, foreign>>

\* goby_to_moos: a request for another environment is ignored.
GobyToMoos(g) ==
    /\ env_bellhop_req[g] # <<>>
    /\ env_bellhop_req' = [env_bellhop_req EXCEPT ![g] = Tail(@)]
    /\ LET req == Head(env_bellhop_req[g])
       IN  BELLHOP_REQUEST' =
             IF req.environment = EnvironmentId(g)
             THEN [BELLHOP_REQUEST EXCEPT ![g] =
                     Append(@, [source |-> "Translator", id |-> req.id])]
             ELSE BELLHOP_REQUEST
    /\ UNCHANGED <<BELLHOP_RESPONSE, bellhop_response, foreign>>

\* Another program of the community asks iBellhop.
ForeignRequest(g) ==
    /\ foreign < MaxForeign
    /\ foreign' = foreign + 1
    /\ BELLHOP_REQUEST' = [BELLHOP_REQUEST EXCEPT ![g] =
            Append(@, [source |-> "other", id |-> ForeignId])]
    /\ UNCHANGED <<env_bellhop_req, BELLHOP_RESPONSE, bellhop_response>>

\* iBellhop answers every request, successfully or not (module IBellhop).
AnswerRequest(g, success) ==
    /\ BELLHOP_REQUEST[g] # <<>>
    /\ BELLHOP_REQUEST' = [BELLHOP_REQUEST EXCEPT ![g] = Tail(@)]
    /\ BELLHOP_RESPONSE' = [BELLHOP_RESPONSE EXCEPT ![g] =
            Append(@, [requestor |-> Head(BELLHOP_REQUEST[g]).source,
                       id |-> Head(BELLHOP_REQUEST[g]).id, success |-> success])]
    /\ UNCHANGED <<env_bellhop_req, bellhop_response, foreign>>

MoosToGoby(g) ==
    /\ BELLHOP_RESPONSE[g] # <<>>
    /\ BELLHOP_RESPONSE' = [BELLHOP_RESPONSE EXCEPT ![g] = Tail(@)]
    /\ bellhop_response' = Append(bellhop_response, Head(BELLHOP_RESPONSE[g]))
    /\ UNCHANGED <<env_bellhop_req, BELLHOP_REQUEST, foreign>>
=============================================================================
