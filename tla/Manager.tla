------------------------------- MODULE Manager -------------------------------
(***************************************************************************)
(* NetSimManager (netsim_manager/manager.cpp): takes the positions of the  *)
(* simulated vehicles over TCP, hands each one to the vehicle's            *)
(* environment, and forwards the requests of other programs to the         *)
(* environment of the vehicle they are about.                              *)
(*                                                                         *)
(* Latitude, longitude and depth and their bounds are one number and its   *)
(* bounds; the $GPRMC line of a position goes out with the position.  A    *)
(* position is complete if none of its required fields is missing.         *)
(***************************************************************************)
EXTENDS TcpServer

CONSTANTS
    Configs,     \* configurations: [env_bounds, sim_env_pair], sequences
    Sources,     \* modem_tcp_ports named in requests of other programs
    Kinds        \* those requests: impulse, performance, bellhop

ASSUME LinesAssumption == \A l \in Lines : Len(l.nav) \in Nat

VARIABLES
    env_cfg_,        \* modem_tcp_port -> [address, environment]
    env_bounds_,     \* environment -> [min, max]
    env_nav_update,  \* everything published in this group, with its gps line
    receive_stats,   \* requests whose statistics were published
    forwarded        \* the last request forwarded to an environment

manager_vars == <<env_cfg_, env_bounds_, env_nav_update, receive_stats, forwarded>>
vars == <<tcp_vars, manager_vars>>

-----------------------------------------------------------------------------
(* process_configuration *)

EnvBounds(cfg) ==
    LET bounds == {cfg.env_bounds[i] : i \in 1..Len(cfg.env_bounds)}
    IN  [e \in {b.environment : b \in bounds} |->
            CHOOSE b \in bounds : b.environment = e]

EnvCfg(cfg) ==
    LET pairs == {cfg.sim_env_pair[i] : i \in 1..Len(cfg.sim_env_pair)}
    IN  [p \in {e.port : e \in pairs} |-> CHOOSE e \in pairs : e.port = p]

Valid(cfg) ==
    /\ \A i, j \in 1..Len(cfg.env_bounds) :
          i # j => cfg.env_bounds[i].environment # cfg.env_bounds[j].environment
    /\ \A i, j \in 1..Len(cfg.sim_env_pair) :
          i # j => cfg.sim_env_pair[i].port # cfg.sim_env_pair[j].port
    /\ \A i \in 1..Len(cfg.sim_env_pair) : \E j \in 1..Len(cfg.env_bounds) :
          cfg.sim_env_pair[i].environment = cfg.env_bounds[j].environment

\* An invalid configuration ends the program before it serves anybody.
Init ==
    /\ TcpInit
    /\ \E cfg \in {k \in Configs : Valid(k)} :
          /\ env_bounds_ = EnvBounds(cfg)
          /\ env_cfg_ = EnvCfg(cfg)
    /\ env_nav_update = <<>>
    /\ receive_stats = {}
    /\ forwarded = <<>>

-----------------------------------------------------------------------------
(* process_request *)

Ok == "UPDATE_ACCEPTED"
BadPort == "UPDATE_FAILED_INVALID_MODEM_TCP_PORT"
BadSource == "UPDATE_FAILED_INVALID_SOURCE_ADDRESS"
BadRegion == "UPDATE_FAILED_OUT_OF_DEFINED_REGION"

InBounds(nav) ==
    LET b == env_bounds_[env_cfg_[nav.port].environment]
    IN  b.min <= nav.position /\ nav.position <= b.max

NavStatus_AnySource(nav, ep) ==
    IF nav.port \notin DOMAIN env_cfg_ THEN BadPort
    ELSE IF ~InBounds(nav) THEN BadRegion
    ELSE Ok

NavStatus(nav, ep) ==
    IF nav.port \notin DOMAIN env_cfg_ THEN BadPort
    ELSE IF ep = NoEndpoint \/ ep[1] # env_cfg_[nav.port].address THEN BadSource
    ELSE IF ~InBounds(nav) THEN BadRegion
    ELSE Ok

AppliedNavs_Skipping(navs, ep) ==
    {i \in 1..Len(navs) : NavStatus(navs[i], ep) = Ok}

\* The positions before the break: those in front of the first bad one.
AppliedNavs(navs, ep) ==
    {i \in 1..Len(navs) : \A j \in 1..i : NavStatus(navs[j], ep) = Ok}

Update(c, k, navs, i) ==
    [conn |-> c, request |-> k, nav |-> i, port |-> navs[i].port,
     environment |-> env_cfg_[navs[i].port].environment]

\* The updates published for them; an incomplete one is only warned about.
Updates(c, k, navs, applied) ==
    LET f[i \in 0..Len(navs)] ==
            IF i = 0 THEN <<>>
            ELSE IF i \in applied /\ navs[i].complete
            THEN Append(f[i - 1], Update(c, k, navs, i))
            ELSE f[i - 1]
    IN  f[Len(navs)]

Status(navs, ep) ==
    LET applied == AppliedNavs(navs, ep)
    IN  IF applied = 1..Len(navs) THEN Ok
        ELSE NavStatus(navs[CHOOSE i \in 1..Len(navs) :
                              i \notin applied /\ 1..(i - 1) \subseteq applied], ep)

\* A line with a NetSimManagerRequest: the positions, the statistics, and the
\* response to the endpoint it came from.
ProcessRequest(c) ==
    /\ ReadLine(c)
    /\ Line(c).type = "NetSimManagerRequest"
    /\ LET navs == Line(c).nav
           k == taken[c] + 1
       IN  /\ env_nav_update' = env_nav_update
                \o Updates(c, k, navs, AppliedNavs(navs, Remote(c)))
           /\ receive_stats' = IF Line(c).stats THEN receive_stats \cup {<<c, k>>}
                               ELSE receive_stats
           /\ Write([request |-> <<c, k>>, status |-> Status(navs, Remote(c))],
                    Remote(c))
    /\ UNCHANGED <<env_cfg_, env_bounds_, forwarded>>

\* A line with a message nobody has registered a callback for.
IgnoreLine(c) ==
    /\ ReadLine(c)
    /\ Line(c).type # "NetSimManagerRequest"
    /\ UNCHANGED <<sessions_, written, failed, manager_vars>>

-----------------------------------------------------------------------------
(* handle_impulse_request, handle_performance_request, handle_bellhop_request *)

\* A request about an unknown vehicle is warned about and dropped.
Forward(kind, source) ==
    /\ alive
    /\ source \in DOMAIN env_cfg_
    /\ forwarded' = <<[kind |-> kind, port |-> source,
                       environment |-> env_cfg_[source].environment]>>
    /\ UNCHANGED <<tcp_vars, env_cfg_, env_bounds_, env_nav_update, receive_stats>>

-----------------------------------------------------------------------------
Tcp(A) == A /\ UNCHANGED manager_vars

Next ==
    \/ \E c \in Conns, e \in Endpoints : Tcp(Connect(c, e))
    \/ \E c \in Conns, l \in Lines : Tcp(Send(c, l))
    \/ \E c \in Conns : Tcp(Close(c))
    \/ \E c \in Conns : Tcp(Reset(c))
    \/ Tcp(Accept)
    \/ Tcp(AcceptThrows)
    \/ \E c \in Conns : Tcp(ReadError(c))
    \/ \E c \in Conns : Tcp(WriteError(c))
    \/ \E c \in Conns : Tcp(StaleHandler(c))
    \/ \E c \in Conns : ProcessRequest(c)
    \/ \E c \in Conns : IgnoreLine(c)
    \/ \E kind \in Kinds, source \in Sources : Forward(kind, source)

Spec == Init /\ [][Next]_vars

-----------------------------------------------------------------------------
(* Properties *)

\* Connection c is the first one from its endpoint.
Fresh(c) == \A d \in 1..(c - 1) : endpoint[d] # endpoint[c]

(* A response goes to the connection its request came from, and responses  *)
(* on one connection come in the order of the requests, at most one each,  *)
(* however connections from one host or from one endpoint overlap.         *)
RightConnection ==
    \A c \in Conns : \A i \in 1..Len(written[c]) :
        /\ written[c][i].request[1] = c
        /\ written[c][i].request[2] \in 1..taken[c]
        /\ i > 1 => written[c][i - 1].request[2] < written[c][i].request[2]

Requests(c) == {k \in 1..taken[c] : lines[c][k].type = "NetSimManagerRequest"}

(* What page15_vehicle_sim_connections.md:18 says: the manager answers the *)
(* requests.  On a connection that is still open every request that was    *)
(* read has its response.                                                  *)
EveryRequestAnswered ==
    alive => \A c \in Conns :
        link[c] = "open" =>
            Requests(c) = {written[c][i].request[2] : i \in 1..Len(written[c])}

(* The same for the first connection from an endpoint.                     *)
AnsweredIfFresh ==
    alive => \A c \in Conns :
        link[c] = "open" /\ Fresh(c) =>
            Requests(c) = {written[c][i].request[2] : i \in 1..Len(written[c])}

(* A vehicle's position is published only if a connection from the address *)
(* configured for the vehicle sent it, inside the bounds of its            *)
(* environment; positions sent on one connection are published in order.   *)
NavFromOwner ==
    /\ \A i \in 1..Len(env_nav_update) :
          LET u == env_nav_update[i]
              nav == lines[u.conn][u.request].nav[u.nav]
          IN  /\ u.request <= taken[u.conn]
              /\ nav.complete
              /\ nav.port = u.port
              /\ env_cfg_[u.port].address = endpoint[u.conn][1]
              /\ u.environment = env_cfg_[u.port].environment
              /\ env_bounds_[u.environment].min <= nav.position
              /\ nav.position <= env_bounds_[u.environment].max
    /\ \A i, j \in 1..Len(env_nav_update) :
          LET u == env_nav_update[i]
              v == env_nav_update[j]
          IN  i < j /\ u.conn = v.conn =>
                \/ u.request < v.request
                \/ u.request = v.request /\ u.nav < v.nav

Published(updates, c, k) ==
    {u.nav : u \in {v \in {updates[i] : i \in 1..Len(updates)} :
                      v.conn = c /\ v.request = k}}

\* What page15_vehicle_sim_connections.md:119-121 gives as the reason of a status.
Reason(status, nav, from) ==
    \/ status = BadPort /\ nav.port \notin DOMAIN env_cfg_
    \/ /\ nav.port \in DOMAIN env_cfg_
       /\ \/ status = BadSource /\ env_cfg_[nav.port].address # from[1]
          \/ /\ status \in {BadRegion, Ok}
             /\ env_cfg_[nav.port].address = from[1]
             /\ status = Ok <=> InBounds(nav)

\* bad is the first position that is not allowed, behind the last if all are.
Tells(status, published, navs, from) ==
    \E bad \in 1..(Len(navs) + 1) :
        /\ \A n \in 1..(bad - 1) : Reason(Ok, navs[n], from)
        /\ published = {n \in 1..(bad - 1) : navs[n].complete}
        /\ IF bad > Len(navs) THEN status = Ok
           ELSE status # Ok /\ Reason(status, navs[bad], from)

(* The status tells what was applied and why no more: all positions before *)
(* the first that is not allowed, whose own fault the status names, or all *)
(* of the request (UPDATE_ACCEPTED), although each is published before the *)
(* next is looked at and the connection may be reset before any of them is *)
(* read.  Only the complete ones are published: what                       *)
(* page15_vehicle_sim_connections.md:118 says,                             *)
(* "position update was accepted", does not hold of an incomplete position *)
(* (manager.cpp:178-186), which is answered UPDATE_ACCEPTED and dropped.   *)
StatusTellsWhatWasApplied ==
    \A c \in Conns : \A i \in 1..Len(written[c]) :
        LET r == written[c][i]
            k == r.request[2]
        IN  Tells(r.status, Published(env_nav_update, c, k), lines[c][k].nav,
                  endpoint[c])
=============================================================================
