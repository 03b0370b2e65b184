------------------------------ MODULE TcpServer ------------------------------
(***************************************************************************)
(* lib/tcp: tcp_server, its tcp_sessions and the tcp_clients at the other  *)
(* end.  The server runs in one thread that calls io_.poll(); every        *)
(* completion handler is one action, and the kernel and the peers act      *)
(* between any two of them.                                                *)
(*                                                                         *)
(* A connection is a number, in the order of connecting.  The lines a      *)
(* client sends on it are a sequence of which the session has taken the    *)
(* first few; what is left of it after the peer has gone can still be      *)
(* read.  sessions_ holds weak pointers: 0 stands for an absent key, c for *)
(* a pointer to the session of connection c, which may have expired.       *)
(* A closed session is freed at once.  If one of its handlers is still     *)
(* queued then, that handler uses freed memory: it either does nothing or  *)
(* ends the program.                                                       *)
(***************************************************************************)
EXTENDS Integers, Sequences
LOCAL INSTANCE Functions

CONSTANTS
    Endpoints,   \* remote endpoints, <<address, port>>
    NoEndpoint,  \* the default-constructed endpoint
    Lines,       \* what a client may send as one line
    MaxConns,    \* bound: connections
    MaxSent      \* bound: lines sent on all connections

ASSUME EndpointsAssumption == NoEndpoint \notin Endpoints
ASSUME TcpBoundsAssumption == MaxConns \in Nat /\ MaxSent \in Nat

VARIABLES
    alive,      \* no exception or memory fault has ended the server
    endpoint,   \* endpoint[c] of the client side
    link,       \* state of the connection at the server's kernel
    backlog,    \* connections waiting to be accepted
    session,    \* state of the session of a connection
    sessions_,  \* tcp_server::sessions_
    lines,      \* lines[c]: all that the client has sent
    taken,      \* taken[c]: how many of them the session has read
    written,    \* written[c]: what the server has sent
    failed,     \* failed[c]: the handler of a failed write is queued
    dangling    \* freed sessions that still have a handler queued

peers == <<endpoint, link, lines>>
tcp_vars == <<alive, endpoint, link, backlog, session, sessions_, lines, taken,
              written, failed, dangling>>

Conns == 1..MaxConns

TcpInit ==
    /\ alive = TRUE
    /\ endpoint = [c \in Conns |-> NoEndpoint]
    /\ link = [c \in Conns |-> "none"]
    /\ backlog = <<>>
    /\ session = [c \in Conns |-> "none"]
    /\ sessions_ = [e \in Endpoints |-> 0]
    /\ lines = [c \in Conns |-> <<>>]
    /\ taken = [c \in Conns |-> 0]
    /\ written = [c \in Conns |-> <<>>]
    /\ failed = [c \in Conns |-> FALSE]
    /\ dangling = {}

-----------------------------------------------------------------------------
(* The clients and the network *)

\* A pair of endpoints names one connection at a time: one can be used again
\* once the server's kernel has forgotten the earlier connection.
Free(e) ==
    \A c \in Conns :
        endpoint[c] = e => link[c] = "rst" \/ session[c] = "expired"

Connect(c, e) ==
    /\ alive
    /\ link[c] = "none" /\ \A d \in 1..(c - 1) : link[d] # "none"
    /\ Free(e)
    /\ endpoint' = [endpoint EXCEPT ![c] = e]
    /\ link' = [link EXCEPT ![c] = "open"]
    /\ backlog' = Append(backlog, c)
    /\ UNCHANGED <<alive, session, sessions_, lines, taken, written, failed,
                   dangling>>

Sent == FoldFunction(+, 0, [c \in Conns |-> Len(lines[c])])

Send(c, l) ==
    /\ alive
    /\ link[c] = "open" /\ Sent < MaxSent
    /\ lines' = [lines EXCEPT ![c] = Append(@, l)]
    /\ UNCHANGED <<alive, endpoint, link, backlog, session, sessions_, taken,
                   written, failed, dangling>>

\* The client closes: the server will see the end of the stream.
Close(c) ==
    /\ alive
    /\ link[c] = "open"
    /\ link' = [link EXCEPT ![c] = "fin"]
    /\ UNCHANGED <<alive, endpoint, backlog, session, sessions_, lines, taken,
                   written, failed, dangling>>

\* The client aborts, or answers what reaches its closed socket.
Reset(c) ==
    /\ alive
    /\ link[c] \in {"open", "fin"} /\ session[c] # "expired"
    /\ link' = [link EXCEPT ![c] = "rst"]
    /\ UNCHANGED <<alive, endpoint, backlog, session, sessions_, lines, taken,
                   written, failed, dangling>>

-----------------------------------------------------------------------------
(* tcp_server *)

\* socket::remote_endpoint() fails once the connection has been reset.
HasPeer(c) == link[c] # "rst"

\* accept() of a connection that is still there: insert keeps an entry that
\* exists, read() is started and the acceptor is armed again.
Accept ==
    /\ alive
    /\ backlog # <<>> /\ HasPeer(Head(backlog))
    /\ LET c == Head(backlog)
       IN  /\ sessions_' = IF sessions_[endpoint[c]] = 0
                           THEN [sessions_ EXCEPT ![endpoint[c]] = c]
                           ELSE sessions_
           /\ session' = [session EXCEPT ![c] = "reading"]
    /\ backlog' = Tail(backlog)
    /\ UNCHANGED <<alive, peers, taken, written, failed, dangling>>

\* remote_endpoint() throws out of the handler and ends the program.
AcceptThrows ==
    /\ alive
    /\ backlog # <<>> /\ ~HasPeer(Head(backlog))
    /\ alive' = FALSE
    /\ UNCHANGED <<peers, backlog, session, sessions_, taken, written, failed,
                   dangling>>

Lookup_ByAddress(ep) ==
    {sessions_[e] : e \in {f \in Endpoints : ep # NoEndpoint /\ f[1] = ep[1]}} \ {0}

\* sessions_.find(ep): the connections it yields, one or none.
Lookup(ep) == {sessions_[e] : e \in Endpoints \cap {ep}} \ {0}

Write_Once(message, ep) ==
    \/ /\ Lookup(ep) = {}
       /\ UNCHANGED <<sessions_, written, failed>>
    \/ \E c \in Lookup(ep) :
          /\ written' = [written EXCEPT ![c] = Append(@, message)]
          /\ sessions_' = [sessions_ EXCEPT ![ep] = 0]
          /\ UNCHANGED failed

\* tcp_server::write
Write(message, ep) ==
    \/ /\ Lookup(ep) = {}
       /\ UNCHANGED <<sessions_, written, failed>>
    \/ \E c \in Lookup(ep) :
          /\ session[c] # "expired" /\ HasPeer(c)
          /\ written' = [written EXCEPT ![c] = Append(@, message)]
          /\ UNCHANGED <<sessions_, failed>>
    \/ \E c \in Lookup(ep) :
          /\ session[c] # "expired" /\ ~HasPeer(c)
          /\ failed' = [failed EXCEPT ![c] = TRUE]
          /\ UNCHANGED <<sessions_, written>>
    \/ \E c \in Lookup(ep) :
          /\ session[c] = "expired"
          /\ sessions_' = [sessions_ EXCEPT ![ep] = 0]
          /\ UNCHANGED <<written, failed>>

-----------------------------------------------------------------------------
(* tcp_session *)

Line(c) == lines[c][taken[c] + 1]

\* The endpoint that the callbacks of read() are given.
Remote(c) == IF HasPeer(c) THEN endpoint[c] ELSE NoEndpoint

\* read() takes a whole line; what the callbacks do is the user's.
ReadLine(c) ==
    /\ alive
    /\ session[c] = "reading" /\ taken[c] < Len(lines[c])
    /\ taken' = [taken EXCEPT ![c] = @ + 1]
    /\ UNCHANGED <<alive, peers, backlog, session, dangling>>

\* disconnect() drops the session's only owner.
Disconnect(c, handlers_left) ==
    /\ session' = [session EXCEPT ![c] = "expired"]
    /\ dangling' = IF handlers_left THEN dangling \cup {c} ELSE dangling
    /\ UNCHANGED <<alive, peers, backlog, sessions_, taken, written, failed>>

\* The read ends with an error once there is no line left to take.
ReadError(c) ==
    /\ alive
    /\ session[c] = "reading" /\ taken[c] = Len(lines[c])
    /\ link[c] \in {"fin", "rst"}
    /\ Disconnect(c, failed[c])

\* The handler of a failed write; the pending read is cancelled.
WriteError(c) ==
    /\ alive
    /\ session[c] = "reading" /\ failed[c]
    /\ Disconnect(c, TRUE)

\* disconnect() called on a freed session.
StaleHandler(c) ==
    /\ alive
    /\ c \in dangling
    /\ dangling' = dangling \ {c}
    /\ alive' \in BOOLEAN
    /\ UNCHANGED <<peers, backlog, session, sessions_, taken, written, failed>>
=============================================================================
