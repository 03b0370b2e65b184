---------------------------- MODULE Manager_proof ----------------------------
(***************************************************************************)
(* Proofs about netsim_manager for every number of connections, every set  *)
(* of endpoints and every request.                                         *)
(*                                                                         *)
(* The four properties rest on what the map of sessions may hold: an entry *)
(* is that of a connection from its endpoint, and of two connections from  *)
(* one endpoint the earlier one is dead, so that a response which write()  *)
(* sends at all goes to the connection the request came from.              *)
(***************************************************************************)
EXTENDS Manager, SequenceTheorems, WellFoundedInduction, TLAPS

IsSeq(q) == \E S : q \in Seq(S)

Dead(c) == link[c] = "rst" \/ session[c] = "expired"

TcpTypes ==
    /\ endpoint \in [Conns -> Endpoints \cup {NoEndpoint}]
    /\ link \in [Conns -> {"none", "open", "fin", "rst"}]
    /\ session \in [Conns -> {"none", "reading", "expired"}]
    /\ sessions_ \in [Endpoints -> Nat]
    /\ taken \in [Conns -> Nat]
    /\ lines \in [Conns -> Seq(Lines)]
    /\ failed \in [Conns -> BOOLEAN]
    /\ DOMAIN written = Conns
    /\ \A c \in Conns : IsSeq(written[c])
    /\ backlog \in Seq(Conns)

\* Connections come in order, and one that has not come has done nothing.
Order ==
    \A c \in Conns :
        /\ link[c] # "none" => \A d \in 1..(c - 1) : link[d] # "none"
        /\ link[c] = "none" <=> endpoint[c] = NoEndpoint
        /\ link[c] = "none" => session[c] = "none"
        /\ session[c] = "none" => taken[c] = 0
        /\ taken[c] <= Len(lines[c])

\* A connection waits to be accepted at most once, and before it has a session.
Waiting ==
    /\ \A i \in 1..Len(backlog) : link[backlog[i]] # "none" /\ session[backlog[i]] = "none"
    /\ \A i, j \in 1..Len(backlog) : backlog[i] = backlog[j] => i = j

\* The kernel lets an endpoint connect again only when the earlier connection is
\* gone; a session ends only with its connection.
OneLive ==
    /\ \A c, d \in Conns : c < d /\ endpoint[c] = endpoint[d] /\ endpoint[c] # NoEndpoint
                             => Dead(c)
    /\ \A c \in Conns : /\ session[c] = "expired" => link[c] \in {"fin", "rst"}
                        /\ failed[c] => link[c] = "rst"

\* The entries of sessions_ are those of connections from their endpoint; the
\* first connection from an endpoint has its entry as long as it is open.
Entries ==
    /\ \A e \in Endpoints : sessions_[e] # 0 =>
          /\ sessions_[e] \in Conns
          /\ endpoint[sessions_[e]] = e
          /\ session[sessions_[e]] # "none"
    /\ \A c \in Conns : link[c] = "open" /\ session[c] = "reading" /\ Fresh(c)
          => sessions_[endpoint[c]] = c

TcpInv == TcpTypes /\ Order /\ Waiting /\ OneLive /\ Entries

\* What is in env_nav_update is of a line that has been read.
UpdatesRead ==
    /\ IsSeq(env_nav_update)
    /\ \A i \in 1..Len(env_nav_update) :
          LET u == env_nav_update[i]
          IN  u.conn \in Conns /\ u.request \in 1..taken[u.conn] /\ u.nav \in Nat

ManagerInv ==
    /\ TcpInv
    /\ RightConnection
    /\ AnsweredIfFresh
    /\ UpdatesRead
    /\ NavFromOwner
    /\ StatusTellsWhatWasApplied

-----------------------------------------------------------------------------
(* Connections *)

(* Connections are numbers.                                                *)
LEMMA ConnsAreNumbers == Conns \subseteq Nat \ {0}
BY TcpBoundsAssumption DEF Conns

(* Nothing is connected at the start.                                      *)
LEMMA InitTcp == TcpInit => TcpInv
<1> SUFFICES ASSUME TcpInit PROVE TcpInv
  OBVIOUS
<1>1. <<>> \in Seq(Lines) /\ <<>> \in Seq(Conns) /\ IsSeq(<<>>) /\ Len(<<>>) = 0
  BY DEF IsSeq
<1>2. TcpTypes
  BY <1>1 DEF TcpInit, TcpTypes
<1>3. Order
  BY <1>1 DEF TcpInit, Order
<1>4. Waiting
  BY <1>1 DEF TcpInit, Waiting
<1>5. OneLive /\ Entries
  BY DEF TcpInit, OneLive, Entries
<1> QED
  BY <1>2, <1>3, <1>4, <1>5 DEF TcpInv

(* A new connection comes after all others, and those from its endpoint    *)
(* are dead.                                                               *)
LEMMA ConnectTcp ==
    ASSUME TcpInv, NEW c \in Conns, NEW e \in Endpoints, Connect(c, e)
    PROVE  /\ TcpInv'
           /\ \A d \in Conns : link[d] # "none" => link'[d] = link[d] /\ endpoint'[d] = endpoint[d]
           /\ \A d \in Conns : link[d] # "none" => (Fresh(d)' <=> Fresh(d))
           /\ \A d \in Conns : link'[d] = "open" => link[d] = "open" \/ session[d] = "none"
<1>0. /\ link[c] = "none" /\ \A d \in 1..(c - 1) : link[d] # "none"
      /\ Free(e)
      /\ endpoint' = [endpoint EXCEPT ![c] = e]
      /\ link' = [link EXCEPT ![c] = "open"]
      /\ backlog' = Append(backlog, c)
      /\ UNCHANGED <<session, sessions_, lines, taken, written, failed>>
  BY DEF Connect
<1>1. TcpTypes /\ Order /\ Waiting /\ OneLive /\ Entries /\ c \in Nat
  BY ConnsAreNumbers DEF TcpInv
<1>2. /\ \A d \in Conns \ {c} : link'[d] = link[d] /\ endpoint'[d] = endpoint[d]
      /\ link'[c] = "open" /\ endpoint'[c] = e /\ e # NoEndpoint
      /\ session[c] = "none" /\ endpoint[c] = NoEndpoint
  BY <1>0, <1>1, EndpointsAssumption DEF TcpTypes, Order
<1>3. \A d \in Conns : link[d] # "none" => d # c /\ ~(c < d)
  <2> SUFFICES ASSUME NEW d \in Conns, link[d] # "none", c < d PROVE FALSE
    BY <1>0
  <2>1. c \in 1..(d - 1)
    BY ConnsAreNumbers
  <2> QED BY <1>0, <1>1, <2>1 DEF Order
<1>4. \A d \in Conns : link[d] # "none" => \A b \in 1..(d - 1) : b \in Conns /\ b # c
  BY <1>3, TcpBoundsAssumption DEF Conns
<1>5. \A d \in Conns : link[d] # "none" => (Fresh(d)' <=> Fresh(d))
  BY <1>2, <1>3, <1>4 DEF Fresh
<1>6. TcpTypes'
  <2>1. backlog' \in Seq(Conns)
    BY <1>0, <1>1 DEF TcpTypes
  <2> QED BY <1>0, <1>1, <2>1 DEF TcpTypes
<1>7. Order'
  <2> SUFFICES ASSUME NEW d \in Conns
               PROVE  /\ link'[d] # "none" => \A b \in 1..(d - 1) : link'[b] # "none"
                      /\ link'[d] = "none" <=> endpoint'[d] = NoEndpoint
                      /\ link'[d] = "none" => session[d] = "none"
                      /\ session[d] = "none" => taken[d] = 0
                      /\ taken[d] <= Len(lines[d])
    BY <1>0 DEF Order
  <2>1. CASE d = c
    <3>1. \A b \in 1..(c - 1) : b \in Conns \ {c}
      BY TcpBoundsAssumption DEF Conns
    <3> QED BY <1>0, <1>1, <1>2, <2>1, <3>1 DEF Order
  <2>2. CASE d # c
    BY <1>1, <1>2, <1>4, <2>2 DEF Order
  <2> QED BY <2>1, <2>2
<1>8. Waiting'
  <2>1. /\ backlog \in Seq(Conns) /\ Len(backlog) \in Nat /\ Len(backlog') = Len(backlog) + 1
        /\ \A i \in 1..Len(backlog) : backlog'[i] = backlog[i] /\ backlog[i] \in Conns
        /\ backlog'[Len(backlog) + 1] = c
    BY <1>0, <1>1 DEF TcpTypes
  <2>2. \A i \in 1..Len(backlog) : backlog[i] # c
    BY <1>0, <1>1 DEF Waiting
  <2>3. \A i \in 1..Len(backlog') : i \in 1..Len(backlog) \/ i = Len(backlog) + 1
    BY <2>1
  <2>4. \A i \in 1..Len(backlog') : link'[backlog'[i]] # "none" /\ session'[backlog'[i]] = "none"
    BY <1>0, <1>1, <1>2, <2>1, <2>2, <2>3 DEF Waiting
  <2>5. \A i, j \in 1..Len(backlog') : backlog'[i] = backlog'[j] => i = j
    BY <1>1, <2>1, <2>2, <2>3 DEF Waiting
  <2> QED BY <2>4, <2>5 DEF Waiting
<1>9. OneLive'
  <2>1. ASSUME NEW a \in Conns, NEW b \in Conns, a < b, endpoint'[a] = endpoint'[b],
               endpoint'[a] # NoEndpoint
        PROVE  link'[a] = "rst" \/ session'[a] = "expired"
    <3>1. CASE b = c
      <4>1. a # c /\ a \in Conns /\ endpoint[a] = e
        BY <1>2, <2>1, <3>1, ConnsAreNumbers
      <4> QED BY <1>0, <1>2, <4>1 DEF Free
    <3>2. CASE b # c
      <4>1. endpoint[b] # NoEndpoint /\ link[b] # "none"
        BY <1>1, <1>2, <2>1, <3>2 DEF Order
      <4>2. a # c
        BY <1>3, <2>1, <4>1
      <4> QED BY <1>0, <1>1, <1>2, <2>1, <3>2, <4>2 DEF OneLive, Dead
    <3> QED BY <3>1, <3>2
  <2>2. \A d \in Conns : /\ session'[d] = "expired" => link'[d] \in {"fin", "rst"}
                         /\ failed'[d] => link'[d] = "rst"
    <3>1. \A d \in Conns : /\ session[d] = "expired" => link[d] \in {"fin", "rst"}
                           /\ failed[d] => link[d] = "rst"
      BY <1>1 DEF OneLive
    <3>2. \A d \in Conns : link[d] \in {"fin", "rst"} => link'[d] = link[d]
      BY <1>0, <1>2
    <3>3. session' = session /\ failed' = failed
      BY <1>0
    <3> QED BY <3>1, <3>2, <3>3, Zenon
  <2> QED BY <2>1, <2>2 DEF OneLive, Dead
<1>10. Entries'
  <2>1. ASSUME NEW x \in Endpoints, sessions_[x] # 0
        PROVE  /\ sessions_[x] \in Conns
               /\ endpoint'[sessions_[x]] = x
               /\ session[sessions_[x]] # "none"
    BY <1>1, <1>2, <2>1 DEF Entries
  <2>2. ASSUME NEW d \in Conns, link'[d] = "open", session[d] = "reading", Fresh(d)'
        PROVE  sessions_[endpoint'[d]] = d
    <3>1. d # c /\ link[d] = "open" /\ endpoint'[d] = endpoint[d] /\ Fresh(d)
      BY <1>2, <1>5, <2>2
    <3> QED BY <1>1, <2>2, <3>1 DEF Entries
  <2> QED BY <1>0, <2>1, <2>2 DEF Entries
<1> QED
  BY <1>2, <1>3, <1>5, <1>6, <1>7, <1>8, <1>9, <1>10 DEF TcpInv

(* A line that is sent, a connection that is closed or reset.              *)
LEMMA PeersTcp ==
    ASSUME TcpInv, NEW c \in Conns, Close(c) \/ Reset(c) \/ \E l \in Lines : Send(c, l)
    PROVE  TcpInv'
<1>0. /\ UNCHANGED <<endpoint, backlog, session, sessions_, taken, written, failed>>
      /\ link[c] # "none"
      /\ \/ link' = [link EXCEPT ![c] = "fin"] /\ link[c] = "open" /\ lines' = lines
         \/ link' = [link EXCEPT ![c] = "rst"] /\ lines' = lines
         \/ link' = link /\ \E l \in Lines : lines' = [lines EXCEPT ![c] = Append(@, l)]
  BY DEF Close, Reset, Send
<1>1. TcpTypes /\ Order /\ Waiting /\ OneLive /\ Entries
  BY DEF TcpInv
<1>2. /\ \A d \in Conns \ {c} : link'[d] = link[d] /\ lines'[d] = lines[d]
      /\ link'[c] = link[c] \/ link'[c] = "rst" \/ (link'[c] = "fin" /\ link[c] = "open")
      /\ link' \in [Conns -> {"none", "open", "fin", "rst"}]
  BY <1>0, <1>1 DEF TcpTypes
<1>3. /\ lines' \in [Conns -> Seq(Lines)]
      /\ \A d \in Conns : /\ Len(lines'[d]) >= Len(lines[d])
                          /\ Len(lines[d]) \in Nat
  <2>1. \A d \in Conns : Len(lines[d]) \in Nat
    BY <1>1 DEF TcpTypes
  <2>2. CASE lines' = lines
    BY <1>1, <2>1, <2>2 DEF TcpTypes
  <2>3. ASSUME NEW l \in Lines, lines' = [lines EXCEPT ![c] = Append(@, l)]
        PROVE  lines' \in [Conns -> Seq(Lines)] /\ \A d \in Conns : Len(lines'[d]) >= Len(lines[d])
    <3>1. lines[c] \in Seq(Lines) /\ Append(lines[c], l) \in Seq(Lines)
          /\ Len(Append(lines[c], l)) = Len(lines[c]) + 1
      BY <1>1 DEF TcpTypes
    <3>2. \A d \in Conns : lines'[d] = IF d = c THEN Append(lines[c], l) ELSE lines[d]
      BY <1>1, <2>3 DEF TcpTypes
    <3>3. DOMAIN lines' = Conns /\ lines' = [d \in Conns |-> lines'[d]]
      BY <1>1, <2>3 DEF TcpTypes
    <3>4. \A d \in Conns : lines'[d] \in Seq(Lines)
      BY <1>1, <3>1, <3>2 DEF TcpTypes
    <3> QED BY <2>1, <3>1, <3>2, <3>3, <3>4
  <2> QED BY <1>0, <2>1, <2>2, <2>3
<1>4. TcpTypes'
  BY <1>0, <1>1, <1>2, <1>3 DEF TcpTypes
<1>5. \A d \in Conns : link'[d] = "none" <=> link[d] = "none"
  BY <1>0, <1>2
<1>6. Order'
  <2>1. \A d \in Conns : \A b \in 1..(d - 1) : b \in Conns
    BY TcpBoundsAssumption DEF Conns
  <2>2. \A d \in Conns : taken[d] \in Nat /\ taken[d] <= Len(lines'[d])
    BY <1>1, <1>3 DEF TcpTypes, Order
  <2> QED BY <1>0, <1>1, <1>5, <2>1, <2>2 DEF Order
<1>7. Waiting'
  <2>1. \A i \in 1..Len(backlog) : backlog[i] \in Conns
    BY <1>1 DEF TcpTypes
  <2> QED BY <1>0, <1>1, <1>5, <2>1 DEF Waiting
<1>8. OneLive'
  <2>1. \A d \in Conns : Dead(d) => link'[d] = "rst" \/ session[d] = "expired"
    BY <1>0, <1>2 DEF Dead
  <2>2. \A d \in Conns : /\ session[d] = "expired" => link'[d] \in {"fin", "rst"}
                         /\ failed[d] => link'[d] = "rst"
    <3>1. \A d \in Conns : /\ session[d] = "expired" => link[d] \in {"fin", "rst"}
                           /\ failed[d] => link[d] = "rst"
      BY <1>1 DEF OneLive
    <3>2. \A d \in Conns : /\ link[d] \in {"fin", "rst"} => link'[d] \in {"fin", "rst"}
                           /\ link[d] = "rst" => link'[d] = "rst"
      BY <1>0, <1>2
    <3> QED BY <3>1, <3>2, Zenon
  <2> QED BY <1>0, <1>1, <2>1, <2>2 DEF OneLive, Dead
<1>9. Entries'
  <2>1. \A d \in Conns : link'[d] = "open" => link[d] = "open"
    BY <1>0, <1>2
  <2> QED BY <1>0, <1>1, <2>1 DEF Entries, Fresh
<1> QED
  BY <1>4, <1>6, <1>7, <1>8, <1>9 DEF TcpInv

(* A session that is accepted gets the entry of its endpoint, unless an    *)
(* earlier connection from there has left one: then it is not the first.   *)
LEMMA AcceptTcp ==
    ASSUME TcpInv, Accept
    PROVE  TcpInv'
<1> DEFINE c == Head(backlog)
<1>1. TcpTypes /\ Order /\ Waiting /\ OneLive /\ Entries
  BY DEF TcpInv
<1>2. /\ backlog # <<>> /\ HasPeer(c)
      /\ sessions_' = IF sessions_[endpoint[c]] = 0
                      THEN [sessions_ EXCEPT ![endpoint[c]] = c] ELSE sessions_
      /\ session' = [session EXCEPT ![c] = "reading"]
      /\ backlog' = Tail(backlog)
      /\ UNCHANGED <<endpoint, link, lines, taken, written, failed>>
  BY DEF Accept, peers
<1>3. /\ backlog \in Seq(Conns) /\ Len(backlog) \in Nat \ {0}
      /\ c = backlog[1] /\ 1 \in 1..Len(backlog) /\ c \in Conns
      /\ backlog' \in Seq(Conns) /\ Len(backlog') = Len(backlog) - 1
      /\ \A i \in 1..Len(backlog') : /\ backlog'[i] = backlog[i + 1]
                                     /\ i + 1 \in 1..Len(backlog)
                                     /\ backlog[i + 1] \in Conns
  BY <1>1, <1>2 DEF TcpTypes
<1>4. /\ session[c] = "none" /\ link[c] # "none" /\ link[c] # "rst"
      /\ endpoint[c] \in Endpoints /\ c \in Nat \ {0}
  <2> HIDE DEF c
  <2>1. link[backlog[1]] # "none" /\ session[backlog[1]] = "none"
    BY <1>1, <1>3 DEF Waiting
  <2>2. link[c] # "rst"
    BY <1>2 DEF HasPeer
  <2>3. endpoint[c] # NoEndpoint
    BY <1>1, <1>3, <2>1 DEF Order
  <2>4. endpoint[c] \in Endpoints
    BY <1>1, <1>3, <2>3 DEF TcpTypes
  <2> QED BY <1>3, <2>1, <2>2, <2>4, ConnsAreNumbers
<1> HIDE DEF c
<1>5. /\ session'[c] = "reading"
      /\ \A d \in Conns \ {c} : session'[d] = session[d]
      /\ \A e \in Endpoints : \/ sessions_'[e] = sessions_[e]
                              \/ e = endpoint[c] /\ sessions_[e] = 0 /\ sessions_'[e] = c
      /\ sessions_[endpoint[c]] = 0 => sessions_'[endpoint[c]] = c
      /\ sessions_[endpoint[c]] # 0 => sessions_' = sessions_
  BY <1>1, <1>2, <1>3, <1>4 DEF TcpTypes
<1>6. TcpTypes'
  BY <1>1, <1>2, <1>3, <1>4 DEF TcpTypes
<1>7. Order'
  BY <1>1, <1>2, <1>4, <1>5 DEF Order
<1>8. Waiting'
  <2>1. \A i \in 1..Len(backlog') : i \in Nat /\ backlog'[i] # c
    <3> SUFFICES ASSUME NEW i \in 1..Len(backlog') PROVE i \in Nat /\ backlog'[i] # c
      OBVIOUS
    <3>1. i + 1 # 1 /\ i \in Nat
      OBVIOUS
    <3> QED BY <1>1, <1>3, <3>1 DEF Waiting
  <2>2. \A i \in 1..Len(backlog') : link'[backlog'[i]] # "none" /\ session'[backlog'[i]] = "none"
    BY <1>1, <1>2, <1>3, <1>5, <2>1 DEF Waiting
  <2>3. \A i, j \in 1..Len(backlog') : backlog'[i] = backlog'[j] => i = j
    <3> SUFFICES ASSUME NEW i \in 1..Len(backlog'), NEW j \in 1..Len(backlog'),
                        backlog'[i] = backlog'[j]
                 PROVE  i = j
      OBVIOUS
    <3>1. /\ i + 1 \in 1..Len(backlog) /\ j + 1 \in 1..Len(backlog)
          /\ backlog[i + 1] = backlog[j + 1]
      BY <1>3
    <3>2. \A a, b \in 1..Len(backlog) : backlog[a] = backlog[b] => a = b
      BY <1>1 DEF Waiting
    <3>3. i + 1 = j + 1
      BY <3>1, <3>2
    <3> QED BY <2>1, <3>3
  <2> QED BY <2>2, <2>3 DEF Waiting
<1>9. OneLive'
  <2>1. \A d \in Conns : Dead(d) => link'[d] = "rst" \/ session'[d] = "expired"
    BY <1>2, <1>4, <1>5 DEF Dead
  <2>2. \A d \in Conns : session'[d] = "expired" => link'[d] \in {"fin", "rst"}
    BY <1>1, <1>2, <1>5 DEF OneLive
  <2>3. \A d \in Conns : failed'[d] => link'[d] = "rst"
    BY <1>1, <1>2, Zenon DEF OneLive
  <2> QED BY <1>1, <1>2, <2>1, <2>2, <2>3 DEF OneLive, Dead
<1>10. Entries'
  <2>1. ASSUME NEW x \in Endpoints, sessions_'[x] # 0
        PROVE  /\ sessions_'[x] \in Conns
               /\ endpoint[sessions_'[x]] = x
               /\ session'[sessions_'[x]] # "none"
    <3>1. CASE sessions_'[x] = sessions_[x]
      BY <1>1, <1>5, <2>1, <3>1 DEF Entries
    <3>2. CASE x = endpoint[c] /\ sessions_'[x] = c
      BY <1>3, <1>5, <3>2
    <3> QED BY <1>5, <3>1, <3>2
  <2>2. ASSUME NEW d \in Conns, link[d] = "open", session'[d] = "reading", Fresh(d)
        PROVE  sessions_'[endpoint[d]] = d
    <3>1. CASE d # c
      <4>1. sessions_[endpoint[d]] = d /\ d # 0 /\ endpoint[d] \in Endpoints
        BY <1>1, <1>5, <2>2, <3>1, ConnsAreNumbers DEF Entries, Order, TcpTypes
      <4> QED BY <1>5, <4>1
    <3>2. CASE d = c /\ sessions_[endpoint[c]] # 0
      <4>1. PICK b \in Conns : b = sessions_[endpoint[c]] /\ endpoint[b] = endpoint[c]
                               /\ session[b] # "none"
        BY <1>1, <1>4, <3>2 DEF Entries
      <4>2. b # c /\ b \in Nat \ {0}
        BY <1>4, <4>1, ConnsAreNumbers
      <4>3. ~(b < c)
        <5> SUFFICES ASSUME b < c PROVE FALSE
          OBVIOUS
        <5>1. b \in 1..(c - 1)
          BY <1>4, <4>2
        <5> QED BY <2>2, <3>2, <4>1, <5>1 DEF Fresh
      <4>4. c < b
        BY <1>4, <4>2, <4>3
      <4>5. endpoint[c] # NoEndpoint
        BY <1>4, EndpointsAssumption
      <4>6. Dead(c)
        BY <1>1, <1>3, <4>1, <4>4, <4>5 DEF OneLive
      <4> QED BY <1>4, <4>6 DEF Dead
    <3>3. CASE d = c /\ sessions_[endpoint[c]] = 0
      BY <1>5, <3>3
    <3> QED BY <3>1, <3>2, <3>3
  <2>3. \A d \in Conns : Fresh(d)' <=> Fresh(d)
    BY <1>2 DEF Fresh
  <2> QED BY <1>2, <2>1, <2>2, <2>3 DEF Entries
<1> QED
  BY <1>6, <1>7, <1>8, <1>9, <1>10 DEF TcpInv

(* A session ends only when its connection has.                            *)
LEMMA DisconnectTcp ==
    ASSUME TcpInv, NEW c \in Conns, ReadError(c) \/ WriteError(c)
    PROVE  TcpInv'
<1>1. TcpTypes /\ Order /\ Waiting /\ OneLive /\ Entries
  BY DEF TcpInv
<1>2. /\ session[c] = "reading"
      /\ link[c] \in {"fin", "rst"} \/ failed[c]
      /\ session' = [session EXCEPT ![c] = "expired"]
      /\ UNCHANGED <<endpoint, link, lines, backlog, sessions_, taken, written, failed>>
  BY Zenon DEF ReadError, WriteError, Disconnect, peers
<1>3. link[c] \in {"fin", "rst"}
  <2>1. failed[c] => link[c] = "rst"
    BY <1>1, Zenon DEF OneLive
  <2>2. link[c] = "rst" => link[c] \in {"fin", "rst"}
    OBVIOUS
  <2> QED BY <1>2, <2>1, <2>2, Zenon
<1>4. /\ session'[c] = "expired" /\ \A d \in Conns \ {c} : session'[d] = session[d]
      /\ session' \in [Conns -> {"none", "reading", "expired"}]
  BY <1>1, <1>2 DEF TcpTypes
<1>5. TcpTypes'
  BY <1>1, <1>2, <1>4 DEF TcpTypes
<1>6. Order'
  BY <1>1, <1>2, <1>3, <1>4 DEF Order
<1>7. Waiting'
  <2>1. \A i \in 1..Len(backlog) : backlog[i] \in Conns
    BY <1>1 DEF TcpTypes
  <2> QED BY <1>1, <1>2, <1>4, <2>1 DEF Waiting
<1>8. OneLive'
  <2>1. \A d \in Conns : Dead(d) => link'[d] = "rst" \/ session'[d] = "expired"
    BY <1>2, <1>4 DEF Dead
  <2>2. \A d \in Conns : session'[d] = "expired" => link'[d] \in {"fin", "rst"}
    BY <1>1, <1>2, <1>3, <1>4 DEF OneLive
  <2>3. \A d \in Conns : failed'[d] => link'[d] = "rst"
    BY <1>1, <1>2, Zenon DEF OneLive
  <2> QED BY <1>1, <1>2, <2>1, <2>2, <2>3 DEF OneLive, Dead
<1>9. Entries'
  <2>1. \A d \in Conns : session'[d] = "reading" => session[d] = "reading"
    BY <1>4
  <2>2. \A d \in Conns : session[d] # "none" => session'[d] # "none"
    BY <1>4
  <2> QED BY <1>1, <1>2, <2>1, <2>2 DEF Entries, Fresh
<1> QED
  BY <1>5, <1>6, <1>7, <1>8, <1>9 DEF TcpInv

(* write() to the endpoint a line came from sends on the connection of     *)
(* that line or not at all; it does send on the first connection from an   *)
(* endpoint while that is open.  What it erases is the entry of an expired *)
(* session, and only a write to a connection that was reset fails.         *)
LEMMA WriteToSender ==
    ASSUME TcpInv, NEW c \in Conns, session[c] = "reading", NEW m, Write(m, Remote(c))
    PROVE  /\ \/ written' = written
              \/ written' = [written EXCEPT ![c] = Append(@, m)]
           /\ link[c] = "open" /\ Fresh(c) =>
                 written' = [written EXCEPT ![c] = Append(@, m)]
           /\ sessions_' \in [Endpoints -> Nat]
           /\ \A e \in Endpoints :
                 \/ sessions_'[e] = sessions_[e]
                 \/ /\ sessions_'[e] = 0
                    /\ sessions_[e] \in Conns /\ session[sessions_[e]] = "expired"
           /\ failed' \in [Conns -> BOOLEAN]
           /\ \A d \in Conns : failed'[d] = failed[d] \/ link[d] = "rst"
<1> DEFINE ep == Remote(c)
<1>1. TcpTypes /\ Order /\ Waiting /\ OneLive /\ Entries
  BY DEF TcpInv
<1>2. endpoint[c] \in Endpoints /\ endpoint[c] # NoEndpoint
  BY <1>1, EndpointsAssumption DEF TcpTypes, Order
<1>3. ep = NoEndpoint \/ (ep = endpoint[c] /\ link[c] # "rst")
  BY DEF Remote, HasPeer
<1>4. \A d \in Lookup(ep) : /\ ep \in Endpoints /\ d = sessions_[ep] /\ d # 0
                           /\ d \in Conns /\ endpoint[d] = ep
  BY <1>1 DEF Lookup, Entries
<1>5. \A d \in Lookup(ep) : ep = endpoint[c] /\ link[c] # "rst"
  BY <1>3, <1>4, EndpointsAssumption
<1>6. \A d \in Lookup(ep) : d = c \/ Dead(d)
  <2> SUFFICES ASSUME NEW d \in Lookup(ep), d # c PROVE Dead(d)
    OBVIOUS
  <2>1. d \in Conns /\ d \in Nat /\ c \in Nat /\ endpoint[d] = endpoint[c]
    BY <1>4, <1>5, ConnsAreNumbers
  <2>2. ~Dead(c)
    BY <1>5 DEF Dead
  <2>3. d < c
    BY <1>1, <1>2, <2>1, <2>2 DEF OneLive
  <2> QED BY <1>1, <1>2, <2>1, <2>3 DEF OneLive
<1>7. link[c] = "open" /\ Fresh(c) => Lookup(ep) = {c}
  <2> SUFFICES ASSUME link[c] = "open", Fresh(c) PROVE Lookup(ep) = {c}
    OBVIOUS
  <2>1. sessions_[endpoint[c]] = c /\ c # 0
    BY <1>1, ConnsAreNumbers DEF Entries
  <2>2. ep = endpoint[c]
    BY DEF Remote, HasPeer
  <2> QED BY <1>2, <2>1, <2>2 DEF Lookup
<1> HIDE DEF ep
<1>8. Write(m, ep)
  BY DEF ep
<1>9. sessions_ \in [Endpoints -> Nat] /\ failed \in [Conns -> BOOLEAN]
  BY <1>1 DEF TcpTypes
<1>10. CASE Lookup(ep) = {} /\ UNCHANGED <<sessions_, written, failed>>
  BY <1>7, <1>9, <1>10
<1>11. ASSUME NEW d \in Lookup(ep), session[d] # "expired", HasPeer(d),
              written' = [written EXCEPT ![d] = Append(@, m)],
              UNCHANGED <<sessions_, failed>>
       PROVE  d = c
  BY <1>6, <1>11 DEF Dead, HasPeer
<1>12. ASSUME NEW d \in Lookup(ep), session[d] # "expired", ~HasPeer(d),
              failed' = [failed EXCEPT ![d] = TRUE],
              UNCHANGED <<sessions_, written>>
       PROVE  /\ link[d] = "rst" /\ d \in Conns
              /\ ~(link[c] = "open" /\ Fresh(c))
              /\ failed' \in [Conns -> BOOLEAN]
              /\ \A b \in Conns : failed'[b] = failed[b] \/ link[b] = "rst"
  <2>1. link[d] = "rst" /\ d \in Conns
    BY <1>4, <1>12 DEF HasPeer
  <2>2. ~(link[c] = "open" /\ Fresh(c))
    BY <1>7, <2>1
  <2>3. failed' \in [Conns -> BOOLEAN]
    BY <1>9, <1>12
  <2>4. \A b \in Conns : failed'[b] = failed[b] \/ link[b] = "rst"
    BY <1>9, <1>12, <2>1
  <2> QED BY <2>1, <2>2, <2>3, <2>4
<1>13. ASSUME NEW d \in Lookup(ep), session[d] = "expired",
              sessions_' = [sessions_ EXCEPT ![ep] = 0],
              UNCHANGED <<written, failed>>
       PROVE  /\ ~(link[c] = "open" /\ Fresh(c))
              /\ sessions_' \in [Endpoints -> Nat]
              /\ \A e \in Endpoints :
                    \/ sessions_'[e] = sessions_[e]
                    \/ /\ sessions_'[e] = 0
                       /\ sessions_[e] \in Conns /\ session[sessions_[e]] = "expired"
  <2>1. ~(link[c] = "open" /\ Fresh(c))
    BY <1>7, <1>13
  <2>2. sessions_' \in [Endpoints -> Nat]
    BY <1>9, <1>13
  <2>3. sessions_[ep] = d /\ d \in Conns
    BY <1>4, <1>13
  <2> QED BY <1>9, <1>13, <2>1, <2>2, <2>3
<1>14. \/ Lookup(ep) = {} /\ UNCHANGED <<sessions_, written, failed>>
       \/ \E d \in Lookup(ep) : /\ session[d] # "expired" /\ HasPeer(d)
                                /\ written' = [written EXCEPT ![d] = Append(@, m)]
                                /\ UNCHANGED <<sessions_, failed>>
       \/ \E d \in Lookup(ep) : /\ session[d] # "expired" /\ ~HasPeer(d)
                                /\ failed' = [failed EXCEPT ![d] = TRUE]
                                /\ UNCHANGED <<sessions_, written>>
       \/ \E d \in Lookup(ep) : /\ session[d] = "expired"
                                /\ sessions_' = [sessions_ EXCEPT ![ep] = 0]
                                /\ UNCHANGED <<written, failed>>
  BY <1>8, Zenon DEF Write
<1>15. CASE \E d \in Lookup(ep) : /\ session[d] # "expired" /\ HasPeer(d)
                                  /\ written' = [written EXCEPT ![d] = Append(@, m)]
                                  /\ UNCHANGED <<sessions_, failed>>
  <2>1. written' = [written EXCEPT ![c] = Append(@, m)] /\ UNCHANGED <<sessions_, failed>>
    BY <1>11, <1>15
  <2> QED BY <1>9, <2>1
<1>16. CASE \E d \in Lookup(ep) : /\ session[d] # "expired" /\ ~HasPeer(d)
                                  /\ failed' = [failed EXCEPT ![d] = TRUE]
                                  /\ UNCHANGED <<sessions_, written>>
  <2>1. PICK d \in Lookup(ep) : /\ session[d] # "expired" /\ ~HasPeer(d)
                                /\ failed' = [failed EXCEPT ![d] = TRUE]
                                /\ UNCHANGED <<sessions_, written>>
    BY <1>16
  <2>2. /\ ~(link[c] = "open" /\ Fresh(c))
        /\ failed' \in [Conns -> BOOLEAN]
        /\ \A b \in Conns : failed'[b] = failed[b] \/ link[b] = "rst"
    BY <1>12, <2>1
  <2> QED BY <1>9, <2>1, <2>2
<1>17. CASE \E d \in Lookup(ep) : /\ session[d] = "expired"
                                  /\ sessions_' = [sessions_ EXCEPT ![ep] = 0]
                                  /\ UNCHANGED <<written, failed>>
  <2>1. PICK d \in Lookup(ep) : /\ session[d] = "expired"
                                /\ sessions_' = [sessions_ EXCEPT ![ep] = 0]
                                /\ UNCHANGED <<written, failed>>
    BY <1>17
  <2>2. /\ ~(link[c] = "open" /\ Fresh(c))
        /\ sessions_' \in [Endpoints -> Nat]
        /\ \A e \in Endpoints :
              \/ sessions_'[e] = sessions_[e]
              \/ /\ sessions_'[e] = 0
                 /\ sessions_[e] \in Conns /\ session[sessions_[e]] = "expired"
    BY <1>13, <2>1
  <2> QED BY <1>9, <2>1, <2>2
<1> QED
  BY <1>10, <1>14, <1>15, <1>16, <1>17

(* What a response does to the sequence it is appended to.                 *)
LEMMA Appended ==
    ASSUME NEW q, IsSeq(q), NEW m
    PROVE  /\ Len(q) \in Nat /\ IsSeq(Append(q, m)) /\ Len(Append(q, m)) = Len(q) + 1
           /\ \A i \in 1..Len(q) : Append(q, m)[i] = q[i]
           /\ Append(q, m)[Len(q) + 1] = m
<1>1. PICK S : q \in Seq(S)
  BY DEF IsSeq
<1>2. q \in Seq(S \cup {m}) /\ m \in S \cup {m}
  BY <1>1
<1>3. Append(q, m) \in Seq(S \cup {m})
  BY <1>2
<1>4. IsSeq(Append(q, m))
  BY <1>3, Zenon DEF IsSeq
<1> QED BY <1>2, <1>4

(* A line is taken from a connection, and perhaps answered.                *)
LEMMA ReadTcp ==
    ASSUME TcpInv, NEW c \in Conns, ReadLine(c), NEW m,
           \/ Write(m, Remote(c))
           \/ UNCHANGED <<sessions_, written, failed>>
    PROVE  /\ TcpInv'
           /\ taken'[c] = taken[c] + 1 /\ taken[c] + 1 \in 1..Len(lines[c])
           /\ \A d \in Conns \ {c} : taken'[d] = taken[d] /\ written'[d] = written[d]
           /\ \/ written' = written
              \/ written' = [written EXCEPT ![c] = Append(@, m)]
           /\ UNCHANGED <<alive, endpoint, link, lines>>
           /\ \A d \in Conns : Fresh(d)' <=> Fresh(d)
<1>1. TcpTypes /\ Order /\ Waiting /\ OneLive /\ Entries
  BY DEF TcpInv
<1>2. /\ session[c] = "reading" /\ taken[c] < Len(lines[c])
      /\ taken' = [taken EXCEPT ![c] = @ + 1]
      /\ UNCHANGED <<alive, endpoint, link, lines, backlog, session>>
  BY DEF ReadLine, peers
<1>3. /\ taken' \in [Conns -> Nat] /\ taken'[c] = taken[c] + 1
      /\ taken[c] + 1 \in 1..Len(lines[c])
      /\ \A d \in Conns \ {c} : taken'[d] = taken[d]
  <2>1. taken \in [Conns -> Nat] /\ Len(lines[c]) \in Nat /\ taken[c] \in Nat
    BY <1>1 DEF TcpTypes
  <2> QED BY <1>2, <2>1
<1>4. /\ \/ written' = written
         \/ written' = [written EXCEPT ![c] = Append(@, m)]
      /\ sessions_' \in [Endpoints -> Nat]
      /\ \A e \in Endpoints :
            \/ sessions_'[e] = sessions_[e]
            \/ /\ sessions_'[e] = 0
               /\ sessions_[e] \in Conns /\ session[sessions_[e]] = "expired"
      /\ failed' \in [Conns -> BOOLEAN]
      /\ \A d \in Conns : failed'[d] = failed[d] \/ link[d] = "rst"
  <2>1. CASE Write(m, Remote(c))
    BY <1>2, <2>1, WriteToSender, Zenon
  <2>2. CASE UNCHANGED <<sessions_, written, failed>>
    BY <1>1, <2>2 DEF TcpTypes
  <2> QED BY <2>1, <2>2
<1>5. /\ DOMAIN written' = Conns
      /\ \A d \in Conns \ {c} : written'[d] = written[d]
      /\ \A d \in Conns : IsSeq(written'[d])
  <2>1. DOMAIN written = Conns /\ \A d \in Conns : IsSeq(written[d])
    BY <1>1 DEF TcpTypes
  <2>2. CASE written' = written
    BY <2>1, <2>2
  <2>3. CASE written' = [written EXCEPT ![c] = Append(@, m)]
    <3>1. IsSeq(Append(written[c], m))
      BY <2>1, Appended
    <3>2. /\ written'[c] = Append(written[c], m) /\ DOMAIN written' = Conns
          /\ \A d \in Conns \ {c} : written'[d] = written[d]
      BY <2>1, <2>3
    <3> QED BY <2>1, <3>1, <3>2
  <2> QED BY <1>4, <2>2, <2>3
<1>6. TcpTypes'
  BY <1>1, <1>2, <1>3, <1>4, <1>5 DEF TcpTypes
<1>7. Order'
  <2>1. \A d \in Conns : taken[d] <= Len(lines[d])
    BY <1>1 DEF Order
  <2>2. \A d \in Conns : taken'[d] <= Len(lines'[d])
    BY <1>2, <1>3, <2>1
  <2>3. \A d \in Conns : session'[d] = "none" => taken'[d] = 0
    BY <1>1, <1>2, <1>3 DEF Order
  <2> QED BY <1>1, <1>2, <2>2, <2>3 DEF Order
<1>8. Waiting'
  BY <1>1, <1>2 DEF Waiting
<1>9. OneLive'
  <2>1. \A d \in Conns : failed'[d] => link'[d] = "rst"
    <3>1. \A d \in Conns : failed[d] => link[d] = "rst"
      BY <1>1, Zenon DEF OneLive
    <3>2. link' = link
      BY <1>2
    <3> QED BY <1>4, <3>1, <3>2, Zenon
  <2>2. \A d \in Conns : session'[d] = "expired" => link'[d] \in {"fin", "rst"}
    BY <1>1, <1>2 DEF OneLive
  <2> QED BY <1>1, <1>2, <2>1, <2>2 DEF OneLive, Dead
<1>10. \A d \in Conns : Fresh(d)' <=> Fresh(d)
  BY <1>2 DEF Fresh
<1>11. Entries'
  <2>1. \A d \in Conns : link[d] = "open" /\ session[d] = "reading" /\ Fresh(d)
                           => sessions_'[endpoint[d]] = d
    <3> SUFFICES ASSUME NEW d \in Conns, link[d] = "open", session[d] = "reading", Fresh(d)
                 PROVE  sessions_'[endpoint[d]] = d
      OBVIOUS
    <3>1. sessions_[endpoint[d]] = d /\ endpoint[d] \in Endpoints
      BY <1>1 DEF Entries, Order, TcpTypes
    <3> QED BY <1>4, <3>1
  <2>2. \A e \in Endpoints : sessions_'[e] # 0 => sessions_'[e] = sessions_[e]
    BY <1>4
  <2> QED BY <1>1, <1>2, <1>10, <2>1, <2>2 DEF Entries
<1> QED
  BY <1>2, <1>3, <1>4, <1>5, <1>6, <1>7, <1>8, <1>9, <1>10, <1>11 DEF TcpInv

-----------------------------------------------------------------------------
(* Responses and positions *)

\* A step that takes no request: what has been read, answered and published
\* stays, and so do the connections it came from.
Quiet ==
    /\ UNCHANGED <<written, env_nav_update, env_cfg_, env_bounds_>>
    /\ \A d \in Conns : taken'[d] \in Nat /\ taken[d] <= taken'[d]
    /\ \A d \in Conns : Requests(d)' = Requests(d)
    /\ \A d \in Conns : \A k \in 1..taken[d] : lines'[d][k] = lines[d][k]
    /\ \A d \in Conns : session[d] # "none" => endpoint'[d] = endpoint[d]
    /\ alive' => alive
    /\ \A d \in Conns : link'[d] = "open" /\ session[d] # "none" /\ Fresh(d)'
                          => link[d] = "open" /\ Fresh(d)

\* NavFromOwner of one update and of two.
Owned(u, line, read, ep, cfg, bounds) ==
    LET nav == line.nav[u.nav]
    IN  /\ u.request <= read
        /\ nav.complete
        /\ nav.port = u.port
        /\ cfg[u.port].address = ep[1]
        /\ u.environment = cfg[u.port].environment
        /\ bounds[u.environment].min <= nav.position
        /\ nav.position <= bounds[u.environment].max

Before(u, v) ==
    u.conn = v.conn =>
        \/ u.request < v.request
        \/ u.request = v.request /\ u.nav < v.nav

\* Tells, of a configuration given.
ReasonIn(status, nav, from, cfg, bounds) ==
    \/ status = BadPort /\ nav.port \notin DOMAIN cfg
    \/ /\ nav.port \in DOMAIN cfg
       /\ \/ status = BadSource /\ cfg[nav.port].address # from[1]
          \/ /\ status \in {BadRegion, Ok}
             /\ cfg[nav.port].address = from[1]
             /\ status = Ok <=>
                  /\ bounds[cfg[nav.port].environment].min <= nav.position
                  /\ nav.position <= bounds[cfg[nav.port].environment].max

TellsIn(status, published, navs, from, cfg, bounds) ==
    \E bad \in 1..(Len(navs) + 1) :
        /\ \A n \in 1..(bad - 1) : ReasonIn(Ok, navs[n], from, cfg, bounds)
        /\ published = {n \in 1..(bad - 1) : navs[n].complete}
        /\ IF bad > Len(navs) THEN status = Ok
           ELSE status # Ok /\ ReasonIn(status, navs[bad], from, cfg, bounds)

StatusIn ==
    \A c \in Conns : \A i \in 1..Len(written[c]) :
        TellsIn(written[c][i].status, Published(env_nav_update, c, written[c][i].request[2]),
                lines[c][written[c][i].request[2]].nav, endpoint[c], env_cfg_, env_bounds_)

LEMMA SameStatus ==
    /\ StatusTellsWhatWasApplied <=> StatusIn
    /\ StatusTellsWhatWasApplied' <=> StatusIn'
<1>1. StatusTellsWhatWasApplied <=> StatusIn
  BY Zenon DEF StatusTellsWhatWasApplied, Tells, Reason, InBounds, StatusIn, TellsIn, ReasonIn
<1>2. StatusTellsWhatWasApplied' <=> StatusIn'
  BY Zenon DEF StatusTellsWhatWasApplied, Tells, Reason, InBounds, StatusIn, TellsIn, ReasonIn
<1> QED BY <1>1, <1>2

(* Such a step keeps what is said of responses and positions.              *)
LEMMA QuietKeeps ==
    ASSUME ManagerInv, Quiet
    PROVE  /\ RightConnection' /\ AnsweredIfFresh' /\ UpdatesRead'
           /\ NavFromOwner' /\ StatusTellsWhatWasApplied'
<1>1. /\ TcpTypes /\ Order /\ RightConnection /\ AnsweredIfFresh /\ UpdatesRead
      /\ NavFromOwner /\ StatusTellsWhatWasApplied
  BY DEF ManagerInv, TcpInv
<1>2. /\ written' = written /\ env_nav_update' = env_nav_update
      /\ \A d \in Conns : taken'[d] \in Nat /\ taken[d] <= taken'[d]
      /\ env_cfg_' = env_cfg_ /\ env_bounds_' = env_bounds_
      /\ \A d \in Conns : \A k \in 1..taken[d] : lines'[d][k] = lines[d][k]
      /\ \A d \in Conns : session[d] # "none" => endpoint'[d] = endpoint[d]
      /\ \A d \in Conns : link'[d] = "open" /\ session[d] # "none" /\ Fresh(d)'
                            => link[d] = "open" /\ Fresh(d)
  BY DEF Quiet
<1>3. alive' => alive
  BY Zenon DEF Quiet
<1>4. \A d \in Conns : taken[d] \in Nat /\ \A x \in 1..taken[d] : x \in 1..taken'[d]
  BY <1>1, <1>2 DEF TcpTypes
<1>5. RightConnection'
  BY <1>1, <1>2, <1>4 DEF RightConnection
<1>6. \A d \in Conns : Requests(d)' = Requests(d)
  BY Zenon DEF Quiet
<1>7. ASSUME NEW d \in Conns, alive, link'[d] = "open", Fresh(d)'
      PROVE  Requests(d) = {written[d][i].request[2] : i \in 1..Len(written[d])}
  <2>1. CASE session[d] = "none"
    <3>1. taken[d] = 0
      BY <1>1, <2>1 DEF Order
    <3>2. Requests(d) = {}
      BY <3>1 DEF Requests
    <3>3. \A i \in 1..Len(written[d]) : FALSE
      BY <1>1, <3>1 DEF RightConnection
    <3> QED BY <3>2, <3>3
  <2>2. CASE session[d] # "none"
    <3>1. link[d] = "open" /\ Fresh(d)
      BY <1>2, <1>7, <2>2
    <3>2. \A x \in Conns : link[x] = "open" /\ Fresh(x) =>
             Requests(x) = {written[x][i].request[2] : i \in 1..Len(written[x])}
      BY <1>1, <1>7, Zenon DEF AnsweredIfFresh
    <3> QED BY <3>1, <3>2
  <2> QED BY <2>1, <2>2
<1>8. AnsweredIfFresh'
  <2>1. ASSUME alive', NEW d \in Conns, link'[d] = "open", Fresh(d)'
        PROVE  Requests(d)' = {written'[d][i].request[2] : i \in 1..Len(written'[d])}
    <3>1. alive
      BY <1>3, <2>1, Zenon
    <3> QED BY <1>2, <1>6, <1>7, <2>1, <3>1
  <2> QED BY <2>1, Zenon DEF AnsweredIfFresh
<1>9. UpdatesRead'
  BY <1>1, <1>2, <1>4 DEF UpdatesRead
<1>10. \A i \in 1..Len(env_nav_update) :
          LET u == env_nav_update[i]
          IN  /\ u.conn \in Conns /\ u.request \in 1..taken[u.conn]
              /\ lines'[u.conn][u.request] = lines[u.conn][u.request]
              /\ endpoint'[u.conn] = endpoint[u.conn]
  <2> SUFFICES ASSUME NEW i \in 1..Len(env_nav_update), NEW u, u = env_nav_update[i]
               PROVE  /\ u.conn \in Conns /\ u.request \in 1..taken[u.conn]
                      /\ lines'[u.conn][u.request] = lines[u.conn][u.request]
                      /\ endpoint'[u.conn] = endpoint[u.conn]
    BY Zenon
  <2>1. u.conn \in Conns /\ u.request \in 1..taken[u.conn]
    BY <1>1 DEF UpdatesRead
  <2>2. taken[u.conn] # 0
    BY <1>4, <2>1
  <2>3. session[u.conn] # "none"
    BY <1>1, <2>1, <2>2 DEF Order
  <2> QED BY <1>2, <2>1, <2>3
<1>11. NavFromOwner'
  <2>1. ASSUME NEW i \in 1..Len(env_nav_update), NEW u, u = env_nav_update[i]
        PROVE  Owned(u, lines'[u.conn][u.request], taken'[u.conn], endpoint'[u.conn],
                     env_cfg_, env_bounds_)
    <3>1. Owned(u, lines[u.conn][u.request], taken[u.conn], endpoint[u.conn],
                env_cfg_, env_bounds_)
      BY <1>1, <2>1, Zenon DEF NavFromOwner, Owned
    <3>2. /\ lines'[u.conn][u.request] = lines[u.conn][u.request]
          /\ endpoint'[u.conn] = endpoint[u.conn]
      BY <1>10, <2>1, Zenon
    <3>3. u.request <= taken'[u.conn]
      BY <1>4, <1>10, <2>1
    <3>4. Owned(u, lines'[u.conn][u.request], taken[u.conn], endpoint'[u.conn],
                env_cfg_, env_bounds_)
      BY <3>1, <3>2, Zenon
    <3> QED BY <3>3, <3>4, Zenon DEF Owned
  <2>2. ASSUME NEW i \in 1..Len(env_nav_update'), NEW u, u = env_nav_update'[i]
        PROVE  Owned(u, lines'[u.conn][u.request], taken'[u.conn], endpoint'[u.conn],
                     env_cfg_', env_bounds_')
    BY <1>2, <2>1, <2>2
  <2>3. \A i, j \in 1..Len(env_nav_update') :
           i < j => Before(env_nav_update'[i], env_nav_update'[j])
    <3>1. \A i, j \in 1..Len(env_nav_update) :
             i < j => Before(env_nav_update[i], env_nav_update[j])
      BY <1>1, Zenon DEF NavFromOwner, Before
    <3> QED BY <1>2, <3>1
  <2> QED BY <2>2, <2>3, Zenon DEF NavFromOwner, Owned, Before
<1>12. StatusTellsWhatWasApplied'
  <2>1. ASSUME NEW d \in Conns, NEW i \in 1..Len(written[d]), NEW r, r = written[d][i],
               NEW k, k = r.request[2]
        PROVE  TellsIn(r.status, Published(env_nav_update, d, k), lines'[d][k].nav,
                       endpoint'[d], env_cfg_, env_bounds_)
    <3>1. TellsIn(r.status, Published(env_nav_update, d, k), lines[d][k].nav, endpoint[d],
                  env_cfg_, env_bounds_)
      BY <1>1, <2>1, SameStatus, Zenon DEF StatusIn
    <3>2. k \in 1..taken[d]
      BY <1>1, <2>1 DEF RightConnection
    <3>3. taken[d] # 0
      BY <1>4, <3>2
    <3>4. lines'[d][k] = lines[d][k] /\ endpoint'[d] = endpoint[d]
      BY <1>1, <1>2, <3>2, <3>3 DEF Order
    <3> QED BY <3>1, <3>4, Zenon
  <2>2. ASSUME NEW d \in Conns, NEW i \in 1..Len(written'[d]), NEW r, r = written'[d][i],
               NEW k, k = r.request[2]
        PROVE  TellsIn(r.status, Published(env_nav_update', d, k), lines'[d][k].nav,
                       endpoint'[d], env_cfg_', env_bounds_')
    BY <1>2, <2>1, <2>2, Zenon
  <2> QED
    BY <2>2, SameStatus, Zenon DEF StatusIn
<1> QED
  BY <1>5, <1>8, <1>9, <1>11, <1>12

-----------------------------------------------------------------------------
(* The loop over the positions of a request *)

(* A set of numbers that is not empty has a least one.                     *)
LEMMA Least ==
    ASSUME NEW T, T \subseteq Nat, T # {}
    PROVE  \E x \in T : \A y \in T : x <= y
<1>1. PICK R : IsWellFoundedOn(R, Nat) /\ \A a, b \in Nat : <<a, b>> \in R <=> a < b
  <2>1. IsWellFoundedOn(OpToRel(<, Nat), Nat)
    BY NatLessThanWellFounded
  <2>2. \A a, b \in Nat : <<a, b>> \in OpToRel(<, Nat) <=> a < b
    BY DEF OpToRel
  <2> QED BY <2>1, <2>2, Zenon
<1>2. PICK x \in T : \A y \in T : ~(<<y, x>> \in R)
  <2>1. IsWellFoundedOn(R, Nat)
    BY <1>1
  <2> QED BY <2>1, WFMin
<1>3. ASSUME NEW y \in T PROVE x <= y
  <2>1. y \in Nat /\ x \in Nat /\ ~(y < x)
    BY <1>1, <1>2
  <2> QED BY <2>1
<1> QED BY <1>3

(* A set that holds 0 and, with a number below a bound, the next one.      *)
LEMMA UpTo ==
    ASSUME NEW S, NEW bound \in Nat, 0 \in S,
           \A n \in 0..(bound - 1) : n \in S => n + 1 \in S
    PROVE  0..bound \subseteq S
<1> SUFFICES ASSUME (0..bound) \ S # {} PROVE FALSE
  OBVIOUS
<1> DEFINE T == (0..bound) \ S
<1>1. T \subseteq Nat /\ T # {}
  OBVIOUS
<1> HIDE DEF T
<1>2. PICK x \in T : \A y \in T : x <= y
  BY <1>1, Least
<1>3. x \in 0..bound /\ x \notin S /\ x # 0 /\ x \in Nat
  BY DEF T
<1>4. x - 1 \in 0..(bound - 1) /\ x - 1 \notin T
  BY <1>1, <1>2, <1>3
<1>5. x - 1 \in S
  BY <1>4 DEF T
<1>6. (x - 1) + 1 \in S
  BY <1>4, <1>5
<1> QED BY <1>3, <1>6

\* One turn of the loop, and all turns up to the m-th.
Turn(c, k, navs, applied, updates, i) ==
    IF i \in applied /\ navs[i].complete
    THEN Append(updates, Update(c, k, navs, i)) ELSE updates

Turns(c, k, navs, applied, g, m) ==
    /\ g = [i \in 0..m |-> g[i]]
    /\ g[0] = <<>>
    /\ \A i \in 1..m : g[i] = Turn(c, k, navs, applied, g[i - 1], i)

\* What they have published.
Good(c, k, navs, applied, q, m) ==
    /\ IsSeq(q)
    /\ \A i \in 1..Len(q) :
          \E n \in applied \cap 1..m : navs[n].complete /\ q[i] = Update(c, k, navs, n)
    /\ \A n \in applied \cap 1..m :
          navs[n].complete => \E i \in 1..Len(q) : q[i] = Update(c, k, navs, n)
    /\ \A i, j \in 1..Len(q) : i < j => q[i].nav < q[j].nav

(* The turns can be made for every number of positions.                    *)
LEMMA TurnsExist ==
    ASSUME NEW c, NEW k, NEW navs, NEW applied, NEW bound \in Nat
    PROVE  \E g : Turns(c, k, navs, applied, g, bound)
<1> DEFINE S == {m \in 0..bound : \E g : Turns(c, k, navs, applied, g, m)}
<1>1. 0 \in S
  <2> DEFINE g == [i \in 0..0 |-> <<>>]
  <2>1. Turns(c, k, navs, applied, g, 0)
    BY DEF Turns
  <2> HIDE DEF g
  <2> QED BY <2>1
<1>2. ASSUME NEW n \in 0..(bound - 1), n \in S PROVE n + 1 \in S
  <2>1. PICK g : Turns(c, k, navs, applied, g, n)
    BY <1>2
  <2> DEFINE new == Turn(c, k, navs, applied, g[n], n + 1)
             h == [i \in 0..(n + 1) |-> IF i = n + 1 THEN new ELSE g[i]]
  <2>2. n \in Nat /\ n + 1 \in 0..bound
    OBVIOUS
  <2> HIDE DEF new
  <2>3. /\ h = [i \in 0..(n + 1) |-> h[i]]
        /\ h[n + 1] = new
        /\ \A i \in 0..n : h[i] = g[i]
    BY <2>2
  <2> HIDE DEF h
  <2>4. h[0] = <<>>
    BY <2>1, <2>2, <2>3 DEF Turns
  <2>5. \A i \in 1..(n + 1) : h[i] = Turn(c, k, navs, applied, h[i - 1], i)
    <3> SUFFICES ASSUME NEW i \in 1..(n + 1)
                 PROVE  h[i] = Turn(c, k, navs, applied, h[i - 1], i)
      OBVIOUS
    <3>1. CASE i = n + 1
      <4>1. i - 1 = n /\ n \in 0..n
        BY <2>2, <3>1
      <4> QED BY <2>3, <3>1, <4>1 DEF new
    <3>2. CASE i # n + 1
      <4>1. i \in 1..n /\ i \in 0..n /\ i - 1 \in 0..n
        BY <2>2, <3>2
      <4>2. g[i] = Turn(c, k, navs, applied, g[i - 1], i)
        BY <2>1, <4>1 DEF Turns
      <4> QED BY <2>3, <4>1, <4>2
    <3> QED BY <3>1, <3>2
  <2>6. Turns(c, k, navs, applied, h, n + 1)
    BY <2>3, <2>4, <2>5 DEF Turns
  <2> QED BY <2>2, <2>6
<1> HIDE DEF S
<1>3. 0..bound \subseteq S
  BY <1>1, <1>2, UpTo
<1>4. bound \in S
  BY <1>3
<1> QED BY <1>4 DEF S

(* Each turn leaves what the turns up to it should have published.         *)
LEMMA TurnsGood ==
    ASSUME NEW c, NEW k, NEW navs, NEW applied, NEW bound \in Nat,
           NEW g, Turns(c, k, navs, applied, g, bound)
    PROVE  Good(c, k, navs, applied, g[bound], bound)
<1> DEFINE S == {m \in 0..bound : Good(c, k, navs, applied, g[m], m)}
<1>1. 0 \in S
  <2>1. g[0] = <<>> /\ Len(<<>>) = 0 /\ IsSeq(<<>>)
    BY DEF Turns, IsSeq
  <2>2. Good(c, k, navs, applied, g[0], 0)
    BY <2>1 DEF Good
  <2> QED BY <2>2
<1>2. ASSUME NEW n \in 0..(bound - 1), n \in S PROVE n + 1 \in S
  <2> DEFINE q == g[n]
             p == g[n + 1]
             u == Update(c, k, navs, n + 1)
  <2>1. n \in Nat /\ n + 1 \in 1..bound /\ n + 1 \in 0..bound /\ (n + 1) - 1 = n
    OBVIOUS
  <2>2. Good(c, k, navs, applied, q, n)
    BY <1>2
  <2>3. p = Turn(c, k, navs, applied, q, n + 1)
    BY <2>1 DEF Turns
  <2>4. /\ u.nav = n + 1
        /\ \A x : Update(c, k, navs, x).nav = x
    BY DEF Update
  <2> HIDE DEF q, p, u
  <2>5. \A x \in 1..(n + 1) : x \in 1..n \/ x = n + 1
    BY <2>1
  <2>6. CASE ~(n + 1 \in applied /\ navs[n + 1].complete)
    <3>1. p = q
      BY <2>3, <2>6, Zenon DEF Turn
    <3>2. IsSeq(q)
      BY <2>2 DEF Good
    <3>3. \A i \in 1..Len(q) :
             \E x \in applied \cap 1..(n + 1) : navs[x].complete /\ q[i] = Update(c, k, navs, x)
      <4>1. applied \cap 1..n \subseteq applied \cap 1..(n + 1)
        BY <2>1
      <4>2. \A i \in 1..Len(q) :
               \E x \in applied \cap 1..n : navs[x].complete /\ q[i] = Update(c, k, navs, x)
        BY <2>2, Zenon DEF Good
      <4> QED BY <4>1, <4>2, Zenon
    <3>4. \A x \in applied \cap 1..(n + 1) :
             navs[x].complete => \E i \in 1..Len(q) : q[i] = Update(c, k, navs, x)
      <4>1. \A x \in applied \cap 1..n :
               navs[x].complete => \E i \in 1..Len(q) : q[i] = Update(c, k, navs, x)
        BY <2>2, Zenon DEF Good
      <4> QED BY <2>5, <2>6, <4>1, Zenon
    <3>5. \A i, j \in 1..Len(q) : i < j => q[i].nav < q[j].nav
      BY <2>2, Zenon DEF Good
    <3>6. Good(c, k, navs, applied, q, n + 1)
      BY <3>2, <3>3, <3>4, <3>5, Zenon DEF Good
    <3> QED BY <2>1, <3>1, <3>6 DEF p
  <2>7. CASE n + 1 \in applied /\ navs[n + 1].complete
    <3>1. p = Append(q, u)
      BY <2>3, <2>7, Zenon DEF Turn, u
    <3>2. IsSeq(q)
      BY <2>2 DEF Good
    <3>3. /\ Len(q) \in Nat /\ IsSeq(p) /\ Len(p) = Len(q) + 1
          /\ \A i \in 1..Len(q) : p[i] = q[i]
          /\ p[Len(q) + 1] = u
      BY <3>1, <3>2, Appended
    <3>4. \A i \in 1..Len(p) : i \in 1..Len(q) \/ i = Len(q) + 1
      BY <3>3
    <3>5. n + 1 \in applied \cap 1..(n + 1) /\ applied \cap 1..n \subseteq applied \cap 1..(n + 1)
      BY <2>1, <2>7
    <3>6. \A i \in 1..Len(q) :
             \E x \in applied \cap 1..n : navs[x].complete /\ q[i] = Update(c, k, navs, x)
      BY <2>2, Zenon DEF Good
    <3>7. \A i \in 1..Len(p) :
             \E x \in applied \cap 1..(n + 1) : navs[x].complete /\ p[i] = Update(c, k, navs, x)
      <4> SUFFICES ASSUME NEW i \in 1..Len(p)
                   PROVE  \E x \in applied \cap 1..(n + 1) :
                             navs[x].complete /\ p[i] = Update(c, k, navs, x)
        OBVIOUS
      <4>1. CASE i \in 1..Len(q)
        <5>1. p[i] = q[i]
          BY <3>3, <4>1
        <5> QED BY <3>5, <3>6, <4>1, <5>1, Zenon
      <4>2. CASE i = Len(q) + 1
        BY <2>7, <3>3, <3>5, <4>2, Zenon DEF u
      <4> QED BY <3>4, <4>1, <4>2
    <3>8. \A x \in applied \cap 1..(n + 1) :
             navs[x].complete => \E i \in 1..Len(p) : p[i] = Update(c, k, navs, x)
      <4> SUFFICES ASSUME NEW x \in applied \cap 1..(n + 1), navs[x].complete
                   PROVE  \E i \in 1..Len(p) : p[i] = Update(c, k, navs, x)
        BY Zenon
      <4>1. CASE x \in 1..n
        <5>1. \E i \in 1..Len(q) : q[i] = Update(c, k, navs, x)
          BY <2>2, <4>1, Zenon DEF Good
        <5>2. \A i \in 1..Len(q) : i \in 1..Len(p)
          BY <3>3
        <5> QED BY <3>3, <5>1, <5>2
      <4>2. CASE x = n + 1
        <5>1. Len(q) + 1 \in 1..Len(p)
          BY <3>3
        <5> QED BY <3>3, <4>2, <5>1 DEF u
      <4> QED BY <2>5, <4>1, <4>2
    <3>9. \A i, j \in 1..Len(p) : i < j => p[i].nav < p[j].nav
      <4> SUFFICES ASSUME NEW i \in 1..Len(p), NEW j \in 1..Len(p), i < j
                   PROVE  p[i].nav < p[j].nav
        OBVIOUS
      <4>1. i \in 1..Len(q) /\ p[i] = q[i]
        BY <3>3, <3>4
      <4>2. CASE j \in 1..Len(q)
        <5>1. p[j] = q[j]
          BY <3>3, <4>2
        <5>2. \A a, b \in 1..Len(q) : a < b => q[a].nav < q[b].nav
          BY <2>2, Zenon DEF Good
        <5> QED BY <4>1, <4>2, <5>1, <5>2
      <4>3. CASE j = Len(q) + 1
        <5>1. PICK x \in applied \cap 1..n : q[i] = Update(c, k, navs, x)
          BY <3>6, <4>1, Zenon
        <5>2. p[i].nav = x /\ x \in 1..n
          BY <2>4, <4>1, <5>1
        <5>3. p[j].nav = n + 1
          BY <2>4, <3>3, <4>3
        <5> QED BY <2>1, <5>2, <5>3
      <4> QED BY <3>4, <4>2, <4>3
    <3>10. Good(c, k, navs, applied, p, n + 1)
      BY <3>3, <3>7, <3>8, <3>9, Zenon DEF Good
    <3> QED BY <2>1, <3>10 DEF p
  <2> QED BY <2>6, <2>7
<1> HIDE DEF S
<1>3. 0..bound \subseteq S
  BY <1>1, <1>2, UpTo
<1>4. bound \in S
  BY <1>3
<1> QED BY <1>4 DEF S

(* The positions published for a request are the complete ones among those *)
(* applied, each once and in their order.                                  *)
LEMMA UpdatesGood ==
    ASSUME NEW c, NEW k, NEW navs, NEW applied, Len(navs) \in Nat
    PROVE  Good(c, k, navs, applied, Updates(c, k, navs, applied), Len(navs))
<1> DEFINE n == Len(navs)
           body(g, i) == IF i = 0 THEN <<>>
                         ELSE IF i \in applied /\ navs[i].complete
                         THEN Append(g[i - 1], Update(c, k, navs, i))
                         ELSE g[i - 1]
           f == CHOOSE g : g = [i \in 0..n |-> body(g, i)]
<1>1. Updates(c, k, navs, applied) = f[n]
  BY Zenon DEF Updates
<1>2. \A g : g = [i \in 0..n |-> body(g, i)] <=> Turns(c, k, navs, applied, g, n)
  <2> SUFFICES ASSUME NEW g
               PROVE  g = [i \in 0..n |-> body(g, i)] <=> Turns(c, k, navs, applied, g, n)
    OBVIOUS
  <2>1. \A i \in 1..n : body(g, i) = Turn(c, k, navs, applied, g[i - 1], i)
    <3> SUFFICES ASSUME NEW i \in 1..n
                 PROVE  body(g, i) = Turn(c, k, navs, applied, g[i - 1], i)
      OBVIOUS
    <3>1. i # 0
      OBVIOUS
    <3> QED BY <3>1, Zenon DEF Turn
  <2>2. body(g, 0) = <<>>
    OBVIOUS
  <2>3. \A i \in 0..n : i = 0 \/ i \in 1..n
    OBVIOUS
  <2>4. 0 \in 0..n /\ \A i \in 1..n : i \in 0..n
    OBVIOUS
  <2> HIDE DEF body
  <2>5. ASSUME g = [i \in 0..n |-> body(g, i)]
        PROVE  Turns(c, k, navs, applied, g, n)
    <3>1. \A i \in 0..n : g[i] = body(g, i)
      BY <2>5, Zenon
    <3>2. g = [i \in 0..n |-> g[i]]
      BY <2>5
    <3> QED BY <2>1, <2>2, <2>4, <3>1, <3>2 DEF Turns
  <2>6. ASSUME Turns(c, k, navs, applied, g, n)
        PROVE  g = [i \in 0..n |-> body(g, i)]
    <3>1. \A i \in 0..n : g[i] = body(g, i)
      BY <2>1, <2>2, <2>3, <2>6 DEF Turns
    <3>2. g = [i \in 0..n |-> g[i]]
      BY <2>6 DEF Turns
    <3> QED BY <3>1, <3>2
  <2> QED BY <2>5, <2>6
<1> HIDE DEF body
<1>3. PICK g : Turns(c, k, navs, applied, g, n)
  BY TurnsExist
<1>4. \E h : h = [i \in 0..n |-> body(h, i)]
  BY <1>2, <1>3
<1>5. f = [i \in 0..n |-> body(f, i)]
  BY <1>4, Zenon
<1> HIDE DEF f
<1>6. Turns(c, k, navs, applied, f, n)
  BY <1>2, <1>5
<1>7. Good(c, k, navs, applied, f[n], n)
  BY <1>6, TurnsGood
<1> QED BY <1>1, <1>7

(* The status of a request: the positions applied are all of them, or      *)
(* those in front of the one the status is about.                          *)
LEMMA StatusOfApplied ==
    ASSUME NEW navs, NEW ep, Len(navs) \in Nat
    PROVE  /\ AppliedNavs(navs, ep) \subseteq 1..Len(navs)
           /\ \A n \in AppliedNavs(navs, ep) : NavStatus(navs[n], ep) = Ok
           /\ \E bad \in 1..(Len(navs) + 1) :
                 /\ AppliedNavs(navs, ep) = 1..(bad - 1)
                 /\ IF bad > Len(navs) THEN Status(navs, ep) = Ok
                    ELSE /\ Status(navs, ep) = NavStatus(navs[bad], ep)
                         /\ Status(navs, ep) # Ok
<1> DEFINE applied == AppliedNavs(navs, ep)
           first(i) == i \notin applied /\ 1..(i - 1) \subseteq applied
           bad == CHOOSE i \in 1..Len(navs) : first(i)
<1>1. /\ applied \subseteq 1..Len(navs)
      /\ \A n \in applied : \A j \in 1..n : NavStatus(navs[j], ep) = Ok
      /\ \A n \in 1..Len(navs) : (\A j \in 1..n : NavStatus(navs[j], ep) = Ok) => n \in applied
  BY DEF AppliedNavs
<1>2. \A n \in applied : n \in 1..n
  BY <1>1
<1>3. CASE applied = 1..Len(navs)
  <2>1. Status(navs, ep) = Ok
    BY <1>3, Zenon DEF Status
  <2>2. /\ Len(navs) + 1 \in 1..(Len(navs) + 1) /\ (Len(navs) + 1) - 1 = Len(navs)
        /\ Len(navs) + 1 > Len(navs)
    OBVIOUS
  <2> QED BY <1>1, <1>2, <1>3, <2>1, <2>2
<1>4. CASE applied # 1..Len(navs)
  <2> DEFINE T == (1..Len(navs)) \ applied
  <2>1. T \subseteq Nat /\ T # {}
    <3>1. applied \subseteq 1..Len(navs) /\ applied # 1..Len(navs)
      BY <1>1, <1>4
    <3> HIDE DEF applied
    <3>2. T # {}
      BY <3>1
    <3>3. T \subseteq Nat
      OBVIOUS
    <3> QED BY <3>2, <3>3
  <2>2. Status(navs, ep) = NavStatus(navs[bad], ep)
    BY <1>4, Zenon DEF Status
  <2> HIDE DEF applied, T
  <2>3. PICK b \in T : \A y \in T : b <= y
    BY <2>1, Least
  <2>4. b \in 1..Len(navs) /\ b \notin applied
    BY <2>3 DEF T
  <2>5. ASSUME NEW y \in 1..(b - 1) PROVE y \in applied
    <3>1. y \in 1..Len(navs) /\ ~(b <= y)
      BY <2>4
    <3> QED BY <2>3, <3>1 DEF T
  <2>6. first(b)
    BY <2>4, <2>5
  <2> HIDE DEF first
  <2>7. bad \in 1..Len(navs) /\ first(bad)
    BY <2>4, <2>6, Zenon
  <2> HIDE DEF bad
  <2>8. bad \notin applied /\ 1..(bad - 1) \subseteq applied
    BY <2>7 DEF first
  <2>9. NavStatus(navs[bad], ep) # Ok
    <3> SUFFICES ASSUME NavStatus(navs[bad], ep) = Ok PROVE FALSE
      OBVIOUS
    <3>1. ASSUME NEW j \in 1..bad PROVE NavStatus(navs[j], ep) = Ok
      <4>1. CASE j = bad
        BY <4>1
      <4>2. CASE j # bad
        <5>1. j \in 1..(bad - 1) /\ j \in 1..j
          BY <2>7, <4>2
        <5> QED BY <1>1, <2>8, <5>1
      <4> QED BY <4>1, <4>2
    <3> QED BY <1>1, <2>7, <2>8, <3>1
  <2>10. applied \subseteq 1..(bad - 1)
    <3> SUFFICES ASSUME NEW x \in applied, x \notin 1..(bad - 1) PROVE FALSE
      OBVIOUS
    <3>1. bad \in 1..x
      BY <1>1, <2>7
    <3> QED BY <1>1, <2>9, <3>1
  <2>11. applied = 1..(bad - 1)
    BY <2>8, <2>10
  <2>12. bad \in 1..(Len(navs) + 1) /\ ~(bad > Len(navs))
    BY <2>7
  <2> QED BY <1>1, <1>2, <2>2, <2>9, <2>11, <2>12 DEF applied
<1> QED BY <1>3, <1>4

(* A position whose status is good is that of a vehicle configured for the *)
(* address it came from, inside the bounds of the vehicle's environment.   *)
LEMMA GoodIsOwned ==
    ASSUME NEW c, NEW nav, NavStatus(nav, Remote(c)) = Ok
    PROVE  /\ env_cfg_[nav.port].address = endpoint[c][1]
           /\ env_bounds_[env_cfg_[nav.port].environment].min <= nav.position
           /\ nav.position <= env_bounds_[env_cfg_[nav.port].environment].max
<1>1. BadPort # Ok /\ BadSource # Ok /\ BadRegion # Ok
  BY DEF Ok, BadPort, BadSource, BadRegion
<1>2. /\ Remote(c) # NoEndpoint /\ Remote(c)[1] = env_cfg_[nav.port].address
      /\ InBounds(nav)
  BY <1>1, Zenon DEF NavStatus
<1>3. Remote(c) = endpoint[c]
  BY <1>2, Zenon DEF Remote
<1> QED BY <1>2, <1>3, Zenon DEF InBounds

(* The status of a position gives the reason for it.                       *)
LEMMA StatusGivesReason ==
    ASSUME NEW c, NEW nav, Remote(c) # NoEndpoint
    PROVE  ReasonIn(NavStatus(nav, Remote(c)), nav, endpoint[c], env_cfg_, env_bounds_)
<1>1. BadPort # Ok /\ BadSource # Ok /\ BadRegion # Ok
  BY DEF Ok, BadPort, BadSource, BadRegion
<1>2. Remote(c) = endpoint[c]
  BY Zenon DEF Remote
<1>3. CASE nav.port \notin DOMAIN env_cfg_
  <2>1. NavStatus(nav, Remote(c)) = BadPort
    BY <1>3, Zenon DEF NavStatus
  <2> QED BY <1>3, <2>1, Zenon DEF ReasonIn
<1>4. CASE nav.port \in DOMAIN env_cfg_ /\ endpoint[c][1] # env_cfg_[nav.port].address
  <2>1. NavStatus(nav, Remote(c)) = BadSource
    BY <1>2, <1>4, Zenon DEF NavStatus
  <2> QED BY <1>4, <2>1, Zenon DEF ReasonIn
<1>5. CASE nav.port \in DOMAIN env_cfg_ /\ endpoint[c][1] = env_cfg_[nav.port].address
  <2>1. NavStatus(nav, Remote(c)) = IF ~InBounds(nav) THEN BadRegion ELSE Ok
    BY <1>2, <1>5, Zenon DEF NavStatus
  <2> QED BY <1>1, <1>5, <2>1, Zenon DEF ReasonIn, InBounds
<1> QED BY <1>3, <1>4, <1>5, Zenon

(* A request whose connection has been reset is answered to nobody.        *)
LEMMA NobodyAnswered ==
    ASSUME NEW m, Write(m, NoEndpoint)
    PROVE  written' = written
<1>1. Lookup(NoEndpoint) = {}
  BY EndpointsAssumption DEF Lookup
<1> QED BY <1>1, Zenon DEF Write

(* Two sequences, one after the other.                                     *)
LEMMA Concatenated ==
    ASSUME NEW p, IsSeq(p), NEW q, IsSeq(q)
    PROVE  /\ Len(p) \in Nat /\ Len(q) \in Nat
           /\ IsSeq(p \o q) /\ Len(p \o q) = Len(p) + Len(q)
           /\ \A i \in 1..Len(p) : (p \o q)[i] = p[i] /\ i \in 1..Len(p \o q)
           /\ \A i \in 1..Len(q) : (p \o q)[Len(p) + i] = q[i] /\ Len(p) + i \in 1..Len(p \o q)
           /\ \A i \in 1..Len(p \o q) : i \in 1..Len(p) \/ i - Len(p) \in 1..Len(q)
<1>1. PICK S : p \in Seq(S)
  BY DEF IsSeq
<1>2. PICK T : q \in Seq(T)
  BY DEF IsSeq
<1>3. p \in Seq(S \cup T) /\ q \in Seq(S \cup T)
  BY <1>1, <1>2
<1>4. p \o q \in Seq(S \cup T) /\ Len(p \o q) = Len(p) + Len(q)
  BY <1>3
<1>5. IsSeq(p \o q)
  BY <1>4, Zenon DEF IsSeq
<1>6. Len(p) \in Nat /\ Len(q) \in Nat
  BY <1>3
<1>7. \A i \in 1..Len(p) : (p \o q)[i] = p[i] /\ i \in 1..Len(p \o q)
  BY <1>3, <1>4, <1>6
<1>8. \A i \in 1..Len(q) : (p \o q)[Len(p) + i] = q[i] /\ Len(p) + i \in 1..Len(p \o q)
  <2> SUFFICES ASSUME NEW i \in 1..Len(q)
               PROVE  (p \o q)[Len(p) + i] = q[i] /\ Len(p) + i \in 1..Len(p \o q)
    OBVIOUS
  <2>1. Len(p) + i \in 1..(Len(p) + Len(q)) /\ ~(Len(p) + i <= Len(p)) /\ (Len(p) + i) - Len(p) = i
    BY <1>6
  <2> QED BY <1>3, <1>4, <1>6, <2>1
<1>9. \A i \in 1..Len(p \o q) : i \in 1..Len(p) \/ i - Len(p) \in 1..Len(q)
  BY <1>4, <1>6
<1> QED BY <1>4, <1>5, <1>6, <1>7, <1>8, <1>9

(* A request that is taken: its response and its positions join the others.*)
LEMMA RequestKeeps ==
    ASSUME ManagerInv, NEW c \in Conns, ProcessRequest(c)
    PROVE  ManagerInv'
<1> DEFINE k == taken[c] + 1
           navs == Line(c).nav
           applied == AppliedNavs(navs, Remote(c))
           new == Updates(c, k, navs, applied)
           m == [request |-> <<c, k>>, status |-> Status(navs, Remote(c))]
<1>1. /\ TcpInv /\ TcpTypes /\ Order /\ RightConnection /\ AnsweredIfFresh /\ UpdatesRead
      /\ NavFromOwner /\ StatusTellsWhatWasApplied
  BY DEF ManagerInv, TcpInv
<1>2. /\ ReadLine(c) /\ Line(c).type = "NetSimManagerRequest"
      /\ env_nav_update' = env_nav_update \o new
      /\ Write(m, Remote(c))
      /\ env_cfg_' = env_cfg_ /\ env_bounds_' = env_bounds_
  BY Zenon DEF ProcessRequest
<1>3. session[c] = "reading"
  BY <1>2 DEF ReadLine
<1>4. /\ m.request[1] = c /\ m.request[2] = k /\ m.status = Status(navs, Remote(c))
      /\ Line(c) = lines[c][k]
  BY DEF Line
<1> HIDE DEF m
<1>5. /\ TcpInv'
      /\ taken'[c] = k /\ k \in 1..Len(lines[c])
      /\ \A d \in Conns \ {c} : taken'[d] = taken[d] /\ written'[d] = written[d]
      /\ \/ written' = written
         \/ written' = [written EXCEPT ![c] = Append(@, m)]
      /\ alive' = alive /\ endpoint' = endpoint /\ link' = link /\ lines' = lines
      /\ \A d \in Conns : Fresh(d)' <=> Fresh(d)
  BY <1>1, <1>2, ReadTcp
<1>6. link[c] = "open" /\ Fresh(c) => written' = [written EXCEPT ![c] = Append(@, m)]
  BY <1>1, <1>2, <1>3, WriteToSender
<1>7. /\ taken[c] \in Nat /\ k \in Nat /\ lines[c][k] \in Lines /\ Len(navs) \in Nat
      /\ DOMAIN written = Conns /\ IsSeq(written[c])
  <2>1. /\ taken[c] \in Nat /\ lines[c] \in Seq(Lines) /\ DOMAIN written = Conns
        /\ IsSeq(written[c])
    BY <1>1 DEF TcpTypes
  <2>2. lines[c][k] \in Lines
    BY <1>5, <2>1
  <2> QED BY <1>4, <2>1, <2>2, LinesAssumption
<1>8. /\ Len(written[c]) \in Nat
      /\ \/ written'[c] = written[c]
         \/ /\ Len(written'[c]) = Len(written[c]) + 1
            /\ \A i \in 1..Len(written[c]) : written'[c][i] = written[c][i]
            /\ written'[c][Len(written[c]) + 1] = m
      /\ \A i \in 1..Len(written'[c]) :
            \/ i \in 1..Len(written[c]) /\ written'[c][i] = written[c][i]
            \/ i = Len(written[c]) + 1 /\ written'[c][i] = m
      /\ link[c] = "open" /\ Fresh(c) =>
            /\ Len(written'[c]) = Len(written[c]) + 1
            /\ \A i \in 1..Len(written[c]) : written'[c][i] = written[c][i]
            /\ written'[c][Len(written[c]) + 1] = m
  <2>1. /\ Len(written[c]) \in Nat /\ Len(Append(written[c], m)) = Len(written[c]) + 1
        /\ \A i \in 1..Len(written[c]) : Append(written[c], m)[i] = written[c][i]
        /\ Append(written[c], m)[Len(written[c]) + 1] = m
    BY <1>7, Appended
  <2>2. written' = [written EXCEPT ![c] = Append(@, m)] => written'[c] = Append(written[c], m)
    BY <1>7
  <2>3. written'[c] = written[c] \/ written'[c] = Append(written[c], m)
    BY <1>5, <2>2
  <2>4. \A i \in 1..(Len(written[c]) + 1) : i \in 1..Len(written[c]) \/ i = Len(written[c]) + 1
    BY <2>1
  <2> QED BY <1>6, <2>1, <2>2, <2>3, <2>4
<1>9. \A d \in Conns : \A i \in 1..Len(written[d]) :
         /\ written[d][i].request[1] = d
         /\ written[d][i].request[2] \in 1..taken[d]
         /\ i > 1 => written[d][i - 1].request[2] < written[d][i].request[2]
  BY <1>1 DEF RightConnection
<1> HIDE DEF k
<1>10. RightConnection'
  <2> SUFFICES ASSUME NEW d \in Conns, NEW i \in 1..Len(written'[d])
               PROVE  /\ written'[d][i].request[1] = d
                      /\ written'[d][i].request[2] \in 1..taken'[d]
                      /\ i > 1 => written'[d][i - 1].request[2] < written'[d][i].request[2]
    BY DEF RightConnection
  <2>1. CASE d # c
    <3>1. written'[d] = written[d] /\ taken'[d] = taken[d]
      BY <1>5, <2>1
    <3> QED BY <1>9, <3>1
  <2>2. CASE d = c /\ i \in 1..Len(written[c]) /\ written'[c][i] = written[c][i]
    <3>1. i > 1 => i - 1 \in 1..Len(written[c]) /\ written'[c][i - 1] = written[c][i - 1]
      BY <1>8, <2>2
    <3>2. 1..taken[c] \subseteq 1..k
      BY <1>7 DEF k
    <3> QED BY <1>5, <1>9, <2>2, <3>1, <3>2
  <2>3. CASE d = c /\ i = Len(written[c]) + 1 /\ written'[c][i] = m
    <3>1. i > 1 => i - 1 \in 1..Len(written[c]) /\ written'[c][i - 1] = written[c][i - 1]
      BY <1>8, <2>3
    <3>2. \A x \in 1..taken[c] : x < k
      BY <1>7 DEF k
    <3>3. k \in 1..k
      BY <1>5, <1>7
    <3>4. /\ written'[c][i].request[1] = c /\ written'[c][i].request[2] = k
          /\ taken'[c] = k
      BY <1>4, <1>5, <2>3
    <3>5. \A j \in 1..Len(written[c]) : written[c][j].request[2] \in 1..taken[c]
      BY <1>9
    <3>6. i > 1 => written'[c][i - 1].request[2] < k
      BY <3>1, <3>2, <3>5
    <3> QED BY <2>3, <3>3, <3>4, <3>6
  <2> QED BY <1>8, <2>1, <2>2, <2>3
<1>11. AnsweredIfFresh'
  <2>1. ASSUME alive, NEW d \in Conns, link[d] = "open", Fresh(d)
        PROVE  Requests(d)' = {written'[d][i].request[2] : i \in 1..Len(written'[d])}
    <3>0. Requests(d) = {written[d][i].request[2] : i \in 1..Len(written[d])}
      BY <1>1, <2>1, Zenon DEF AnsweredIfFresh
    <3>1. CASE d # c
      <4>1. written'[d] = written[d] /\ taken'[d] = taken[d] /\ lines' = lines
        BY <1>5, <3>1
      <4>2. Requests(d)' = Requests(d)
        BY <4>1 DEF Requests
      <4> QED BY <3>0, <4>1, <4>2
    <3>2. CASE d = c
      <4>1. /\ Len(written'[d]) = Len(written[d]) + 1
            /\ \A i \in 1..Len(written[d]) : written'[d][i] = written[d][i]
            /\ written'[d][Len(written[d]) + 1] = m
        BY <1>8, <2>1, <3>2
      <4>2. \A i \in 1..Len(written'[d]) : i \in 1..Len(written[d]) \/ i = Len(written[d]) + 1
        BY <1>8, <3>2, <4>1
      <4>3. Len(written[d]) + 1 \in 1..Len(written'[d])
            /\ \A i \in 1..Len(written[d]) : i \in 1..Len(written'[d])
        BY <1>8, <3>2, <4>1
      <4>4. {written'[d][i].request[2] : i \in 1..Len(written'[d])}
              = {written[d][i].request[2] : i \in 1..Len(written[d])} \cup {k}
        <5>1. written'[d][Len(written[d]) + 1].request[2] = k
          BY <1>4, <4>1
        <5>2. \A i \in 1..Len(written[d]) :
                 written'[d][i].request[2] = written[d][i].request[2]
          BY <4>1
        <5> QED BY <4>2, <4>3, <5>1, <5>2, ZenonT(40)
      <4>5. lines[c][k].type = "NetSimManagerRequest"
        BY <1>2, <1>4
      <4>6. \A x \in 1..k : x \in 1..taken[c] \/ x = k
        BY <1>7 DEF k
      <4>7. k \in 1..k /\ \A x \in 1..taken[c] : x \in 1..k
        BY <1>5, <1>7 DEF k
      <4>8. Requests(d)' = Requests(d) \cup {k}
        BY <1>5, <3>2, <4>5, <4>6, <4>7 DEF Requests
      <4> QED BY <3>0, <4>4, <4>8, Zenon
    <3> QED BY <3>1, <3>2
  <2>2. ASSUME alive', NEW d \in Conns, link'[d] = "open", Fresh(d)'
        PROVE  Requests(d)' = {written'[d][i].request[2] : i \in 1..Len(written'[d])}
    <3>1. alive /\ link[d] = "open" /\ Fresh(d)
      BY <1>5, <2>2, Zenon
    <3> QED BY <2>1, <3>1, Zenon
  <2> QED BY <2>2, Zenon DEF AnsweredIfFresh
<1>12. /\ applied \subseteq 1..Len(navs)
       /\ \A n \in applied : NavStatus(navs[n], Remote(c)) = Ok
       /\ \E bad \in 1..(Len(navs) + 1) :
             /\ applied = 1..(bad - 1)
             /\ IF bad > Len(navs) THEN Status(navs, Remote(c)) = Ok
                ELSE /\ Status(navs, Remote(c)) = NavStatus(navs[bad], Remote(c))
                     /\ Status(navs, Remote(c)) # Ok
  BY <1>7, StatusOfApplied
<1>13. Good(c, k, navs, applied, new, Len(navs))
  BY <1>7, UpdatesGood
<1> HIDE DEF applied, new, navs
<1>14. applied \cap 1..Len(navs) = applied
  BY <1>12
<1>15. /\ IsSeq(new)
       /\ \A i \in 1..Len(new) :
             \E n \in applied : navs[n].complete /\ new[i] = Update(c, k, navs, n)
       /\ \A n \in applied :
             navs[n].complete => \E i \in 1..Len(new) : new[i] = Update(c, k, navs, n)
       /\ \A i, j \in 1..Len(new) : i < j => new[i].nav < new[j].nav
  BY <1>13, <1>14, Zenon DEF Good
<1>16. \A n : LET u == Update(c, k, navs, n)
              IN  /\ u.conn = c /\ u.request = k /\ u.nav = n /\ u.port = navs[n].port
                  /\ u.environment = env_cfg_[navs[n].port].environment
  BY DEF Update
<1> DEFINE q == env_nav_update
           all == env_nav_update \o new
<1>17. /\ IsSeq(q) /\ Len(q) \in Nat /\ Len(new) \in Nat
       /\ IsSeq(all) /\ Len(all) = Len(q) + Len(new)
       /\ \A i \in 1..Len(q) : all[i] = q[i] /\ i \in 1..Len(all)
       /\ \A i \in 1..Len(new) : all[Len(q) + i] = new[i] /\ Len(q) + i \in 1..Len(all)
       /\ \A i \in 1..Len(all) : i \in 1..Len(q) \/ i - Len(q) \in 1..Len(new)
  <2>1. IsSeq(q)
    BY <1>1 DEF UpdatesRead
  <2> QED BY <1>15, <2>1, Concatenated
<1>18. env_nav_update' = all
  BY <1>2
<1> HIDE DEF all
<1>19. \A i \in 1..Len(q) : /\ q[i].conn \in Conns /\ q[i].request \in 1..taken[q[i].conn]
                            /\ q[i].nav \in Nat
  BY <1>1 DEF UpdatesRead
<1>20. \A i \in 1..Len(all) :
          \/ i \in 1..Len(q) /\ all[i] = q[i]
          \/ /\ i - Len(q) \in 1..Len(new)
             /\ all[i] = new[i - Len(q)]
             /\ \E n \in applied : navs[n].complete /\ all[i] = Update(c, k, navs, n)
  <2> SUFFICES ASSUME NEW i \in 1..Len(all), ~(i \in 1..Len(q) /\ all[i] = q[i])
               PROVE  /\ i - Len(q) \in 1..Len(new)
                      /\ all[i] = new[i - Len(q)]
                      /\ \E n \in applied : navs[n].complete /\ all[i] = Update(c, k, navs, n)
    BY Zenon
  <2>1. i - Len(q) \in 1..Len(new)
    BY <1>17
  <2>2. Len(q) + (i - Len(q)) = i
    BY <1>17
  <2>3. all[i] = new[i - Len(q)]
    BY <1>17, <2>1, <2>2
  <2>4. \E n \in applied : navs[n].complete /\ new[i - Len(q)] = Update(c, k, navs, n)
    BY <1>15, <2>1, Zenon
  <2> QED BY <2>1, <2>3, <2>4, Zenon
<1>21. UpdatesRead'
  <2>1. ASSUME NEW i \in 1..Len(all)
        PROVE  /\ all[i].conn \in Conns /\ all[i].request \in 1..taken'[all[i].conn]
               /\ all[i].nav \in Nat
    <3>1. CASE i \in 1..Len(q) /\ all[i] = q[i]
      <4>1. \A d \in Conns : \A x \in 1..taken[d] : x \in 1..taken'[d]
        <5>1. \A x \in 1..taken[c] : x \in 1..k
          BY <1>7 DEF k
        <5> QED BY <1>5, <5>1
      <4> QED BY <1>19, <3>1, <4>1
    <3>2. ASSUME NEW n \in applied, all[i] = Update(c, k, navs, n)
          PROVE  /\ all[i].conn \in Conns /\ all[i].request \in 1..taken'[all[i].conn]
                 /\ all[i].nav \in Nat
      <4>1. all[i].conn = c /\ all[i].request = k /\ all[i].nav = n
        BY <1>16, <3>2
      <4>2. k \in 1..k /\ n \in Nat
        BY <1>5, <1>7, <1>12
      <4> QED BY <1>5, <4>1, <4>2
    <3> QED BY <1>20, <3>1, <3>2
  <2> QED BY <1>17, <1>18, <2>1 DEF UpdatesRead
<1>22. NavFromOwner'
  <2>1. ASSUME NEW i \in 1..Len(all), NEW u, u = all[i]
        PROVE  Owned(u, lines[u.conn][u.request], taken'[u.conn], endpoint[u.conn],
                     env_cfg_, env_bounds_)
    <3>1. CASE i \in 1..Len(q) /\ all[i] = q[i]
      <4>1. Owned(u, lines[u.conn][u.request], taken[u.conn], endpoint[u.conn],
                  env_cfg_, env_bounds_)
        BY <1>1, <2>1, <3>1, Zenon DEF NavFromOwner, Owned
      <4>2. u.request <= taken'[u.conn]
        <5>1. u.conn \in Conns /\ u.request \in 1..taken[u.conn]
          BY <1>19, <2>1, <3>1
        <5>2. CASE u.conn = c
          BY <1>5, <1>7, <5>1, <5>2 DEF k
        <5>3. CASE u.conn # c
          BY <1>5, <5>1, <5>3
        <5> QED BY <5>2, <5>3
      <4> QED BY <4>1, <4>2, Zenon DEF Owned
    <3>2. ASSUME NEW n \in applied, navs[n].complete, all[i] = Update(c, k, navs, n)
          PROVE  Owned(u, lines[u.conn][u.request], taken'[u.conn], endpoint[u.conn],
                       env_cfg_, env_bounds_)
      <4>1. /\ u.conn = c /\ u.request = k /\ u.nav = n /\ u.port = navs[n].port
            /\ u.environment = env_cfg_[navs[n].port].environment
        BY <1>16, <2>1, <3>2
      <4>2. navs = lines[c][k].nav
        BY <1>4 DEF navs
      <4>3. /\ env_cfg_[navs[n].port].address = endpoint[c][1]
            /\ env_bounds_[env_cfg_[navs[n].port].environment].min <= navs[n].position
            /\ navs[n].position <= env_bounds_[env_cfg_[navs[n].port].environment].max
        BY <1>12, GoodIsOwned, Zenon
      <4>4. k <= k /\ taken'[c] = k
        BY <1>5, <1>7
      <4> QED BY <3>2, <4>1, <4>2, <4>3, <4>4, Zenon DEF Owned
    <3> QED BY <1>20, <3>1, <3>2, Zenon
  <2>2. ASSUME NEW i \in 1..Len(all), NEW j \in 1..Len(all), i < j
        PROVE  Before(all[i], all[j])
    <3>1. CASE j \in 1..Len(q)
      <4>1. i \in 1..Len(q)
        BY <1>17, <2>2, <3>1
      <4>2. all[i] = q[i] /\ all[j] = q[j]
        BY <1>17, <3>1, <4>1
      <4>3. Before(q[i], q[j])
        BY <1>1, <2>2, <3>1, <4>1, Zenon DEF NavFromOwner, Before
      <4> QED BY <4>2, <4>3, Zenon
    <3>2. CASE j \notin 1..Len(q) /\ i \in 1..Len(q)
      <4>1. all[j].conn = c /\ all[j].request = k
        BY <1>16, <1>20, <3>2
      <4>2. all[i] = q[i] /\ q[i].conn \in Conns /\ q[i].request \in 1..taken[q[i].conn]
        BY <1>17, <1>19, <3>2
      <4>3. q[i].conn = c => q[i].request < k
        BY <1>7, <4>2 DEF k
      <4> QED BY <4>1, <4>2, <4>3 DEF Before
    <3>3. CASE j \notin 1..Len(q) /\ i \notin 1..Len(q)
      <4>1. /\ all[i] = new[i - Len(q)] /\ all[j] = new[j - Len(q)]
            /\ i - Len(q) \in 1..Len(new) /\ j - Len(q) \in 1..Len(new)
        BY <1>20, <3>3
      <4>2. i - Len(q) < j - Len(q)
        BY <1>17, <2>2
      <4>3. all[i].nav < all[j].nav
        BY <1>15, <4>1, <4>2
      <4>4. all[i].request = k /\ all[j].request = k
        BY <1>16, <1>20, <3>3
      <4> QED BY <4>3, <4>4 DEF Before
    <3> QED BY <3>1, <3>2, <3>3
  <2>3. ASSUME NEW i \in 1..Len(env_nav_update'), NEW u, u = env_nav_update'[i]
        PROVE  Owned(u, lines'[u.conn][u.request], taken'[u.conn], endpoint'[u.conn],
                     env_cfg_', env_bounds_')
    <3>1. i \in 1..Len(all) /\ u = all[i]
      BY <1>18, <2>3
    <3>2. Owned(u, lines[u.conn][u.request], taken'[u.conn], endpoint[u.conn],
                env_cfg_, env_bounds_)
      BY <2>1, <3>1, Zenon
    <3> QED BY <1>2, <1>5, <3>2, Zenon
  <2>4. \A i, j \in 1..Len(env_nav_update') :
           i < j => Before(env_nav_update'[i], env_nav_update'[j])
    BY <1>18, <2>2
  <2> QED BY <2>3, <2>4, Zenon DEF NavFromOwner, Owned, Before
<1>23. \A d \in Conns : \A x \in 1..taken[d] :
          /\ Published(all, d, x) = Published(q, d, x)
          /\ <<d, x>> # <<c, k>>
  <2> SUFFICES ASSUME NEW d \in Conns, NEW x \in 1..taken[d]
               PROVE  Published(all, d, x) = Published(q, d, x) /\ <<d, x>> # <<c, k>>
    OBVIOUS
  <2>1. d = c => x # k
    BY <1>7 DEF k
  <2>2. \A i \in 1..Len(all) : all[i].conn = d /\ all[i].request = x =>
                                  i \in 1..Len(q) /\ all[i] = q[i]
    BY <1>16, <1>20, <2>1
  <2>3. \A y : y \in Published(all, d, x) <=>
                 \E i \in 1..Len(all) : all[i].conn = d /\ all[i].request = x /\ y = all[i].nav
    BY DEF Published
  <2>4. \A y : y \in Published(q, d, x) <=>
                 \E i \in 1..Len(q) : q[i].conn = d /\ q[i].request = x /\ y = q[i].nav
    BY DEF Published
  <2>5. \A y : y \in Published(all, d, x) <=> y \in Published(q, d, x)
    <3>1. ASSUME NEW y, y \in Published(all, d, x) PROVE y \in Published(q, d, x)
      <4>1. PICK i \in 1..Len(all) : all[i].conn = d /\ all[i].request = x /\ y = all[i].nav
        BY <2>3, <3>1
      <4>2. i \in 1..Len(q) /\ all[i] = q[i]
        BY <2>2, <4>1
      <4> QED BY <2>4, <4>1, <4>2
    <3>2. ASSUME NEW y, y \in Published(q, d, x) PROVE y \in Published(all, d, x)
      <4>1. PICK i \in 1..Len(q) : q[i].conn = d /\ q[i].request = x /\ y = q[i].nav
        BY <2>4, <3>2
      <4>2. i \in 1..Len(all) /\ all[i] = q[i]
        BY <1>17, <4>1
      <4> QED BY <2>3, <4>1, <4>2
    <3> QED BY <3>1, <3>2
  <2>6. Published(all, d, x) = Published(q, d, x)
    BY <2>5, Zenon
  <2> QED BY <2>1, <2>6
<1>24. Published(all, c, k) = {n \in applied : navs[n].complete}
  <2>1. \A i \in 1..Len(q) : ~(q[i].conn = c /\ q[i].request = k)
    BY <1>7, <1>19 DEF k
  <2>2. \A y : y \in Published(all, c, k) <=>
                 \E i \in 1..Len(all) : all[i].conn = c /\ all[i].request = k /\ y = all[i].nav
    BY DEF Published
  <2>3. ASSUME NEW y, y \in Published(all, c, k) PROVE y \in {n \in applied : navs[n].complete}
    <3>1. PICK i \in 1..Len(all) : all[i].conn = c /\ all[i].request = k /\ y = all[i].nav
      BY <2>2, <2>3
    <3>2. PICK n \in applied : navs[n].complete /\ all[i] = Update(c, k, navs, n)
      BY <1>20, <2>1, <3>1, Zenon
    <3>3. y = n
      BY <1>16, <3>1, <3>2
    <3> QED BY <3>2, <3>3, Zenon
  <2>4. ASSUME NEW n \in applied, navs[n].complete PROVE n \in Published(all, c, k)
    <3>1. PICK i \in 1..Len(new) : new[i] = Update(c, k, navs, n)
      BY <1>15, <2>4, Zenon
    <3>2. Len(q) + i \in 1..Len(all) /\ all[Len(q) + i] = Update(c, k, navs, n)
      BY <1>17, <3>1
    <3>3. /\ all[Len(q) + i].conn = c /\ all[Len(q) + i].request = k
          /\ all[Len(q) + i].nav = n
      BY <1>16, <3>2
    <3> QED BY <2>2, <3>2, <3>3
  <2> QED BY <2>3, <2>4, Zenon
<1>25. ASSUME Remote(c) # NoEndpoint
       PROVE  TellsIn(m.status, Published(all, c, k), navs, endpoint[c], env_cfg_, env_bounds_)
  <2>1. PICK bad \in 1..(Len(navs) + 1) :
           /\ applied = 1..(bad - 1)
           /\ IF bad > Len(navs) THEN Status(navs, Remote(c)) = Ok
              ELSE /\ Status(navs, Remote(c)) = NavStatus(navs[bad], Remote(c))
                   /\ Status(navs, Remote(c)) # Ok
    BY <1>12, Zenon
  <2>2. ASSUME NEW n \in 1..(bad - 1)
        PROVE  ReasonIn(Ok, navs[n], endpoint[c], env_cfg_, env_bounds_)
    <3>1. NavStatus(navs[n], Remote(c)) = Ok
      BY <1>12, <2>1
    <3>2. ReasonIn(NavStatus(navs[n], Remote(c)), navs[n], endpoint[c], env_cfg_, env_bounds_)
      BY <1>25, StatusGivesReason, Zenon
    <3> QED BY <3>1, <3>2, Zenon
  <2>3. Published(all, c, k) = {n \in 1..(bad - 1) : navs[n].complete}
    BY <1>24, <2>1, Zenon
  <2>4. IF bad > Len(navs) THEN m.status = Ok
        ELSE m.status # Ok /\ ReasonIn(m.status, navs[bad], endpoint[c], env_cfg_, env_bounds_)
    <3>1. m.status = Status(navs, Remote(c))
      BY <1>4 DEF navs
    <3>2. ReasonIn(NavStatus(navs[bad], Remote(c)), navs[bad], endpoint[c], env_cfg_, env_bounds_)
      BY <1>25, StatusGivesReason, Zenon
    <3> QED BY <2>1, <3>1, <3>2, Zenon
  <2> QED BY <2>2, <2>3, <2>4, Zenon DEF TellsIn
<1>26. StatusTellsWhatWasApplied'
  <2>1. ASSUME NEW d \in Conns, NEW i \in 1..Len(written[d]), NEW r, r = written[d][i],
               NEW x, x = r.request[2]
        PROVE  TellsIn(r.status, Published(all, d, x), lines[d][x].nav, endpoint[d],
                       env_cfg_, env_bounds_)
    <3>1. TellsIn(r.status, Published(q, d, x), lines[d][x].nav, endpoint[d],
                  env_cfg_, env_bounds_)
      BY <1>1, <2>1, SameStatus, Zenon DEF StatusIn, q
    <3>2. x \in 1..taken[d]
      BY <1>9, <2>1
    <3>3. Published(all, d, x) = Published(q, d, x)
      BY <1>23, <3>2, Zenon
    <3> QED BY <3>1, <3>3, Zenon
  <2>2. ASSUME NEW d \in Conns, NEW i \in 1..Len(written'[d]), NEW r, r = written'[d][i],
               NEW x, x = r.request[2]
        PROVE  TellsIn(r.status, Published(all, d, x), lines[d][x].nav, endpoint[d],
                       env_cfg_, env_bounds_)
    <3>1. CASE d # c
      <4>1. written'[d] = written[d]
        BY <1>5, <3>1
      <4> QED BY <2>1, <2>2, <4>1, Zenon
    <3>2. CASE d = c /\ i \in 1..Len(written[c]) /\ written'[c][i] = written[c][i]
      BY <2>1, <2>2, <3>2, Zenon
    <3>3. CASE Remote(c) = NoEndpoint
      <4>1. written' = written
        BY <1>2, <3>3, NobodyAnswered, Zenon
      <4> QED BY <2>1, <2>2, <4>1, Zenon
    <3>4. CASE d = c /\ written'[c][i] = m /\ Remote(c) # NoEndpoint
      <4>1. navs = lines[c][k].nav /\ r = m /\ x = k
        BY <1>4, <2>2, <3>4 DEF navs
      <4> QED BY <1>25, <3>4, <4>1, Zenon
    <3> QED BY <1>8, <3>1, <3>2, <3>3, <3>4, Zenon
  <2>3. ASSUME NEW d \in Conns, NEW i \in 1..Len(written'[d]), NEW r, r = written'[d][i],
               NEW x, x = r.request[2]
        PROVE  TellsIn(r.status, Published(env_nav_update', d, x), lines'[d][x].nav,
                       endpoint'[d], env_cfg_', env_bounds_')
    BY <1>2, <1>5, <1>18, <2>2, <2>3, Zenon
  <2> QED
    BY <2>3, SameStatus, Zenon DEF StatusIn
<1> QED
  BY <1>5, <1>10, <1>11, <1>21, <1>22, <1>26 DEF ManagerInv

(* A line that is no request, or nobody answers.                           *)
LEMMA IgnoreKeeps ==
    ASSUME ManagerInv, NEW c \in Conns, IgnoreLine(c)
    PROVE  ManagerInv'
<1>1. TcpInv /\ TcpTypes
  BY DEF ManagerInv, TcpInv
<1>2. /\ ReadLine(c) /\ Line(c).type # "NetSimManagerRequest"
      /\ UNCHANGED <<sessions_, written, failed>>
      /\ UNCHANGED <<env_nav_update, env_cfg_, env_bounds_>>
  BY DEF IgnoreLine, manager_vars
<1>3. /\ TcpInv'
      /\ taken'[c] = taken[c] + 1 /\ taken[c] + 1 \in 1..Len(lines[c])
      /\ \A d \in Conns \ {c} : taken'[d] = taken[d]
      /\ UNCHANGED <<alive, endpoint, link, lines>>
      /\ \A d \in Conns : Fresh(d)' <=> Fresh(d)
  BY <1>1, <1>2, ReadTcp
<1>4. \A d \in Conns : taken[d] \in Nat /\ taken'[d] \in Nat /\ taken[d] <= taken'[d]
  <2>1. \A d \in Conns : taken[d] \in Nat
    BY <1>1 DEF TcpTypes
  <2> QED BY <1>3, <2>1
<1>5. \A d \in Conns : Requests(d)' = Requests(d)
  <2> SUFFICES ASSUME NEW d \in Conns PROVE Requests(d)' = Requests(d)
    OBVIOUS
  <2>1. CASE d # c
    BY <1>3, <2>1 DEF Requests
  <2>2. CASE d = c
    <3>1. \A x \in 1..(taken[c] + 1) : x \in 1..taken[c] \/ x = taken[c] + 1
      BY <1>4
    <3>2. \A x \in 1..taken[c] : x \in 1..(taken[c] + 1)
      BY <1>4
    <3>3. lines[c][taken[c] + 1].type # "NetSimManagerRequest"
      BY <1>2 DEF Line
    <3> QED BY <1>3, <2>2, <3>1, <3>2, <3>3 DEF Requests
  <2> QED BY <2>1, <2>2
<1>6. Quiet
  BY <1>2, <1>3, <1>4, <1>5 DEF Quiet
<1> QED
  BY <1>3, <1>6, QuietKeeps DEF ManagerInv

(* The other steps of the server, of the clients and of other programs.    *)
LEMMA OthersKeep ==
    ASSUME ManagerInv,
           \/ \E c \in Conns, e \in Endpoints : Tcp(Connect(c, e))
           \/ \E c \in Conns, l \in Lines : Tcp(Send(c, l))
           \/ \E c \in Conns : Tcp(Close(c))
           \/ \E c \in Conns : Tcp(Reset(c))
           \/ Tcp(Accept)
           \/ Tcp(AcceptThrows)
           \/ \E c \in Conns : Tcp(ReadError(c))
           \/ \E c \in Conns : Tcp(WriteError(c))
           \/ \E c \in Conns : Tcp(StaleHandler(c))
           \/ \E kind \in Kinds, source \in Sources : Forward(kind, source)
           \/ UNCHANGED vars
    PROVE  ManagerInv'
<1>1. TcpInv /\ TcpTypes /\ Order
  BY DEF ManagerInv, TcpInv
<1>2. \A d \in Conns : taken[d] \in Nat /\ taken[d] <= taken[d] /\ Len(lines[d]) \in Nat
                       /\ taken[d] <= Len(lines[d])
  BY <1>1 DEF TcpTypes, Order
<1>3. ASSUME TcpInv', UNCHANGED <<written, taken, env_nav_update, env_cfg_, env_bounds_>>,
             alive' => alive,
             \A d \in Conns : \A k \in 1..taken[d] : lines'[d][k] = lines[d][k],
             \A d \in Conns : session[d] # "none" => endpoint'[d] = endpoint[d],
             \A d \in Conns : link'[d] = "open" /\ session[d] # "none" /\ Fresh(d)'
                                => link[d] = "open" /\ Fresh(d)
      PROVE  ManagerInv'
  <2>1. \A d \in Conns : Requests(d)' = Requests(d)
    BY <1>3 DEF Requests
  <2>2. \A d \in Conns : taken'[d] \in Nat /\ taken[d] <= taken'[d]
    BY <1>2, <1>3
  <2>3. Quiet
    BY <1>3, <2>1, <2>2, Zenon DEF Quiet
  <2> QED BY <1>3, <2>3, QuietKeeps DEF ManagerInv
<1>4. ASSUME endpoint' = endpoint PROVE \A d \in Conns : Fresh(d)' <=> Fresh(d)
  BY <1>4 DEF Fresh
<1>5. ASSUME NEW c \in Conns, NEW e \in Endpoints, Tcp(Connect(c, e)) PROVE ManagerInv'
  <2>1. /\ UNCHANGED <<alive, lines, written, taken, env_nav_update, env_cfg_, env_bounds_>>
        /\ Connect(c, e)
    BY <1>5 DEF Tcp, Connect, manager_vars
  <2>2. /\ TcpInv'
        /\ \A d \in Conns : link[d] # "none" => link'[d] = link[d] /\ endpoint'[d] = endpoint[d]
        /\ \A d \in Conns : link[d] # "none" => (Fresh(d)' <=> Fresh(d))
    BY <1>1, <2>1, ConnectTcp
  <2>3. \A d \in Conns : session[d] # "none" => link[d] # "none"
    BY <1>1 DEF Order
  <2>4. \A d \in Conns : link'[d] = "open" /\ session[d] # "none" /\ Fresh(d)'
                           => link[d] = "open" /\ Fresh(d)
    BY <2>2, <2>3
  <2>5. \A d \in Conns : session[d] # "none" => endpoint'[d] = endpoint[d]
    BY <2>2, <2>3
  <2>6. \A d \in Conns : \A k \in 1..taken[d] : lines'[d][k] = lines[d][k]
    BY <2>1
  <2>7. alive' => alive
    BY <2>1, Zenon
  <2> QED BY <1>3, <2>1, <2>2, <2>4, <2>5, <2>6, <2>7
<1>6. ASSUME NEW c \in Conns,
             Tcp(Close(c)) \/ Tcp(Reset(c)) \/ \E l \in Lines : Tcp(Send(c, l))
      PROVE  ManagerInv'
  <2>1. /\ UNCHANGED <<alive, endpoint, written, taken, env_nav_update, env_cfg_, env_bounds_>>
        /\ Close(c) \/ Reset(c) \/ \E l \in Lines : Send(c, l)
    BY <1>6 DEF Tcp, Close, Reset, Send, manager_vars
  <2>2. TcpInv'
    BY <1>1, <2>1, PeersTcp
  <2>3. \A d \in Conns : link'[d] = "open" => link[d] = "open"
    BY <1>1, <2>1 DEF Close, Reset, Send, TcpTypes
  <2>4. \A d \in Conns : link'[d] = "open" /\ session[d] # "none" /\ Fresh(d)'
                           => link[d] = "open" /\ Fresh(d)
    BY <1>4, <2>1, <2>3
  <2>5. \A d \in Conns : session[d] # "none" => endpoint'[d] = endpoint[d]
    BY <2>1
  <2>6. \A d \in Conns : \A k \in 1..taken[d] : lines'[d][k] = lines[d][k]
    <3>1. CASE lines' = lines
      BY <3>1
    <3>2. ASSUME NEW l \in Lines, lines' = [lines EXCEPT ![c] = Append(@, l)]
          PROVE  \A d \in Conns : \A k \in 1..taken[d] : lines'[d][k] = lines[d][k]
      <4>1. lines \in [Conns -> Seq(Lines)]
        BY <1>1 DEF TcpTypes
      <4>2. /\ lines[c] \in Seq(Lines) /\ lines'[c] = Append(lines[c], l)
            /\ \A d \in Conns \ {c} : lines'[d] = lines[d]
        BY <3>2, <4>1
      <4>3. \A k \in 1..taken[c] : k \in 1..Len(lines[c])
        BY <1>2
      <4>4. \A k \in 1..Len(lines[c]) : Append(lines[c], l)[k] = lines[c][k]
        BY <4>2
      <4> QED BY <4>2, <4>3, <4>4
    <3> QED BY <2>1, <3>1, <3>2 DEF Close, Reset, Send
  <2>7. alive' => alive
    BY <2>1, Zenon
  <2> QED BY <1>3, <2>1, <2>2, <2>4, <2>5, <2>6, <2>7
<1>7. ASSUME UNCHANGED <<endpoint, link, lines, written, taken, env_nav_update, env_cfg_,
                         env_bounds_>>,
             TcpInv', alive' => alive
      PROVE  ManagerInv'
  <2>1. \A d \in Conns : Fresh(d)' <=> Fresh(d)
    BY <1>4, <1>7
  <2> QED BY <1>3, <1>7, <2>1
<1>8. CASE Tcp(Accept)
  <2>1. TcpInv'
    BY <1>1, <1>8, AcceptTcp DEF Tcp
  <2>2. UNCHANGED <<endpoint, link, lines, written, taken, env_nav_update, env_cfg_, env_bounds_>>
    BY <1>8 DEF Tcp, Accept, peers, manager_vars
  <2>3. alive' => alive
    BY <1>8, Zenon DEF Tcp, Accept
  <2> QED BY <1>7, <2>1, <2>2, <2>3
<1>9. ASSUME NEW c \in Conns, Tcp(ReadError(c)) \/ Tcp(WriteError(c)) PROVE ManagerInv'
  <2>1. TcpInv'
    BY <1>1, <1>9, DisconnectTcp DEF Tcp
  <2>2. UNCHANGED <<endpoint, link, lines, written, taken, env_nav_update, env_cfg_, env_bounds_>>
    BY <1>9 DEF Tcp, ReadError, WriteError, Disconnect, peers, manager_vars
  <2>3. alive' => alive
    BY <1>9, Zenon DEF Tcp, ReadError, WriteError
  <2> QED BY <1>7, <2>1, <2>2, <2>3
<1>10. ASSUME UNCHANGED <<endpoint, link, lines, backlog, session, sessions_, written, taken,
                          failed, env_nav_update, env_cfg_, env_bounds_>>,
              alive' => alive
       PROVE  ManagerInv'
  <2>1. \A d \in Conns : Fresh(d)' <=> Fresh(d)
    BY <1>4, <1>10
  <2>2. TcpTypes' /\ Order'
    BY <1>1, <1>10 DEF TcpTypes, Order
  <2>3. Waiting'
    BY <1>1, <1>10 DEF TcpInv, Waiting
  <2>4. OneLive'
    BY <1>1, <1>10 DEF TcpInv, OneLive, Dead
  <2>5. Entries'
    BY <1>1, <1>10, <2>1 DEF TcpInv, Entries
  <2>6. TcpInv'
    BY <2>2, <2>3, <2>4, <2>5 DEF TcpInv
  <2> QED BY <1>7, <1>10, <2>6
<1>11. CASE Tcp(AcceptThrows)
  <2>1. alive' => alive
    BY <1>11, Zenon DEF Tcp, AcceptThrows
  <2> QED BY <1>10, <1>11, <2>1 DEF Tcp, AcceptThrows, peers, manager_vars
<1>12. ASSUME NEW c \in Conns, Tcp(StaleHandler(c)) PROVE ManagerInv'
  <2>1. alive' => alive
    BY <1>12, Zenon DEF Tcp, StaleHandler
  <2> QED BY <1>10, <1>12, <2>1 DEF Tcp, StaleHandler, peers, manager_vars
<1>13. ASSUME NEW kind \in Kinds, NEW source \in Sources, Forward(kind, source)
       PROVE  ManagerInv'
  <2>1. alive' => alive
    BY <1>13, Zenon DEF Forward
  <2> QED BY <1>10, <1>13, <2>1 DEF Forward, tcp_vars
<1>14. CASE UNCHANGED vars
  <2>1. alive' => alive
    BY <1>14, Zenon DEF vars, tcp_vars
  <2> QED BY <1>10, <1>14, <2>1 DEF vars, tcp_vars, manager_vars
<1> QED
  BY <1>5, <1>6, <1>8, <1>9, <1>11, <1>12, <1>13, <1>14

(* The four parts of netsim_manager's invariant from the start.            *)
LEMMA InitManager == Init => ManagerInv
<1> SUFFICES ASSUME Init PROVE ManagerInv
  OBVIOUS
<1>1. TcpInit /\ env_nav_update = <<>>
  BY DEF Init
<1>2. TcpInv
  BY <1>1, InitTcp
<1>3. /\ \A c \in Conns : written[c] = <<>> /\ taken[c] = 0
      /\ Len(<<>>) = 0 /\ IsSeq(<<>>)
  BY <1>1 DEF TcpInit, IsSeq
<1>4. RightConnection /\ StatusTellsWhatWasApplied
  BY <1>3 DEF RightConnection, StatusTellsWhatWasApplied
<1>5. AnsweredIfFresh
  BY <1>3 DEF AnsweredIfFresh, Requests
<1>6. UpdatesRead /\ NavFromOwner
  BY <1>1, <1>3 DEF UpdatesRead, NavFromOwner
<1> QED
  BY <1>2, <1>4, <1>5, <1>6 DEF ManagerInv

(* ManagerInv is an invariant of netsim_manager.                           *)
LEMMA ManagerInvariant == Spec => []ManagerInv
<1>1. ManagerInv /\ [Next]_vars => ManagerInv'
  <2> SUFFICES ASSUME ManagerInv, [Next]_vars PROVE ManagerInv'
    OBVIOUS
  <2>1. ASSUME NEW c \in Conns, ProcessRequest(c) PROVE ManagerInv'
    BY <2>1, RequestKeeps
  <2>2. ASSUME NEW c \in Conns, IgnoreLine(c) PROVE ManagerInv'
    BY <2>2, IgnoreKeeps
  <2> QED BY <2>1, <2>2, OthersKeep DEF Next
<1> QED
  BY <1>1, InitManager, PTL DEF Spec

(* A response goes to the connection its request came from, in the order   *)
(* of the requests and at most once each, for any number of connections    *)
(* and endpoints, whatever is closed, reset or reopened in between.        *)
THEOREM ResponsesToSender == Spec => []RightConnection
<1>1. ManagerInv => RightConnection
  BY DEF ManagerInv
<1> QED BY <1>1, ManagerInvariant, PTL

(* On the first connection from an endpoint every request that was read    *)
(* is answered as long as the connection is open.                          *)
THEOREM FirstConnectionAnswered == Spec => []AnsweredIfFresh
<1>1. ManagerInv => AnsweredIfFresh
  BY DEF ManagerInv
<1> QED BY <1>1, ManagerInvariant, PTL

(* What is published was sent from the vehicle's configured address, lies  *)
(* inside the bounds of its environment and comes in the order it was sent.*)
THEOREM PositionsOfTheOwner == Spec => []NavFromOwner
<1>1. ManagerInv => NavFromOwner
  BY DEF ManagerInv
<1> QED BY <1>1, ManagerInvariant, PTL

(* The status of a response tells which positions were published.          *)
THEOREM StatusIsTrue == Spec => []StatusTellsWhatWasApplied
<1>1. ManagerInv => StatusTellsWhatWasApplied
  BY DEF ManagerInv
<1> QED BY <1>1, ManagerInvariant, PTL
=============================================================================
