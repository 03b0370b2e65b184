---------------------------- MODULE Display_proof ----------------------------
(***************************************************************************)
(* Proofs about module Display, for any sessions, gateways and modems.     *)
(***************************************************************************)
EXTENDS Display, SequenceTheorems, WellFoundedInduction, TLAPS

IsSeq(q) == \E S : q \in Seq(S)

Fields == {"manager_cfg_", "tl_request_", "transmitter_tcp_port_", "scale",
           "tl_image_path_", "last_nav_", "nav_at_last_tx_start_",
           "nav_at_previous_tx_start_", "receive_stats_", "audio_images", "dirty",
           "answers", "canvas", "painted"}

\* A snapshot is empty or was taken since the last answer.
Noted(snapshots, answers) ==
    /\ DOMAIN snapshots = Ports
    /\ \A p \in Ports :
          snapshots[p].navs = {} \/ snapshots[p].plot = Len(answers)

AllOver(painted) ==
    /\ IsSeq(painted)
    /\ \A i \in DOMAIN painted : painted[i].plot = painted[i].over

SessionInv(u) ==
    /\ DOMAIN u = Fields
    /\ Noted(u.nav_at_last_tx_start_, u.answers)
    /\ Noted(u.nav_at_previous_tx_start_, u.answers)
    /\ AllOver(u.painted)

DotsInv ==
    /\ DOMAIN ui = Sessions
    /\ \A s \in Sessions : SessionInv(ui[s])

-----------------------------------------------------------------------------

\* What a session has drawn grows by one snapshot that belongs to its plot.
LEMMA AllOverAppend ==
    ASSUME NEW q, NEW x, AllOver(q), x.plot = x.over
    PROVE  AllOver(Append(q, x))
<1>1. PICK S : q \in Seq(S)
  BY DEF AllOver, IsSeq
<1>2. q \in Seq(S \cup {x}) /\ Append(q, x) \in Seq(S \cup {x})
  BY <1>1
<1>3. \A i \in DOMAIN Append(q, x) :
         Append(q, x)[i].plot = Append(q, x)[i].over
  BY <1>1, <1>2 DEF AllOver
<1> QED
  BY <1>2, <1>3 DEF AllOver, IsSeq

LEMMA NewSessionInv == SessionInv(NewSession)
<1>1. DOMAIN NewSession = Fields
  BY DEF NewSession, Fields
<1>2. \A q : Noted(NoSnapshots, q)
  BY DEF Noted, NoSnapshots, NoNavs
<1>3. AllOver(<<>>)
  <2>1. <<>> \in Seq({})
    OBVIOUS
  <2> QED
    BY <2>1 DEF AllOver, IsSeq
<1> QED
  BY <1>1, <1>2, <1>3 DEF SessionInv, NewSession

\* A step that changes one session and keeps that session's part.
LEMMA OneSession ==
    ASSUME DotsInv, NEW s \in Sessions, NEW v,
           ui' = [ui EXCEPT ![s] = v], SessionInv(v)
    PROVE  DotsInv'
BY DEF DotsInv

LEMMA ImageDrawnInv ==
    ASSUME NEW u, SessionInv(u)
    PROVE  SessionInv(ImageDrawn(u))
BY DEF SessionInv, ImageDrawn, Fields

LEMMA DotsDrawnInv ==
    ASSUME NEW u, SessionInv(u)
    PROVE  SessionInv(DotsDrawn(u))
<1> DEFINE tx == u.transmitter_tcp_port_
<1> DEFINE prev == u.nav_at_previous_tx_start_
<1> DEFINE dot == [packet |-> prev[tx].packet, plot |-> prev[tx].plot,
                   over |-> Len(u.answers)]
<1>1. CASE ~(tx \in Ports /\ tx \in prev[tx].navs)
  BY <1>1 DEF DotsDrawn
<1>2. CASE tx \in Ports /\ tx \in prev[tx].navs
  <2> DEFINE v == DotsDrawn(u)
  <2>1. dot.plot = dot.over
    BY <1>2 DEF SessionInv, Noted
  <2>2. AllOver(Append(u.painted, dot))
    BY <2>1, AllOverAppend DEF SessionInv
  <2>3. v = [u EXCEPT !.painted = Append(u.painted, dot),
                      !.nav_at_previous_tx_start_ = [prev EXCEPT ![tx] = NoNavs],
                      !.receive_stats_ = {r \in u.receive_stats_ : r[1] # tx}]
    BY <1>2 DEF DotsDrawn, SessionInv, Fields
  <2>4. Noted([prev EXCEPT ![tx] = NoNavs], u.answers)
    BY <1>2 DEF SessionInv, Noted, NoNavs
  <2> HIDE DEF dot, prev, tx, v
  <2> QED
    BY <2>2, <2>3, <2>4 DEF SessionInv, Fields, v
<1> QED
  BY <1>1, <1>2

-----------------------------------------------------------------------------
(* The handlers of one session *)

LEMMA HandlePacketStartInv ==
    ASSUME DotsInv, NEW s \in Sessions, HandlePacketStart(s)
    PROVE  DotsInv'
<1>1. CASE ~(ui[s].manager_cfg_ /\ Head(wt[s]).modem \in DOMAIN Pairs)
  BY <1>1 DEF HandlePacketStart, DotsInv
<1>2. CASE ui[s].manager_cfg_ /\ Head(wt[s]).modem \in DOMAIN Pairs
  <2> DEFINE u == ui[s]
  <2> DEFINE port == Pairs[Head(wt[s]).modem].modem_tcp_port
  <2> DEFINE snap == [navs |-> u.last_nav_, packet |-> Head(wt[s]).packet,
                      plot |-> Len(u.answers)]
  <2> DEFINE last == [u.nav_at_last_tx_start_ EXCEPT ![port] = snap]
  <2> DEFINE prev == [u.nav_at_previous_tx_start_ EXCEPT
                        ![port] = u.nav_at_last_tx_start_[port]]
  <2> DEFINE v == [u EXCEPT !.nav_at_previous_tx_start_ = prev,
                            !.nav_at_last_tx_start_ = last, !.dirty = TRUE]
  <2>1. SessionInv(u)
    BY DEF DotsInv
  <2>2. port \in Ports
    BY <1>2 DEF Ports
  <2>3. Noted(last, u.answers) /\ Noted(prev, u.answers)
    BY <2>1, <2>2 DEF SessionInv, Noted
  <2>4. ui' = [ui EXCEPT ![s] = v]
    <3> DEFINE v1 == [u EXCEPT !.nav_at_previous_tx_start_[port] =
                                  u.nav_at_last_tx_start_[port]]
    <3> DEFINE v2 == [v1 EXCEPT !.nav_at_last_tx_start_[port] = snap]
    <3>1. ui' = [ui EXCEPT ![s].nav_at_previous_tx_start_[port] =
                              ui[s].nav_at_last_tx_start_[port],
                           ![s].nav_at_last_tx_start_[port] = snap,
                           ![s].dirty = TRUE]
      BY <1>2 DEF HandlePacketStart
    <3>2. ui' = [ui EXCEPT ![s] = [v2 EXCEPT !.dirty = TRUE]]
      BY <3>1 DEF DotsInv
    <3>3. v1 = [u EXCEPT !.nav_at_previous_tx_start_ = prev]
      OBVIOUS
    <3>4. v2 = [v1 EXCEPT !.nav_at_last_tx_start_ = last]
      BY <2>1 DEF SessionInv, Fields
    <3> QED
      BY <3>2, <3>3, <3>4
  <2>5. SessionInv(v)
    <3> HIDE DEF last, prev, u
    <3> QED
      BY <2>1, <2>3 DEF SessionInv, Fields
  <2> QED
    BY <2>4, <2>5, OneSession
<1> QED
  BY <1>1, <1>2

LEMMA HandleBellhopRespInv ==
    ASSUME DotsInv, NEW s \in Sessions, HandleBellhopResp(s)
    PROVE  DotsInv'
<1> DEFINE u == ui[s]
<1> DEFINE resp == Head(wt[s])
<1> DEFINE v == [u EXCEPT
        !.tl_image_path_ = IF resp.success THEN resp.id ELSE u.tl_image_path_,
        !.dirty = u.dirty \/ resp.success,
        !.tl_request_ = TRUE,
        !.nav_at_last_tx_start_ = NoSnapshots,
        !.nav_at_previous_tx_start_ = NoSnapshots,
        !.receive_stats_ = {},
        !.answers = Append(u.answers, resp.id)]
<1>1. SessionInv(u)
  BY DEF DotsInv
<1>2. \A q : Noted(NoSnapshots, q)
  BY DEF Noted, NoSnapshots, NoNavs
<1>3. ui' = [ui EXCEPT ![s] = v]
  BY <1>1 DEF HandleBellhopResp, DotsInv, SessionInv, Fields
<1>4. SessionInv(v)
  <2> HIDE DEF u, resp
  <2> QED
    BY <1>1, <1>2 DEF SessionInv, Fields
<1> QED
  BY <1>3, <1>4, OneSession

LEMMA PaintEventInv ==
    ASSUME DotsInv, NEW s \in Sessions, PaintEvent(s)
    PROVE  DotsInv'
<1> DEFINE w == DotsDrawn(ImageDrawn(ui[s]))
<1>1. SessionInv(w)
  BY ImageDrawnInv, DotsDrawnInv DEF DotsInv
<1>2. ui' = [ui EXCEPT ![s] = [w EXCEPT !.dirty = FALSE]]
  BY DEF PaintEvent
<1>3. SessionInv([w EXCEPT !.dirty = FALSE])
  <2> HIDE DEF w
  <2> QED
    BY <1>1 DEF SessionInv, Fields
<1> QED
  BY <1>2, <1>3, OneSession

\* The handlers that touch neither positions noted nor answers.
LEMMA OtherHandlersInv ==
    ASSUME DotsInv, NEW s \in Sessions,
           \/ HandleManagerCfg(s) \/ HandleUpdatedNav(s)
           \/ HandleReceiveStats(s) \/ HandleLogsClosed(s)
    PROVE  DotsInv'
<1> DEFINE u == ui[s]
<1>1. SessionInv(u)
  BY DEF DotsInv
<1>2. \A x : /\ SessionInv([u EXCEPT !.manager_cfg_ = x])
            /\ SessionInv([u EXCEPT !.last_nav_ = x])
            /\ SessionInv([u EXCEPT !.receive_stats_ = x])
            /\ SessionInv([u EXCEPT !.audio_images = x])
  <2> HIDE DEF u
  <2> QED
    BY <1>1 DEF SessionInv, Fields
<1>3. CASE HandleManagerCfg(s)
  BY <1>2, <1>3, OneSession DEF HandleManagerCfg
<1>4. CASE HandleUpdatedNav(s)
  BY <1>2, <1>4, OneSession DEF HandleUpdatedNav
<1>5. CASE HandleReceiveStats(s)
  BY <1>2, <1>5, OneSession DEF HandleReceiveStats
<1>6. CASE HandleLogsClosed(s)
  BY <1>2, <1>6, OneSession DEF HandleLogsClosed
<1> QED
  BY <1>3, <1>4, <1>5, <1>6

-----------------------------------------------------------------------------
(* The button and the life of a session *)

LEMMA ClickInv ==
    ASSUME DotsInv, NEW s \in Sessions, NEW port, NEW id, Click(s, port, id)
    PROVE  DotsInv'
<1> DEFINE u == ui[s]
<1> DEFINE v == [u EXCEPT !.transmitter_tcp_port_ = port, !.scale = id,
                          !.tl_request_ = FALSE]
<1>1. SessionInv(u)
  BY DEF DotsInv
<1>2. ui' = [ui EXCEPT ![s] = v]
  BY <1>1 DEF Click, DotsInv, SessionInv, Fields
<1>3. SessionInv(v)
  <2> HIDE DEF u
  <2> QED
    BY <1>1 DEF SessionInv, Fields
<1> QED
  BY <1>2, <1>3, OneSession

LEMMA EndSessionInv ==
    ASSUME DotsInv, NEW s \in Sessions, EndSession(s)
    PROVE  DotsInv'
<1> DEFINE v == [NewSession EXCEPT !.scale = ui[s].scale]
<1>1. SessionInv(v)
  <2>1. SessionInv(NewSession)
    BY NewSessionInv
  <2> QED
    BY <2>1 DEF SessionInv, Fields
<1>2. ui' = [ui EXCEPT ![s] = v]
  BY DEF EndSession
<1> QED
  BY <1>1, <1>2, OneSession

-----------------------------------------------------------------------------

LEMMA DotsInvInit == Init => DotsInv
BY NewSessionInv DEF Init, LiaisonInit, DotsInv

LEMMA DotsInvNext == DotsInv /\ [Next]_vars => DotsInv'
<1> SUFFICES ASSUME DotsInv, [Next]_vars
             PROVE  DotsInv'
  OBVIOUS
<1>1. ASSUME UNCHANGED ui PROVE DotsInv'
  BY <1>1 DEF DotsInv
<1>2. ASSUME NEW s \in Sessions, SessionStep(s) PROVE DotsInv'
  BY <1>2, HandlePacketStartInv, HandleBellhopRespInv, PaintEventInv,
     OtherHandlersInv DEF SessionStep
<1>3. ASSUME NEW s \in Sessions, NEW port \in Ports, RequestPlot(s, port)
      PROVE  DotsInv'
  BY <1>3, ClickInv DEF RequestPlot
<1>4. ASSUME NEW s \in Sessions, Leave(s) \/ RequestTooEarly(s)
      PROVE  DotsInv'
  BY <1>4, EndSessionInv DEF Leave, RequestTooEarly, ClickTooEarly
<1>5. ASSUME NEW s \in Sessions, Open(s) \/ HandleBellhopRequest(s)
      PROVE  UNCHANGED ui
  BY <1>5 DEF Open, OpenSession, HandleBellhopRequest, liaison_vars
<1>6. ASSUME NEW g \in Gateways, GatewayStep(g) \/ AskIBellhop(g)
      PROVE  UNCHANGED ui
  BY <1>6 DEF GatewayStep, AskIBellhop, liaison_vars
<1>7. ASSUME TLPlot \/ AudioImages PROVE UNCHANGED ui
  BY <1>7 DEF TLPlot, AudioImages
<1>8. ASSUME NEW r, StartPacket(r) \/ ClosePacket(r) \/ Publish(r)
      PROVE  UNCHANGED ui
  BY <1>8 DEF StartPacket, ClosePacket, Publish, Report
<1>9. CASE UNCHANGED vars
  BY <1>1, <1>9 DEF vars, liaison_vars
<1>10. CASE SystemStep
  BY <1>1, <1>2, <1>5, <1>6, <1>7, <1>10 DEF SystemStep
<1>11. CASE Stimulus
  BY <1>1, <1>3, <1>4, <1>5, <1>6, <1>8, <1>11 DEF Stimulus
<1> QED
  BY <1>9, <1>10, <1>11 DEF Next

(* In every behaviour of the display, with any number of sessions, the dots *)
(* a session draws were noted after the answer whose plot is below them     *)
(* (handle_bellhop_resp clears them, handle_new_log notes them, paintEvent  *)
(* draws them).                                                             *)
THEOREM DotsBelongToThePlot == Spec => []DotsOfThisPlot
<1>1. DotsInv => DotsOfThisPlot
  BY DEF DotsInv, SessionInv, AllOver, DotsOfThisPlot
<1> QED
  BY <1>1, DotsInvInit, DotsInvNext, PTL DEF Spec

-----------------------------------------------------------------------------
(* The way of a request for a plot.                                         *)
(*                                                                          *)
(* While one session alone has asked, its request is at one place of the    *)
(* chain at most, and at none when its button is enabled.  In a queue, the  *)
(* elements that matter are those whose field f is v: what is addressed to  *)
(* the gateway's own environment, the requests of the gateway, the answers  *)
(* to them, the posted answers.                                             *)

NoneOwn(q, f, v) == IsSeq(q) /\ \A i \in DOMAIN q : q[i][f] # v

OneOwn(q, f, v, id) ==
    /\ IsSeq(q)
    /\ \E k \in DOMAIN q :
          /\ q[k][f] = v /\ q[k].id = id
          /\ \A i \in DOMAIN q : i # k => q[i][f] # v

Holds(q, f, v, id, here) ==
    /\ here => OneOwn(q, f, v, id)
    /\ ~here => NoneOwn(q, f, v)

\* The request id is at place p, of gateway h if the place is a gateway's.
Route(p, h, id, request, env, asked, answered, resp, posted) ==
    /\ p = "request" => request = <<id>>
    /\ p # "request" => request = <<>>
    /\ DOMAIN env = Gateways /\ DOMAIN asked = Gateways /\ DOMAIN answered = Gateways
    /\ \A g \in Gateways :
          Holds(env[g], "environment", EnvironmentId(g), id, p = "env" /\ g = h)
    /\ \A g \in Gateways :
          Holds(asked[g], "source", "Translator", id, p = "asked" /\ g = h)
    /\ \A g \in Gateways :
          Holds(answered[g], "requestor", "Translator", id, p = "answered" /\ g = h)
    /\ Holds(resp, "requestor", "Translator", id, p = "resp")
    /\ Holds(posted, "kind", "resp", id, p = "posted")

\* The image to be painted is the one that the scale is for.
Screen(u) ==
    /\ u.canvas[1] = u.canvas[2]
    /\ u.tl_image_path_ # NoClick => u.dirty /\ u.tl_image_path_ = u.scale

Followed(s) ==
    \E p, h :
        /\ Route(p, h, ui[s].scale, bellhop_request[s], env_bellhop_req,
                 BELLHOP_REQUEST, BELLHOP_RESPONSE, bellhop_response, wt[s])
        /\ stage[s] # "ended" /\ ui[s].tl_request_ => p = "nowhere"

PlotTypes ==
    /\ DOMAIN wt = Sessions /\ DOMAIN stage = Sessions
    /\ DOMAIN bellhop_request = Sessions
    /\ clicks \in Nat
    /\ NoneOwn(logger_event, "kind", "resp")

Unasked == \A s \in Sessions : ui[s].scale = NoClick => bellhop_request[s] = <<>>

PlotInv ==
    /\ PlotTypes
    /\ Unasked
    /\ \A s \in Sessions : OthersClicked(s) \/ (Screen(ui[s]) /\ Followed(s))

-----------------------------------------------------------------------------
(* Queues *)

LEMMA EmptyHasNone == \A f, v : NoneOwn(<<>>, f, v)
<1>1. <<>> \in Seq({})
  OBVIOUS
<1> QED
  BY <1>1 DEF NoneOwn, IsSeq

LEMMA Appended ==
    ASSUME NEW q, IsSeq(q), NEW x
    PROVE  /\ IsSeq(Append(q, x))
           /\ DOMAIN Append(q, x) = DOMAIN q \cup {Len(q) + 1}
           /\ Len(q) + 1 \notin DOMAIN q
           /\ \A i \in DOMAIN q : Append(q, x)[i] = q[i]
           /\ Append(q, x)[Len(q) + 1] = x
<1>1. PICK S : q \in Seq(S)
  BY DEF IsSeq
<1>2. q \in Seq(S \cup {x}) /\ Append(q, x) \in Seq(S \cup {x})
  BY <1>1
<1>3. IsSeq(Append(q, x))
  BY <1>2 DEF IsSeq
<1> QED
  BY <1>1, <1>3

LEMMA Taken ==
    ASSUME NEW q, IsSeq(q), q # <<>>
    PROVE  /\ IsSeq(Tail(q))
           /\ 1 \in DOMAIN q /\ Head(q) = q[1]
           /\ \A i \in DOMAIN Tail(q) : i + 1 \in DOMAIN q /\ i + 1 # 1 /\ Tail(q)[i] = q[i + 1]
           /\ \A i \in DOMAIN q : i # 1 => \E j \in DOMAIN Tail(q) : j + 1 = i
           /\ \A i, j \in DOMAIN Tail(q) : i # j => i + 1 # j + 1
<1>1. PICK S : q \in Seq(S)
  BY DEF IsSeq
<1>2. Tail(q) \in Seq(S) /\ Len(q) \in Nat /\ Len(q) # 0
  BY <1>1
<1>3. IsSeq(Tail(q))
  BY <1>2 DEF IsSeq
<1>4. DOMAIN q = 1..Len(q) /\ DOMAIN Tail(q) = 1..(Len(q) - 1)
  BY <1>1, <1>2
<1>5. \A i \in DOMAIN Tail(q) : i + 1 \in DOMAIN q /\ i + 1 # 1 /\ Tail(q)[i] = q[i + 1]
  BY <1>1, <1>2, <1>4
<1>6. ASSUME NEW i \in DOMAIN q, i # 1 PROVE \E j \in DOMAIN Tail(q) : j + 1 = i
  <2>1. i - 1 \in DOMAIN Tail(q) /\ (i - 1) + 1 = i
    BY <1>2, <1>4, <1>6
  <2> QED BY <2>1
<1>7. \A i, j \in DOMAIN Tail(q) : i # j => i + 1 # j + 1
  BY <1>4
<1> QED
  BY <1>1, <1>2, <1>3, <1>4, <1>5, <1>6, <1>7

\* What is not looked for comes or goes: the rest stays as it was.
LEMMA OtherComes ==
    ASSUME NEW q, NEW f, NEW v, NEW id, NEW here \in BOOLEAN, Holds(q, f, v, id, here),
           NEW x, x[f] # v
    PROVE  Holds(Append(q, x), f, v, id, here)
<1>1. IsSeq(q)
  BY DEF Holds, OneOwn, NoneOwn
<1> DEFINE r == Append(q, x)
<1>2. /\ IsSeq(r)
      /\ DOMAIN r = DOMAIN q \cup {Len(q) + 1}
      /\ Len(q) + 1 \notin DOMAIN q
      /\ \A i \in DOMAIN q : r[i] = q[i]
      /\ r[Len(q) + 1] = x
  BY <1>1, Appended
<1> HIDE DEF r
<1>3. CASE here
  <2>1. PICK k \in DOMAIN q :
          /\ q[k][f] = v /\ q[k].id = id
          /\ \A i \in DOMAIN q : i # k => q[i][f] # v
    BY <1>3 DEF Holds, OneOwn
  <2>2. /\ k \in DOMAIN r /\ r[k][f] = v /\ r[k].id = id
        /\ \A i \in DOMAIN r : i # k => r[i][f] # v
    BY <1>2, <2>1
  <2>3. OneOwn(r, f, v, id)
    BY <1>2, <2>2 DEF OneOwn
  <2> QED BY <1>3, <2>3 DEF Holds, r
<1>4. CASE ~here
  <2>1. NoneOwn(r, f, v)
    BY <1>2, <1>4 DEF Holds, NoneOwn
  <2> QED BY <1>4, <2>1 DEF Holds, r
<1> QED BY <1>3, <1>4

LEMMA OwnComes ==
    ASSUME NEW q, NEW f, NEW v, NEW id, NEW was, Holds(q, f, v, was, FALSE),
           NEW x, x[f] = v, x.id = id
    PROVE  Holds(Append(q, x), f, v, id, TRUE)
<1>1. NoneOwn(q, f, v)
  BY DEF Holds
<1> DEFINE r == Append(q, x)
<1>2. /\ IsSeq(r)
      /\ DOMAIN r = DOMAIN q \cup {Len(q) + 1}
      /\ Len(q) + 1 \notin DOMAIN q
      /\ \A i \in DOMAIN q : r[i] = q[i]
      /\ r[Len(q) + 1] = x
  BY <1>1, Appended DEF NoneOwn
<1> HIDE DEF r
<1>3. /\ Len(q) + 1 \in DOMAIN r
      /\ r[Len(q) + 1][f] = v /\ r[Len(q) + 1].id = id
      /\ \A i \in DOMAIN r : i # Len(q) + 1 => r[i][f] # v
  BY <1>1, <1>2 DEF NoneOwn
<1>4. OneOwn(r, f, v, id)
  BY <1>2, <1>3 DEF OneOwn
<1> QED BY <1>4 DEF Holds, r

LEMMA OtherGoes ==
    ASSUME NEW q, NEW f, NEW v, NEW id, NEW here \in BOOLEAN, Holds(q, f, v, id, here),
           q # <<>>, Head(q)[f] # v
    PROVE  Holds(Tail(q), f, v, id, here)
<1>1. IsSeq(q)
  BY DEF Holds, OneOwn, NoneOwn
<1> DEFINE r == Tail(q)
<1>2. /\ IsSeq(r) /\ 1 \in DOMAIN q /\ Head(q) = q[1]
      /\ \A i \in DOMAIN r : i + 1 \in DOMAIN q /\ i + 1 # 1 /\ r[i] = q[i + 1]
      /\ \A i \in DOMAIN q : i # 1 => \E j \in DOMAIN r : j + 1 = i
      /\ \A i, j \in DOMAIN r : i # j => i + 1 # j + 1
  BY <1>1, Taken
<1> HIDE DEF r
<1>3. CASE here
  <2>1. PICK k \in DOMAIN q :
          /\ q[k][f] = v /\ q[k].id = id
          /\ \A i \in DOMAIN q : i # k => q[i][f] # v
    BY <1>3 DEF Holds, OneOwn
  <2>2. PICK j \in DOMAIN r : j + 1 = k
    BY <1>2, <2>1
  <2>3. /\ r[j][f] = v /\ r[j].id = id
        /\ \A i \in DOMAIN r : i # j => r[i][f] # v
    BY <1>2, <2>1, <2>2
  <2>4. OneOwn(r, f, v, id)
    BY <1>2, <2>3 DEF OneOwn
  <2> QED BY <1>3, <2>4 DEF Holds, r
<1>4. CASE ~here
  <2>1. NoneOwn(r, f, v)
    BY <1>2, <1>4 DEF Holds, NoneOwn
  <2> QED BY <1>4, <2>1 DEF Holds, r
<1> QED BY <1>3, <1>4

LEMMA OwnGoes ==
    ASSUME NEW q, NEW f, NEW v, NEW id, NEW here \in BOOLEAN, Holds(q, f, v, id, here),
           q # <<>>, Head(q)[f] = v
    PROVE  here /\ Head(q).id = id /\ Holds(Tail(q), f, v, id, FALSE)
<1>1. IsSeq(q)
  BY DEF Holds, OneOwn, NoneOwn
<1> DEFINE r == Tail(q)
<1>2. /\ IsSeq(r) /\ 1 \in DOMAIN q /\ Head(q) = q[1]
      /\ \A i \in DOMAIN r : i + 1 \in DOMAIN q /\ i + 1 # 1 /\ r[i] = q[i + 1]
  BY <1>1, Taken
<1> HIDE DEF r
<1>3. here
  BY <1>2 DEF Holds, NoneOwn
<1>4. PICK k \in DOMAIN q :
         /\ q[k][f] = v /\ q[k].id = id
         /\ \A i \in DOMAIN q : i # k => q[i][f] # v
  BY <1>3 DEF Holds, OneOwn
<1>5. k = 1
  BY <1>2, <1>4
<1>6. NoneOwn(r, f, v)
  BY <1>2, <1>4, <1>5 DEF NoneOwn
<1> QED BY <1>2, <1>3, <1>4, <1>5, <1>6 DEF Holds, r

\* Where nothing is held, it does not matter for which request.
LEMMA AnyId ==
    ASSUME NEW q, NEW f, NEW v, NEW id, NEW other, Holds(q, f, v, id, FALSE)
    PROVE  Holds(q, f, v, other, FALSE)
BY DEF Holds

-----------------------------------------------------------------------------
(* Steps of the request along its way *)

\* What a step does to the queues it takes from and puts to.
Publishes(x, request, env, env2) ==
    /\ request # <<>> /\ x.id = Head(request)
    /\ env2 = [g \in Gateways |-> Append(env[g], x)]

Forwards(g, x, env, asked, env2, asked2) ==
    /\ env[g] # <<>>
    /\ env2 = [env EXCEPT ![g] = Tail(env[g])]
    /\ x.source = "Translator" /\ x.id = Head(env[g]).id
    /\ asked2 = IF Head(env[g]).environment = EnvironmentId(g)
                THEN [asked EXCEPT ![g] = Append(asked[g], x)] ELSE asked

Answers(g, x, asked, answered, asked2, answered2) ==
    /\ asked[g] # <<>>
    /\ asked2 = [asked EXCEPT ![g] = Tail(asked[g])]
    /\ x.requestor = Head(asked[g]).source /\ x.id = Head(asked[g]).id
    /\ answered2 = [answered EXCEPT ![g] = Append(answered[g], x)]

Returns(g, answered, resp, answered2, resp2) ==
    /\ answered[g] # <<>>
    /\ answered2 = [answered EXCEPT ![g] = Tail(answered[g])]
    /\ resp2 = Append(resp, Head(answered[g]))

LEMMA RouteBegins ==
    ASSUME NEW h, NEW was, NEW id, NEW request, NEW env, NEW asked, NEW answered,
           NEW resp, NEW posted,
           Route("nowhere", h, was, request, env, asked, answered, resp, posted)
    PROVE  /\ request = <<>>
           /\ Route("request", h, id, <<id>>, env, asked, answered, resp, posted)
<1>1. \A g \in Gateways : Holds(env[g], "environment", EnvironmentId(g), id, FALSE)
  BY AnyId DEF Route
<1>2. \A g \in Gateways : Holds(asked[g], "source", "Translator", id, FALSE)
  BY AnyId DEF Route
<1>3. \A g \in Gateways : Holds(answered[g], "requestor", "Translator", id, FALSE)
  BY AnyId DEF Route
<1>4. Holds(resp, "requestor", "Translator", id, FALSE)
  BY AnyId DEF Route
<1>5. Holds(posted, "kind", "resp", id, FALSE)
  BY AnyId DEF Route
<1> QED
  BY <1>1, <1>2, <1>3, <1>4, <1>5 DEF Route

\* netsim_manager publishes it to every gateway; one at most is addressed.
LEMMA RouteToGateways ==
    ASSUME NEW p, NEW h, NEW id, NEW request, NEW env, NEW asked, NEW answered,
           NEW resp, NEW posted, NEW x, NEW env2,
           Route(p, h, id, request, env, asked, answered, resp, posted),
           Publishes(x, request, env, env2)
    PROVE  /\ p # "nowhere"
           /\ \E q, k : Route(q, k, id, <<>>, env2, asked, answered, resp, posted)
<1>1. p = "request" /\ request = <<id>> /\ Head(request) = id
  BY DEF Route, Publishes
<1> DEFINE e == x.environment
<1>2. x["environment"] = e /\ x.id = id
  BY <1>1 DEF Publishes
<1>3. DOMAIN env2 = Gateways /\ \A g \in Gateways : env2[g] = Append(env[g], x)
  BY DEF Publishes
<1>4. \A g \in Gateways : Holds(env[g], "environment", EnvironmentId(g), id, FALSE)
  BY <1>1 DEF Route
<1> HIDE DEF e
<1>5. \A g \in Gateways : e = EnvironmentId(g) =>
         Holds(env2[g], "environment", EnvironmentId(g), id, TRUE)
  BY <1>2, <1>3, <1>4, OwnComes
<1>6. \A g \in Gateways : e # EnvironmentId(g) =>
         Holds(env2[g], "environment", EnvironmentId(g), id, FALSE)
  BY <1>2, <1>3, <1>4, OtherComes
<1>7. CASE \E g \in Gateways : e = EnvironmentId(g)
  <2>1. PICK k \in Gateways : e = EnvironmentId(k)
    BY <1>7
  <2>2. \A g \in Gateways : e = EnvironmentId(g) <=> g = k
    BY <2>1, GatewaysAssumption
  <2>3. Route("env", k, id, <<>>, env2, asked, answered, resp, posted)
    BY <1>1, <1>3, <1>5, <1>6, <2>2 DEF Route
  <2> QED BY <1>1, <2>3
<1>8. CASE ~\E g \in Gateways : e = EnvironmentId(g)
  <2>1. Route("nowhere", h, id, <<>>, env2, asked, answered, resp, posted)
    BY <1>1, <1>3, <1>6, <1>8 DEF Route
  <2> QED BY <1>1, <2>1
<1> QED BY <1>7, <1>8

\* What leaves a queue is the request, and the queue holds it no longer.
LEMMA OwnTaken ==
    ASSUME NEW q, NEW id, NEW here \in BOOLEAN, NEW e
    PROVE  /\ Holds(q, "environment", e, id, here) /\ q # <<>> /\ Head(q).environment = e =>
                 here /\ Head(q).id = id /\ Holds(Tail(q), "environment", e, id, FALSE)
           /\ Holds(q, "source", e, id, here) /\ q # <<>> /\ Head(q).source = e =>
                 here /\ Head(q).id = id /\ Holds(Tail(q), "source", e, id, FALSE)
           /\ Holds(q, "requestor", e, id, here) /\ q # <<>> /\ Head(q).requestor = e =>
                 here /\ Head(q).id = id /\ Holds(Tail(q), "requestor", e, id, FALSE)
           /\ Holds(q, "kind", e, id, here) /\ q # <<>> /\ Head(q).kind = e =>
                 here /\ Head(q).id = id /\ Holds(Tail(q), "kind", e, id, FALSE)
<1>1. \A f : Holds(q, f, e, id, here) /\ q # <<>> /\ Head(q)[f] = e =>
               here /\ Head(q).id = id /\ Holds(Tail(q), f, e, id, FALSE)
  BY OwnGoes
<1> QED BY <1>1

LEMMA RouteToMoos ==
    ASSUME NEW p, NEW h, NEW id, NEW request, NEW env, NEW asked, NEW answered,
           NEW resp, NEW posted, NEW env2, NEW asked2, NEW g \in Gateways, NEW x,
           Route(p, h, id, request, env, asked, answered, resp, posted),
           Forwards(g, x, env, asked, env2, asked2)
    PROVE  \E q, k : /\ Route(q, k, id, request, env2, asked2, answered, resp, posted)
                     /\ p = "nowhere" => q = "nowhere"
<1> DEFINE here == p = "env" /\ g = h
<1>0. here \in BOOLEAN
  OBVIOUS
<1>1. Holds(env[g], "environment", EnvironmentId(g), id, here)
  BY DEF Route
<1>2. /\ DOMAIN env2 = Gateways /\ DOMAIN asked2 = Gateways
      /\ env[g] # <<>> /\ env2[g] = Tail(env[g])
      /\ \A i \in Gateways \ {g} : env2[i] = env[i] /\ asked2[i] = asked[i]
      /\ x.source = "Translator" /\ x.id = Head(env[g]).id
  BY DEF Route, Forwards
<1>3. CASE Head(env[g]).environment = EnvironmentId(g)
  <2>1. here /\ Head(env[g]).id = id
        /\ Holds(Tail(env[g]), "environment", EnvironmentId(g), id, FALSE)
    BY <1>0, <1>1, <1>2, <1>3, OwnTaken
  <2>2. Holds(asked[g], "source", "Translator", id, FALSE)
    BY <2>1 DEF Route
  <2>3. asked2[g] = Append(asked[g], x)
    BY <1>3 DEF Route, Forwards
  <2>4. Holds(asked2[g], "source", "Translator", id, TRUE)
    BY <1>2, <2>1, <2>2, <2>3, OwnComes
  <2>5. Route("asked", g, id, request, env2, asked2, answered, resp, posted)
    BY <1>2, <2>1, <2>4 DEF Route
  <2> QED BY <2>1, <2>5
<1>4. CASE Head(env[g]).environment # EnvironmentId(g)
  <2>1. Holds(Tail(env[g]), "environment", EnvironmentId(g), id, here)
    BY <1>0, <1>1, <1>2, <1>4, OtherGoes
  <2>2. asked2 = asked
    BY <1>4 DEF Forwards
  <2>3. Route(p, h, id, request, env2, asked2, answered, resp, posted)
    BY <1>2, <2>1, <2>2 DEF Route
  <2> QED BY <2>3
<1> QED BY <1>3, <1>4

LEMMA RouteOther ==
    ASSUME NEW p, NEW h, NEW id, NEW request, NEW env, NEW asked, NEW answered,
           NEW resp, NEW posted, NEW asked2, NEW g \in Gateways, NEW x,
           Route(p, h, id, request, env, asked, answered, resp, posted),
           x.source # "Translator", asked2 = [asked EXCEPT ![g] = Append(asked[g], x)]
    PROVE  Route(p, h, id, request, env, asked2, answered, resp, posted)
<1> DEFINE here == p = "asked" /\ g = h
<1>1. Holds(asked[g], "source", "Translator", id, here) /\ here \in BOOLEAN
  BY DEF Route
<1>2. Holds(Append(asked[g], x), "source", "Translator", id, here)
  BY <1>1, OtherComes
<1>3. /\ DOMAIN asked2 = Gateways /\ asked2[g] = Append(asked[g], x)
      /\ \A i \in Gateways \ {g} : asked2[i] = asked[i]
  BY DEF Route
<1> QED BY <1>2, <1>3 DEF Route

LEMMA RouteAnswered ==
    ASSUME NEW p, NEW h, NEW id, NEW request, NEW env, NEW asked, NEW answered,
           NEW resp, NEW posted, NEW asked2, NEW answered2, NEW g \in Gateways, NEW x,
           Route(p, h, id, request, env, asked, answered, resp, posted),
           Answers(g, x, asked, answered, asked2, answered2)
    PROVE  \E q, k : /\ Route(q, k, id, request, env, asked2, answered2, resp, posted)
                     /\ p = "nowhere" => q = "nowhere"
<1> DEFINE here == p = "asked" /\ g = h
           there == p = "answered" /\ g = h
<1>0. here \in BOOLEAN /\ there \in BOOLEAN
  OBVIOUS
<1>1. /\ Holds(asked[g], "source", "Translator", id, here)
      /\ Holds(answered[g], "requestor", "Translator", id, there)
  BY DEF Route
<1>2. /\ DOMAIN asked2 = Gateways /\ DOMAIN answered2 = Gateways
      /\ asked2[g] = Tail(asked[g]) /\ answered2[g] = Append(answered[g], x)
      /\ \A i \in Gateways \ {g} : asked2[i] = asked[i] /\ answered2[i] = answered[i]
      /\ asked[g] # <<>>
      /\ x.requestor = Head(asked[g]).source /\ x.id = Head(asked[g]).id
  BY DEF Route, Answers
<1>3. CASE Head(asked[g]).source = "Translator"
  <2>1. here /\ Head(asked[g]).id = id
        /\ Holds(Tail(asked[g]), "source", "Translator", id, FALSE)
    BY <1>0, <1>1, <1>2, <1>3, OwnTaken
  <2>2. Holds(answered[g], "requestor", "Translator", id, FALSE)
    BY <2>1 DEF Route
  <2>3. Holds(answered2[g], "requestor", "Translator", id, TRUE)
    BY <1>0, <1>2, <1>3, <2>1, <2>2, OwnComes
  <2>4. Route("answered", g, id, request, env, asked2, answered2, resp, posted)
    BY <1>2, <2>1, <2>3 DEF Route
  <2> QED BY <2>1, <2>4
<1>4. CASE Head(asked[g]).source # "Translator"
  <2>1. Holds(Tail(asked[g]), "source", "Translator", id, here)
    BY <1>0, <1>1, <1>2, <1>4, OtherGoes
  <2>2. Holds(answered2[g], "requestor", "Translator", id, there)
    BY <1>0, <1>1, <1>2, <1>4, OtherComes
  <2>3. Route(p, h, id, request, env, asked2, answered2, resp, posted)
    BY <1>2, <2>1, <2>2 DEF Route
  <2> QED BY <2>3
<1> QED BY <1>3, <1>4

LEMMA RouteToGoby ==
    ASSUME NEW p, NEW h, NEW id, NEW request, NEW env, NEW asked, NEW answered,
           NEW resp, NEW posted, NEW answered2, NEW resp2, NEW g \in Gateways,
           Route(p, h, id, request, env, asked, answered, resp, posted),
           Returns(g, answered, resp, answered2, resp2)
    PROVE  \E q, k : /\ Route(q, k, id, request, env, asked, answered2, resp2, posted)
                     /\ p = "nowhere" => q = "nowhere"
<1> DEFINE here == p = "answered" /\ g = h
           there == p = "resp"
<1>0. here \in BOOLEAN /\ there \in BOOLEAN
  OBVIOUS
<1>1. /\ Holds(answered[g], "requestor", "Translator", id, here)
      /\ Holds(resp, "requestor", "Translator", id, there)
  BY DEF Route
<1>2. /\ DOMAIN answered2 = Gateways /\ answered2[g] = Tail(answered[g])
      /\ \A i \in Gateways \ {g} : answered2[i] = answered[i]
      /\ answered[g] # <<>> /\ resp2 = Append(resp, Head(answered[g]))
  BY DEF Route, Returns
<1>3. CASE Head(answered[g]).requestor = "Translator"
  <2>1. here /\ Head(answered[g]).id = id
        /\ Holds(Tail(answered[g]), "requestor", "Translator", id, FALSE)
    BY <1>0, <1>1, <1>2, <1>3, OwnTaken
  <2>2. Holds(resp, "requestor", "Translator", id, FALSE)
    BY <2>1 DEF Route
  <2>3. Holds(resp2, "requestor", "Translator", id, TRUE)
    BY <1>2, <1>3, <2>1, <2>2, OwnComes
  <2>4. Route("resp", g, id, request, env, asked, answered2, resp2, posted)
    BY <1>2, <2>1, <2>3 DEF Route
  <2> QED BY <2>1, <2>4
<1>4. CASE Head(answered[g]).requestor # "Translator"
  <2>1. Holds(Tail(answered[g]), "requestor", "Translator", id, here)
    BY <1>0, <1>1, <1>2, <1>4, OtherGoes
  <2>2. Holds(resp2, "requestor", "Translator", id, there)
    BY <1>0, <1>1, <1>2, <1>4, OtherComes
  <2>3. Route(p, h, id, request, env, asked, answered2, resp2, posted)
    BY <1>2, <2>1, <2>2 DEF Route
  <2> QED BY <2>3
<1> QED BY <1>3, <1>4

\* TLPlotThread posts the answer to the session, if it still is connected.
LEMMA RoutePlotted ==
    ASSUME NEW p, NEW h, NEW id, NEW request, NEW env, NEW asked, NEW answered,
           NEW resp, NEW posted, NEW x,
           Route(p, h, id, request, env, asked, answered, resp, posted),
           resp # <<>>, Head(resp).requestor = "Translator",
           x.kind = "resp", x.id = Head(resp).id
    PROVE  /\ p # "nowhere"
           /\ Route("posted", h, id, request, env, asked, answered, Tail(resp), Append(posted, x))
           /\ Route("nowhere", h, id, request, env, asked, answered, Tail(resp), posted)
<1> DEFINE here == p = "resp"
<1>1. here \in BOOLEAN /\ Holds(resp, "requestor", "Translator", id, here)
  BY DEF Route
<1>2. here /\ Head(resp).id = id /\ Holds(Tail(resp), "requestor", "Translator", id, FALSE)
  BY <1>1, OwnTaken
<1>3. Holds(posted, "kind", "resp", id, FALSE)
  BY <1>2 DEF Route
<1>4. Holds(Append(posted, x), "kind", "resp", id, TRUE)
  BY <1>2, <1>3, OwnComes
<1> QED
  BY <1>2, <1>3, <1>4 DEF Route

LEMMA RouteNotPlotted ==
    ASSUME NEW p, NEW h, NEW id, NEW request, NEW env, NEW asked, NEW answered,
           NEW resp, NEW posted,
           Route(p, h, id, request, env, asked, answered, resp, posted),
           resp # <<>>, Head(resp).requestor # "Translator"
    PROVE  Route(p, h, id, request, env, asked, answered, Tail(resp), posted)
<1> DEFINE here == p = "resp"
<1>1. here \in BOOLEAN /\ Holds(resp, "requestor", "Translator", id, here)
  BY DEF Route
<1>2. Holds(Tail(resp), "requestor", "Translator", id, here)
  BY <1>1, OtherGoes
<1> QED BY <1>2 DEF Route

\* Everything else that is posted to the session, and that it handles.
LEMMA RoutePosted ==
    ASSUME NEW p, NEW h, NEW id, NEW request, NEW env, NEW asked, NEW answered,
           NEW resp, NEW posted, NEW x, x.kind # "resp",
           Route(p, h, id, request, env, asked, answered, resp, posted)
    PROVE  Route(p, h, id, request, env, asked, answered, resp, Append(posted, x))
<1> DEFINE here == p = "posted"
<1>1. here \in BOOLEAN /\ Holds(posted, "kind", "resp", id, here)
  BY DEF Route
<1>2. Holds(Append(posted, x), "kind", "resp", id, here)
  BY <1>1, OtherComes
<1> QED BY <1>2 DEF Route

LEMMA RouteHandled ==
    ASSUME NEW p, NEW h, NEW id, NEW request, NEW env, NEW asked, NEW answered,
           NEW resp, NEW posted, posted # <<>>, Head(posted).kind # "resp",
           Route(p, h, id, request, env, asked, answered, resp, posted)
    PROVE  Route(p, h, id, request, env, asked, answered, resp, Tail(posted))
<1> DEFINE here == p = "posted"
<1>1. here \in BOOLEAN /\ Holds(posted, "kind", "resp", id, here)
  BY DEF Route
<1>2. Holds(Tail(posted), "kind", "resp", id, here)
  BY <1>1, OtherGoes
<1> QED BY <1>2 DEF Route

LEMMA RouteEnds ==
    ASSUME NEW p, NEW h, NEW id, NEW request, NEW env, NEW asked, NEW answered,
           NEW resp, NEW posted, posted # <<>>, Head(posted).kind = "resp",
           Route(p, h, id, request, env, asked, answered, resp, posted)
    PROVE  /\ Head(posted).id = id
           /\ Route("nowhere", h, id, request, env, asked, answered, resp, Tail(posted))
<1> DEFINE here == p = "posted"
<1>1. here \in BOOLEAN /\ Holds(posted, "kind", "resp", id, here)
  BY DEF Route
<1>2. here /\ Head(posted).id = id /\ Holds(Tail(posted), "kind", "resp", id, FALSE)
  BY <1>1, OwnTaken
<1> QED BY <1>2 DEF Route

\* A session that ends takes with it what is posted to it and perhaps its
\* request.
LEMMA RouteLeft ==
    ASSUME NEW p, NEW h, NEW id, NEW request, NEW env, NEW asked, NEW answered,
           NEW resp, NEW posted, NEW left \in {request, <<>>},
           Route(p, h, id, request, env, asked, answered, resp, posted)
    PROVE  \E q, k : Route(q, k, id, left, env, asked, answered, resp, <<>>)
<1>1. Holds(<<>>, "kind", "resp", id, FALSE)
  BY EmptyHasNone DEF Holds
<1>2. CASE p = "posted" \/ (p = "request" /\ left = <<>>)
  <2>1. Route("nowhere", h, id, left, env, asked, answered, resp, <<>>)
    BY <1>1, <1>2 DEF Route
  <2> QED BY <2>1
<1>3. CASE ~(p = "posted" \/ (p = "request" /\ left = <<>>))
  <2>1. Route(p, h, id, left, env, asked, answered, resp, <<>>)
    BY <1>1, <1>3 DEF Route
  <2> QED BY <2>1
<1> QED BY <1>2, <1>3

-----------------------------------------------------------------------------
(* The steps of the system, as one session sees them *)

\* A step that changes no session's own state keeps the invariant when it takes
\* a lone request on its way.
LEMMA OnTheWay ==
    ASSUME PlotInv, PlotTypes', Unasked', UNCHANGED <<stage, ui>>,
           ASSUME NEW s \in Sessions, ~OthersClicked(s), NEW p, NEW h,
                  Route(p, h, ui[s].scale, bellhop_request[s], env_bellhop_req,
                        BELLHOP_REQUEST, BELLHOP_RESPONSE, bellhop_response, wt[s])
           PROVE  \E q, k :
                    /\ Route(q, k, ui[s].scale, bellhop_request'[s], env_bellhop_req',
                             BELLHOP_REQUEST', BELLHOP_RESPONSE', bellhop_response', wt'[s])
                    /\ p = "nowhere" => q = "nowhere"
    PROVE  PlotInv'
<1> SUFFICES ASSUME NEW s \in Sessions, ~OthersClicked(s)'
             PROVE  Screen(ui[s])' /\ Followed(s)'
  BY DEF PlotInv
<1>1. ~OthersClicked(s)
  BY DEF OthersClicked
<1>2. Screen(ui[s]) /\ Followed(s)
  BY <1>1 DEF PlotInv
<1>3. PICK p, h :
        /\ Route(p, h, ui[s].scale, bellhop_request[s], env_bellhop_req,
                 BELLHOP_REQUEST, BELLHOP_RESPONSE, bellhop_response, wt[s])
        /\ stage[s] # "ended" /\ ui[s].tl_request_ => p = "nowhere"
  BY <1>2 DEF Followed
<1>4. PICK q, k :
        /\ Route(q, k, ui[s].scale, bellhop_request'[s], env_bellhop_req',
                 BELLHOP_REQUEST', BELLHOP_RESPONSE', bellhop_response', wt'[s])
        /\ p = "nowhere" => q = "nowhere"
  BY <1>1, <1>3
<1>5. Followed(s)'
  BY <1>3, <1>4 DEF Followed
<1>6. Screen(ui[s])'
  BY <1>2 DEF Screen
<1> QED BY <1>5, <1>6

LEMMA PlotInvInit == Init => PlotInv
<1> SUFFICES ASSUME Init PROVE PlotInv
  OBVIOUS
<1>1. PlotTypes
  BY EmptyHasNone DEF PlotTypes, Init, LiaisonInit
<1>2. Unasked
  BY DEF Unasked, Init
<1>3. ASSUME NEW s \in Sessions PROVE Screen(ui[s]) /\ Followed(s)
  <2>1. ui[s] = NewSession
    BY DEF Init, LiaisonInit
  <2>2. Screen(ui[s])
    BY <2>1 DEF Screen, NewSession
  <2>3. \A f, v, id : Holds(<<>>, f, v, id, FALSE)
    BY EmptyHasNone DEF Holds
  <2>4. /\ bellhop_request[s] = <<>> /\ bellhop_response = <<>> /\ wt[s] = <<>>
        /\ DOMAIN env_bellhop_req = Gateways /\ DOMAIN BELLHOP_REQUEST = Gateways
        /\ DOMAIN BELLHOP_RESPONSE = Gateways
        /\ \A g \in Gateways : /\ env_bellhop_req[g] = <<>> /\ BELLHOP_REQUEST[g] = <<>>
                               /\ BELLHOP_RESPONSE[g] = <<>>
    BY DEF Init, GatewayInit, LiaisonInit
  <2>5. Route("nowhere", 0, ui[s].scale, bellhop_request[s], env_bellhop_req,
              BELLHOP_REQUEST, BELLHOP_RESPONSE, bellhop_response, wt[s])
    BY <2>3, <2>4 DEF Route
  <2> QED BY <2>2, <2>5 DEF Followed
<1> QED BY <1>1, <1>2, <1>3 DEF PlotInv

LEMMA HandleBellhopRequestPlot ==
    ASSUME PlotInv, NEW s \in Sessions, HandleBellhopRequest(s)
    PROVE  PlotInv'
<1>1. /\ UNCHANGED <<stage, ui, wt, BELLHOP_REQUEST, BELLHOP_RESPONSE, bellhop_response,
                     logger_event, clicks>>
      /\ bellhop_request[s] # <<>>
      /\ bellhop_request' = [bellhop_request EXCEPT ![s] = Tail(bellhop_request[s])]
  BY DEF HandleBellhopRequest, liaison_vars
<1>2. PlotTypes'
  BY <1>1 DEF PlotInv, PlotTypes
<1>3. Unasked'
  BY <1>1 DEF PlotInv, PlotTypes, Unasked
<1>4. ASSUME NEW t \in Sessions, ~OthersClicked(t), NEW p, NEW h,
             Route(p, h, ui[t].scale, bellhop_request[t], env_bellhop_req,
                   BELLHOP_REQUEST, BELLHOP_RESPONSE, bellhop_response, wt[t])
      PROVE  \E q, k :
               /\ Route(q, k, ui[t].scale, bellhop_request'[t], env_bellhop_req',
                        BELLHOP_REQUEST', BELLHOP_RESPONSE', bellhop_response', wt'[t])
               /\ p = "nowhere" => q = "nowhere"
  <2>1. t = s
    BY <1>1, <1>4 DEF OthersClicked, PlotInv, Unasked
  <2>2. bellhop_request[t] = <<ui[t].scale>>
    BY <1>1, <1>4, <2>1 DEF Route
  <2>3. bellhop_request'[t] = <<>>
    BY <1>1, <2>1, <2>2 DEF PlotInv, PlotTypes
  <2> DEFINE x == [environment |-> EnvironmentOf(Head(bellhop_request[t]).ownship),
                   id |-> Head(bellhop_request[t])]
  <2>4. Publishes(x, bellhop_request[t], env_bellhop_req, env_bellhop_req')
    BY <2>1 DEF HandleBellhopRequest, PublishToGateways, Publishes
  <2> HIDE DEF x
  <2>5. /\ p # "nowhere"
        /\ \E q, k : Route(q, k, ui[t].scale, <<>>, env_bellhop_req', BELLHOP_REQUEST,
                           BELLHOP_RESPONSE, bellhop_response, wt[t])
    BY <1>4, <2>4, RouteToGateways
  <2> QED BY <1>1, <2>3, <2>5
<1> QED BY <1>1, <1>2, <1>3, <1>4, OnTheWay

LEMMA GatewayPlot ==
    ASSUME PlotInv, NEW g \in Gateways, GatewayStep(g) \/ AskIBellhop(g)
    PROVE  PlotInv'
<1>1. UNCHANGED <<stage, ui, wt, bellhop_request, logger_event, clicks>>
  BY DEF GatewayStep, AskIBellhop, liaison_vars, display_vars
<1>2. PlotTypes' /\ Unasked'
  BY <1>1 DEF PlotInv, PlotTypes, Unasked
<1>3. ASSUME NEW s \in Sessions, ~OthersClicked(s), NEW p, NEW h,
             Route(p, h, ui[s].scale, bellhop_request[s], env_bellhop_req,
                   BELLHOP_REQUEST, BELLHOP_RESPONSE, bellhop_response, wt[s])
      PROVE  \E q, k :
               /\ Route(q, k, ui[s].scale, bellhop_request'[s], env_bellhop_req',
                        BELLHOP_REQUEST', BELLHOP_RESPONSE', bellhop_response', wt'[s])
               /\ p = "nowhere" => q = "nowhere"
  <2>1. CASE GobyToMoos(g)
    <3> DEFINE x == [source |-> "Translator", id |-> Head(env_bellhop_req[g]).id]
    <3>1. Forwards(g, x, env_bellhop_req, BELLHOP_REQUEST, env_bellhop_req', BELLHOP_REQUEST')
      BY <2>1 DEF GobyToMoos, Forwards
    <3>2. UNCHANGED <<BELLHOP_RESPONSE, bellhop_response>>
      BY <2>1 DEF GobyToMoos
    <3> HIDE DEF x
    <3>3. \E q, k :
             /\ Route(q, k, ui[s].scale, bellhop_request[s], env_bellhop_req',
                      BELLHOP_REQUEST', BELLHOP_RESPONSE, bellhop_response, wt[s])
             /\ p = "nowhere" => q = "nowhere"
      BY <1>3, <3>1, RouteToMoos
    <3> QED BY <1>1, <3>2, <3>3
  <2>2. ASSUME NEW success, AnswerRequest(g, success)
        PROVE  \E q, k :
                 /\ Route(q, k, ui[s].scale, bellhop_request'[s], env_bellhop_req',
                          BELLHOP_REQUEST', BELLHOP_RESPONSE', bellhop_response', wt'[s])
                 /\ p = "nowhere" => q = "nowhere"
    <3> DEFINE x == [requestor |-> Head(BELLHOP_REQUEST[g]).source,
                     id |-> Head(BELLHOP_REQUEST[g]).id, success |-> success]
    <3>1. Answers(g, x, BELLHOP_REQUEST, BELLHOP_RESPONSE, BELLHOP_REQUEST', BELLHOP_RESPONSE')
      BY <2>2 DEF AnswerRequest, Answers
    <3>2. UNCHANGED <<env_bellhop_req, bellhop_response>>
      BY <2>2 DEF AnswerRequest
    <3> HIDE DEF x
    <3>3. \E q, k :
             /\ Route(q, k, ui[s].scale, bellhop_request[s], env_bellhop_req,
                      BELLHOP_REQUEST', BELLHOP_RESPONSE', bellhop_response, wt[s])
             /\ p = "nowhere" => q = "nowhere"
      BY <1>3, <3>1, RouteAnswered
    <3> QED BY <1>1, <3>2, <3>3
  <2>3. CASE MoosToGoby(g)
    <3>1. Returns(g, BELLHOP_RESPONSE, bellhop_response, BELLHOP_RESPONSE', bellhop_response')
      BY <2>3 DEF MoosToGoby, Returns
    <3>2. UNCHANGED <<env_bellhop_req, BELLHOP_REQUEST>>
      BY <2>3 DEF MoosToGoby
    <3>3. \E q, k :
             /\ Route(q, k, ui[s].scale, bellhop_request[s], env_bellhop_req,
                      BELLHOP_REQUEST, BELLHOP_RESPONSE', bellhop_response', wt[s])
             /\ p = "nowhere" => q = "nowhere"
      BY <1>3, <3>1, RouteToGoby
    <3> QED BY <1>1, <3>2, <3>3
  <2>4. CASE ForeignRequest(g)
    <3> DEFINE x == [source |-> "other", id |-> ForeignId]
    <3>1. x.source # "Translator"
      OBVIOUS
    <3>2. /\ BELLHOP_REQUEST' = [BELLHOP_REQUEST EXCEPT ![g] = Append(BELLHOP_REQUEST[g], x)]
          /\ UNCHANGED <<env_bellhop_req, BELLHOP_RESPONSE, bellhop_response>>
      BY <2>4 DEF ForeignRequest
    <3> HIDE DEF x
    <3>3. Route(p, h, ui[s].scale, bellhop_request[s], env_bellhop_req,
                BELLHOP_REQUEST', BELLHOP_RESPONSE, bellhop_response, wt[s])
      BY <1>3, <3>1, <3>2, RouteOther
    <3> QED BY <1>1, <3>2, <3>3
  <2> QED BY <2>1, <2>2, <2>3, <2>4 DEF GatewayStep, AskIBellhop
<1> QED BY <1>1, <1>2, <1>3, OnTheWay

LEMMA TLPlotPlot ==
    ASSUME PlotInv, TLPlot
    PROVE  PlotInv'
<1> DEFINE r == Head(bellhop_response)
           x == [kind |-> "resp", id |-> r.id, success |-> r.success]
<1>1. /\ UNCHANGED <<stage, ui, env_bellhop_req, BELLHOP_REQUEST, BELLHOP_RESPONSE,
                     bellhop_request, logger_event, clicks>>
      /\ bellhop_response # <<>> /\ bellhop_response' = Tail(bellhop_response)
  BY DEF TLPlot
<1>2. /\ DOMAIN wt' = Sessions
      /\ r.requestor = "Translator" =>
            \A s \in Sessions : wt'[s] \in {Append(wt[s], x), wt[s]}
      /\ r.requestor # "Translator" => wt' = wt
  BY DEF TLPlot, PlotTL, PostToWt, PlotInv, PlotTypes
<1>3. x.kind = "resp" /\ x.id = r.id
  OBVIOUS
<1>4. PlotTypes' /\ Unasked'
  BY <1>1, <1>2 DEF PlotInv, PlotTypes, Unasked
<1> HIDE DEF x
<1>5. ASSUME NEW s \in Sessions, ~OthersClicked(s), NEW p, NEW h,
             Route(p, h, ui[s].scale, bellhop_request[s], env_bellhop_req,
                   BELLHOP_REQUEST, BELLHOP_RESPONSE, bellhop_response, wt[s])
      PROVE  \E q, k :
               /\ Route(q, k, ui[s].scale, bellhop_request'[s], env_bellhop_req',
                        BELLHOP_REQUEST', BELLHOP_RESPONSE', bellhop_response', wt'[s])
               /\ p = "nowhere" => q = "nowhere"
  <2>1. CASE r.requestor = "Translator"
    <3>1. /\ p # "nowhere"
          /\ Route("posted", h, ui[s].scale, bellhop_request[s], env_bellhop_req,
                   BELLHOP_REQUEST, BELLHOP_RESPONSE, Tail(bellhop_response), Append(wt[s], x))
          /\ Route("nowhere", h, ui[s].scale, bellhop_request[s], env_bellhop_req,
                   BELLHOP_REQUEST, BELLHOP_RESPONSE, Tail(bellhop_response), wt[s])
      BY <1>1, <1>3, <1>5, <2>1, RoutePlotted
    <3>2. CASE wt'[s] = Append(wt[s], x)
      BY <1>1, <3>1, <3>2
    <3>3. CASE wt'[s] = wt[s]
      BY <1>1, <3>1, <3>3
    <3> QED BY <1>2, <2>1, <3>2, <3>3
  <2>2. CASE r.requestor # "Translator"
    <3>1. Route(p, h, ui[s].scale, bellhop_request[s], env_bellhop_req,
                BELLHOP_REQUEST, BELLHOP_RESPONSE, Tail(bellhop_response), wt[s])
      BY <1>1, <1>5, <2>2, RouteNotPlotted
    <3> QED BY <1>1, <1>2, <2>2, <3>1
  <2> QED BY <2>1, <2>2
<1> QED BY <1>1, <1>4, <1>5, OnTheWay

\* What is posted to the sessions besides the answers.
LEMMA PostedPlot ==
    ASSUME PlotInv, UNCHANGED <<stage, ui, env_bellhop_req, BELLHOP_REQUEST,
                                BELLHOP_RESPONSE, bellhop_response, bellhop_request, clicks>>,
           NoneOwn(logger_event, "kind", "resp")', NEW x, x.kind # "resp",
           DOMAIN wt' = Sessions, \A s \in Sessions : wt'[s] \in {Append(wt[s], x), wt[s]}
    PROVE  PlotInv'
<1>1. PlotTypes' /\ Unasked'
  BY DEF PlotInv, PlotTypes, Unasked
<1>2. ASSUME NEW s \in Sessions, ~OthersClicked(s), NEW p, NEW h,
             Route(p, h, ui[s].scale, bellhop_request[s], env_bellhop_req,
                   BELLHOP_REQUEST, BELLHOP_RESPONSE, bellhop_response, wt[s])
      PROVE  \E q, k :
               /\ Route(q, k, ui[s].scale, bellhop_request'[s], env_bellhop_req',
                        BELLHOP_REQUEST', BELLHOP_RESPONSE', bellhop_response', wt'[s])
               /\ p = "nowhere" => q = "nowhere"
  <2>1. Route(p, h, ui[s].scale, bellhop_request[s], env_bellhop_req,
              BELLHOP_REQUEST, BELLHOP_RESPONSE, bellhop_response, Append(wt[s], x))
    BY <1>2, RoutePosted
  <2>2. Route(p, h, ui[s].scale, bellhop_request[s], env_bellhop_req,
              BELLHOP_REQUEST, BELLHOP_RESPONSE, bellhop_response, wt'[s])
    BY <1>2, <2>1
  <2> QED BY <2>2
<1> QED BY <1>1, <1>2, OnTheWay

LEMMA AudioImagesPlot ==
    ASSUME PlotInv, AudioImages
    PROVE  PlotInv'
<1> DEFINE x == Head(logger_event)
<1>1. /\ UNCHANGED <<stage, ui, env_bellhop_req, BELLHOP_REQUEST, BELLHOP_RESPONSE,
                     bellhop_response, bellhop_request, clicks>>
      /\ logger_event # <<>> /\ logger_event' = Tail(logger_event)
  BY DEF AudioImages, gateway_vars
<1>2. /\ DOMAIN wt' = Sessions
      /\ \A s \in Sessions : wt'[s] \in {Append(wt[s], x), wt[s]}
  BY DEF AudioImages, PostToWt
<1>3. NoneOwn(logger_event, "kind", "resp")
  BY DEF PlotInv, PlotTypes
<1>4. x.kind # "resp" /\ NoneOwn(logger_event, "kind", "resp")'
  <2>1. /\ IsSeq(Tail(logger_event)) /\ 1 \in DOMAIN logger_event /\ x = logger_event[1]
        /\ \A i \in DOMAIN Tail(logger_event) :
              i + 1 \in DOMAIN logger_event /\ Tail(logger_event)[i] = logger_event[i + 1]
    BY <1>1, <1>3, Taken DEF NoneOwn
  <2> QED BY <1>1, <1>3, <2>1 DEF NoneOwn
<1> HIDE DEF x
<1> QED BY <1>1, <1>2, <1>4, PostedPlot

LEMMA ReportsPlot ==
    ASSUME PlotInv,
           \/ \E r \in Reports : r.kind = "PACKET_START" /\ StartPacket(r)
           \/ \E r \in Reports : r.kind # "PACKET_START" /\ Publish(r)
           \/ \E p \in recording : ClosePacket(p)
    PROVE  PlotInv'
<1>1. UNCHANGED <<stage, ui, env_bellhop_req, BELLHOP_REQUEST, BELLHOP_RESPONSE,
                  bellhop_response, bellhop_request, clicks>>
  BY DEF StartPacket, Publish, ClosePacket, Report, gateway_vars
<1>2. NoneOwn(logger_event, "kind", "resp") /\ DOMAIN wt = Sessions
  BY DEF PlotInv, PlotTypes
<1>3. \A x : x.kind # "resp" => NoneOwn(Append(logger_event, x), "kind", "resp")
  <2>1. \A x : x["kind"] # "resp" =>
           Holds(Append(logger_event, x), "kind", "resp", NoClick, FALSE)
    BY <1>2, OtherComes DEF Holds
  <2> QED BY <2>1 DEF Holds
<1>4. ASSUME NEW x, x.kind # "resp", logger_event' = Append(logger_event, x), UNCHANGED wt
      PROVE  PlotInv'
  <2>1. NoneOwn(logger_event, "kind", "resp")'
    BY <1>3, <1>4
  <2> QED BY <1>1, <1>2, <1>4, <2>1, PostedPlot
<1>5. ASSUME NEW r \in Reports, r.kind = "PACKET_START", StartPacket(r) PROVE PlotInv'
  <2> DEFINE x == [kind |-> r.kind, modem |-> r.modem, packet |-> reports + 1]
  <2>1. x.kind # "resp" /\ logger_event' = Append(logger_event, x) /\ UNCHANGED wt
    BY <1>5 DEF StartPacket
  <2> HIDE DEF x
  <2> QED BY <1>4, <2>1
<1>6. ASSUME NEW p, ClosePacket(p) PROVE PlotInv'
  <2> DEFINE x == [kind |-> "ALL_LOGS_CLOSED_FOR_PACKET", packet |-> p]
  <2>1. x.kind # "resp" /\ logger_event' = Append(logger_event, x) /\ UNCHANGED wt
    BY <1>6 DEF ClosePacket
  <2> HIDE DEF x
  <2> QED BY <1>4, <2>1
<1>7. ASSUME NEW r \in Reports, Publish(r) PROVE PlotInv'
  <2>1. r.kind # "resp"
    BY ReportsAssumption
  <2>2. /\ DOMAIN wt' = Sessions /\ UNCHANGED logger_event
        /\ \A s \in Sessions : wt'[s] \in {Append(wt[s], r), wt[s]}
    BY <1>7 DEF Publish, PostToWt
  <2>3. NoneOwn(logger_event, "kind", "resp")'
    BY <1>2, <2>2
  <2> QED BY <1>1, <2>1, <2>2, <2>3, PostedPlot
<1> QED BY <1>5, <1>6, <1>7

-----------------------------------------------------------------------------
(* The steps of a session *)

\* A step of one session: for the others nothing has changed.
LEMMA OneSessionPlot ==
    ASSUME PlotInv, PlotTypes', Unasked', NEW s \in Sessions, NEW v,
           ui'[s] = v, \A t \in Sessions \ {s} : ui'[t] = ui[t],
           ui[s].scale # NoClick => v.scale # NoClick,
           UNCHANGED <<env_bellhop_req, BELLHOP_REQUEST, BELLHOP_RESPONSE, bellhop_response>>,
           \A t \in Sessions \ {s} : /\ bellhop_request'[t] = bellhop_request[t]
                                     /\ wt'[t] = wt[t] /\ stage'[t] = stage[t],
           Screen(ui[s]) /\ Followed(s) => Screen(v) /\ Followed(s)'
    PROVE  PlotInv'
<1> SUFFICES ASSUME NEW t \in Sessions, ~OthersClicked(t)'
             PROVE  Screen(ui[t])' /\ Followed(t)'
  BY DEF PlotInv
<1>1. ~OthersClicked(t)
  BY DEF OthersClicked
<1>2. Screen(ui[t]) /\ Followed(t)
  BY <1>1 DEF PlotInv
<1>3. CASE t = s
  BY <1>2, <1>3 DEF Screen
<1>4. CASE t # s
  <2>1. Screen(ui[t])'
    BY <1>2, <1>4 DEF Screen
  <2>2. Followed(t)'
    BY <1>2, <1>4 DEF Followed
  <2> QED BY <2>1, <2>2
<1> QED BY <1>3, <1>4

\* What the handlers of everything but an answer leave alone.
Alike(u, v) ==
    /\ v.scale = u.scale /\ v.canvas = u.canvas /\ v.tl_image_path_ = u.tl_image_path_
    /\ v.tl_request_ = u.tl_request_ /\ (u.dirty => v.dirty) /\ v.answers = u.answers

LEMMA QuietHandlers ==
    ASSUME DotsInv, NEW s \in Sessions,
           \/ HandleManagerCfg(s) \/ HandleUpdatedNav(s) \/ HandleReceiveStats(s)
           \/ HandleLogsClosed(s) \/ HandlePacketStart(s)
    PROVE  /\ wt[s] # <<>> /\ Head(wt[s]).kind # "resp"
           /\ wt' = [wt EXCEPT ![s] = Tail(wt[s])] /\ UNCHANGED stage
           /\ Alike(ui[s], ui'[s])
           /\ \A t \in Sessions \ {s} : ui'[t] = ui[t]
<1> DEFINE u == ui[s]
<1>0. DOMAIN u = Fields /\ DOMAIN ui = Sessions
  BY DEF DotsInv, SessionInv
<1>1. /\ wt[s] # <<>> /\ Head(wt[s]).kind # "resp"
      /\ wt' = [wt EXCEPT ![s] = Tail(wt[s])] /\ UNCHANGED stage
  BY DEF Handling, HandleManagerCfg, HandleUpdatedNav, HandleReceiveStats,
         HandleLogsClosed, HandlePacketStart
<1>3. /\ Alike(u, ui'[s])
      /\ \A t \in Sessions \ {s} : ui'[t] = ui[t]
  <2>1. \A x : /\ Alike(u, [u EXCEPT !.manager_cfg_ = x])
              /\ Alike(u, [u EXCEPT !.last_nav_ = x])
              /\ Alike(u, [u EXCEPT !.receive_stats_ = x])
              /\ Alike(u, [u EXCEPT !.audio_images = x])
    <3> HIDE DEF u
    <3> QED BY <1>0 DEF Alike, Fields
  <2>2. CASE HandleManagerCfg(s)
    BY <1>0, <2>1, <2>2 DEF HandleManagerCfg
  <2>3. CASE HandleUpdatedNav(s)
    BY <1>0, <2>1, <2>3 DEF HandleUpdatedNav
  <2>4. CASE HandleReceiveStats(s)
    BY <1>0, <2>1, <2>4 DEF HandleReceiveStats
  <2>5. CASE HandleLogsClosed(s)
    BY <1>0, <2>1, <2>5 DEF HandleLogsClosed
  <2>6. CASE HandlePacketStart(s)
    <3>1. CASE ~(ui[s].manager_cfg_ /\ Head(wt[s]).modem \in DOMAIN Pairs)
      <4>1. ui' = ui
        BY <2>6, <3>1 DEF HandlePacketStart
      <4> QED BY <4>1 DEF Alike
    <3>2. CASE ui[s].manager_cfg_ /\ Head(wt[s]).modem \in DOMAIN Pairs
      <4> DEFINE port == Pairs[Head(wt[s]).modem].modem_tcp_port
                 snap == [navs |-> u.last_nav_, packet |-> Head(wt[s]).packet,
                          plot |-> Len(u.answers)]
                 v1 == [u EXCEPT !.nav_at_previous_tx_start_[port] =
                                    u.nav_at_last_tx_start_[port]]
                 v2 == [v1 EXCEPT !.nav_at_last_tx_start_[port] = snap]
                 v3 == [v2 EXCEPT !.dirty = TRUE]
      <4>1. ui' = [ui EXCEPT ![s].nav_at_previous_tx_start_[port] =
                                ui[s].nav_at_last_tx_start_[port],
                             ![s].nav_at_last_tx_start_[port] = snap,
                             ![s].dirty = TRUE]
        BY <2>6, <3>2 DEF HandlePacketStart
      <4>2. ui'[s] = v3 /\ \A t \in Sessions \ {s} : ui'[t] = ui[t]
        BY <1>0, <4>1
      <4>3. Alike(u, v1) /\ DOMAIN v1 = Fields
        <5> HIDE DEF port, u
        <5> QED BY <1>0 DEF Alike, Fields
      <4>4. Alike(u, v2) /\ DOMAIN v2 = Fields
        <5> HIDE DEF port, u, snap, v1
        <5> QED BY <4>3 DEF Alike, Fields
      <4>5. Alike(u, v3)
        <5> HIDE DEF u, v2
        <5> QED BY <4>4 DEF Alike, Fields
      <4> HIDE DEF u, v3
      <4> QED BY <4>2, <4>5
    <3> QED BY <3>1, <3>2
  <2> QED BY <2>2, <2>3, <2>4, <2>5, <2>6
<1> QED BY <1>1, <1>3

LEMMA QuietHandlersPlot ==
    ASSUME PlotInv, DotsInv, NEW s \in Sessions,
           UNCHANGED <<gateway_vars, display_vars>>,
           \/ HandleManagerCfg(s) \/ HandleUpdatedNav(s) \/ HandleReceiveStats(s)
           \/ HandleLogsClosed(s) \/ HandlePacketStart(s)
    PROVE  PlotInv'
<1> DEFINE u == ui[s]
<1>1. /\ wt[s] # <<>> /\ Head(wt[s]).kind # "resp"
      /\ wt' = [wt EXCEPT ![s] = Tail(wt[s])] /\ UNCHANGED stage
  BY QuietHandlers
<1>2. UNCHANGED <<env_bellhop_req, BELLHOP_REQUEST, BELLHOP_RESPONSE, bellhop_response,
                  bellhop_request, logger_event, clicks>>
  BY DEF gateway_vars, display_vars
<1>3. /\ Alike(u, ui'[s])
      /\ \A t \in Sessions \ {s} : ui'[t] = ui[t]
  BY QuietHandlers
<1>4. PICK v : ui'[s] = v /\ Alike(u, v)
  BY <1>3
<1>5. PlotTypes'
  BY <1>1, <1>2 DEF PlotInv, PlotTypes
<1>6. ui'[s] = v /\ \A t \in Sessions \ {s} : ui'[t] = ui[t]
  BY <1>3, <1>4
<1>7. Unasked'
  BY <1>2, <1>4, <1>6 DEF Unasked, PlotInv, Alike
<1>8. ASSUME Screen(u), Followed(s) PROVE Screen(v) /\ Followed(s)'
  <2>1. Screen(v)
    BY <1>4, <1>8 DEF Screen, Alike
  <2>2. PICK p, h :
          /\ Route(p, h, ui[s].scale, bellhop_request[s], env_bellhop_req,
                   BELLHOP_REQUEST, BELLHOP_RESPONSE, bellhop_response, wt[s])
          /\ stage[s] # "ended" /\ ui[s].tl_request_ => p = "nowhere"
    BY <1>8 DEF Followed
  <2>3. Route(p, h, ui[s].scale, bellhop_request[s], env_bellhop_req,
              BELLHOP_REQUEST, BELLHOP_RESPONSE, bellhop_response, Tail(wt[s]))
    BY <1>1, <2>2, RouteHandled
  <2>4. wt'[s] = Tail(wt[s]) /\ ui'[s].scale = ui[s].scale /\ ui'[s].tl_request_ = ui[s].tl_request_
    BY <1>1, <1>4, <1>6 DEF PlotInv, PlotTypes, Alike
  <2>5. Followed(s)'
    BY <1>1, <1>2, <2>2, <2>3, <2>4 DEF Followed
  <2> QED BY <2>1, <2>5
<1>9. \A t \in Sessions \ {s} : /\ bellhop_request'[t] = bellhop_request[t]
                                /\ wt'[t] = wt[t] /\ stage'[t] = stage[t]
  BY <1>1, <1>2 DEF PlotInv, PlotTypes
<1>10. ui[s].scale # NoClick => v.scale # NoClick
  BY <1>4 DEF Alike
<1> QED BY <1>2, <1>5, <1>6, <1>7, <1>8, <1>9, <1>10, OneSessionPlot

LEMMA HandleBellhopRespPlot ==
    ASSUME PlotInv, DotsInv, NEW s \in Sessions,
           UNCHANGED <<gateway_vars, display_vars>>, HandleBellhopResp(s)
    PROVE  PlotInv'
<1> DEFINE u == ui[s]
           resp == Head(wt[s])
           v == [u EXCEPT
              !.tl_image_path_ = IF resp.success THEN resp.id ELSE u.tl_image_path_,
              !.dirty = u.dirty \/ resp.success,
              !.tl_request_ = TRUE,
              !.nav_at_last_tx_start_ = NoSnapshots,
              !.nav_at_previous_tx_start_ = NoSnapshots,
              !.receive_stats_ = {},
              !.answers = Append(u.answers, resp.id)]
<1>0. DOMAIN u = Fields /\ DOMAIN ui = Sessions
  BY DEF DotsInv, SessionInv
<1>1. /\ wt[s] # <<>> /\ Head(wt[s]).kind = "resp"
      /\ wt' = [wt EXCEPT ![s] = Tail(wt[s])] /\ UNCHANGED stage
  BY DEF Handling, HandleBellhopResp
<1>2. UNCHANGED <<env_bellhop_req, BELLHOP_REQUEST, BELLHOP_RESPONSE, bellhop_response,
                  bellhop_request, logger_event, clicks>>
  BY DEF gateway_vars, display_vars
<1>3. ui' = [ui EXCEPT ![s] = v]
  BY <1>0 DEF HandleBellhopResp, Fields
<1>4. /\ v.scale = u.scale /\ v.canvas = u.canvas /\ v.tl_request_ = TRUE
      /\ v.tl_image_path_ = IF resp.success THEN resp.id ELSE u.tl_image_path_
      /\ v.dirty = (u.dirty \/ resp.success)
  <2> HIDE DEF u, resp
  <2> QED BY <1>0 DEF Fields
<1> HIDE DEF v
<1>5. PlotTypes'
  BY <1>1, <1>2 DEF PlotInv, PlotTypes
<1>6. ui'[s] = v /\ \A t \in Sessions \ {s} : ui'[t] = ui[t]
  BY <1>0, <1>3
<1>7. Unasked'
  BY <1>2, <1>4, <1>6 DEF Unasked, PlotInv
<1>8. ASSUME Screen(u), Followed(s) PROVE Screen(v) /\ Followed(s)'
  <2>1. PICK p, h :
          Route(p, h, ui[s].scale, bellhop_request[s], env_bellhop_req,
                BELLHOP_REQUEST, BELLHOP_RESPONSE, bellhop_response, wt[s])
    BY <1>8 DEF Followed
  <2>2. /\ Head(wt[s]).id = ui[s].scale
        /\ Route("nowhere", h, ui[s].scale, bellhop_request[s], env_bellhop_req,
                 BELLHOP_REQUEST, BELLHOP_RESPONSE, bellhop_response, Tail(wt[s]))
    BY <1>1, <2>1, RouteEnds
  <2>3. Screen(v)
    BY <1>4, <1>8, <2>2 DEF Screen
  <2>4. wt'[s] = Tail(wt[s]) /\ ui'[s].scale = ui[s].scale
    BY <1>1, <1>4, <1>6 DEF PlotInv, PlotTypes
  <2>5. Followed(s)'
    BY <1>2, <2>2, <2>4 DEF Followed
  <2> QED BY <2>3, <2>5
<1>9. \A t \in Sessions \ {s} : /\ bellhop_request'[t] = bellhop_request[t]
                                /\ wt'[t] = wt[t] /\ stage'[t] = stage[t]
  BY <1>1, <1>2 DEF PlotInv, PlotTypes
<1>10. ui[s].scale # NoClick => v.scale # NoClick
  BY <1>4
<1> QED BY <1>2, <1>5, <1>6, <1>7, <1>8, <1>9, <1>10, OneSessionPlot

LEMMA PaintedFields ==
    ASSUME NEW u, DOMAIN u = Fields, NEW v,
           v = [DotsDrawn(ImageDrawn(u)) EXCEPT !.dirty = FALSE]
    PROVE  /\ v.scale = u.scale /\ v.tl_request_ = u.tl_request_ /\ v.answers = u.answers
           /\ v.tl_image_path_ = NoClick
           /\ v.canvas = u.canvas \/ (v.canvas = <<u.tl_image_path_, u.scale>>
                                      /\ u.tl_image_path_ # NoClick)
<1> DEFINE i == ImageDrawn(u)
           d == DotsDrawn(i)
<1>1. /\ DOMAIN i = Fields /\ i.scale = u.scale /\ i.tl_request_ = u.tl_request_
      /\ i.tl_image_path_ = NoClick /\ i.answers = u.answers
      /\ i.canvas = u.canvas \/ (i.canvas = <<u.tl_image_path_, u.scale>>
                                 /\ u.tl_image_path_ # NoClick)
  BY DEF ImageDrawn, Fields
<1>2. /\ DOMAIN d = Fields /\ d.scale = i.scale /\ d.tl_request_ = i.tl_request_
      /\ d.tl_image_path_ = i.tl_image_path_ /\ d.canvas = i.canvas /\ d.answers = i.answers
  <2> HIDE DEF i
  <2> DEFINE tx == i.transmitter_tcp_port_
             prev == i.nav_at_previous_tx_start_
  <2>1. CASE ~(tx \in Ports /\ tx \in prev[tx].navs)
    BY <1>1, <2>1 DEF DotsDrawn
  <2>2. CASE tx \in Ports /\ tx \in prev[tx].navs
    <3> DEFINE dot == [packet |-> prev[tx].packet, plot |-> prev[tx].plot,
                       over |-> Len(i.answers)]
    <3>1. d = [i EXCEPT !.painted = Append(i.painted, dot),
                        !.nav_at_previous_tx_start_ = [prev EXCEPT ![tx] = NoNavs],
                        !.receive_stats_ = {r \in i.receive_stats_ : r[1] # tx}]
      BY <1>1, <2>2 DEF DotsDrawn, Fields
    <3> HIDE DEF d, dot, prev, tx
    <3> QED BY <1>1, <3>1 DEF Fields
  <2> QED BY <2>1, <2>2
<1>3. /\ v.scale = d.scale /\ v.tl_request_ = d.tl_request_ /\ v.answers = d.answers
      /\ v.tl_image_path_ = d.tl_image_path_ /\ v.canvas = d.canvas
  <2>1. v = [d EXCEPT !.dirty = FALSE]
    BY Zenon
  <2> HIDE DEF d
  <2> QED BY <1>2, <2>1 DEF Fields
<1> HIDE DEF d, i
<1> QED BY <1>1, <1>2, <1>3

LEMMA PaintEventPlot ==
    ASSUME PlotInv, DotsInv, NEW s \in Sessions,
           UNCHANGED <<gateway_vars, display_vars>>, PaintEvent(s)
    PROVE  PlotInv'
<1> DEFINE u == ui[s]
           v == [DotsDrawn(ImageDrawn(u)) EXCEPT !.dirty = FALSE]
<1>0. DOMAIN u = Fields /\ DOMAIN ui = Sessions
  BY DEF DotsInv, SessionInv
<1>1. ui' = [ui EXCEPT ![s] = v] /\ UNCHANGED <<stage, wt>>
  BY DEF PaintEvent
<1>2. UNCHANGED <<env_bellhop_req, BELLHOP_REQUEST, BELLHOP_RESPONSE, bellhop_response,
                  bellhop_request, logger_event, clicks>>
  BY DEF gateway_vars, display_vars
<1>3. /\ v.scale = u.scale /\ v.tl_request_ = u.tl_request_ /\ v.tl_image_path_ = NoClick
      /\ v.canvas = u.canvas \/ (v.canvas = <<u.tl_image_path_, u.scale>>
                                 /\ u.tl_image_path_ # NoClick)
  BY <1>0, PaintedFields, Zenon
<1> HIDE DEF v
<1>4. PlotTypes'
  BY <1>1, <1>2 DEF PlotInv, PlotTypes
<1>5. ui'[s] = v /\ \A t \in Sessions \ {s} : ui'[t] = ui[t]
  BY <1>0, <1>1
<1>6. Unasked'
  BY <1>2, <1>3, <1>5 DEF Unasked, PlotInv
<1>7. ASSUME Screen(u), Followed(s) PROVE Screen(v) /\ Followed(s)'
  <2>1. Screen(v)
    BY <1>3, <1>7 DEF Screen
  <2>2. ui'[s].scale = ui[s].scale /\ ui'[s].tl_request_ = ui[s].tl_request_
    BY <1>3, <1>5
  <2>3. Followed(s)'
    BY <1>1, <1>2, <1>7, <2>2 DEF Followed
  <2> QED BY <2>1, <2>3
<1>8. \A t \in Sessions \ {s} : /\ bellhop_request'[t] = bellhop_request[t]
                                /\ wt'[t] = wt[t] /\ stage'[t] = stage[t]
  BY <1>1, <1>2
<1>9. ui[s].scale # NoClick => v.scale # NoClick
  BY <1>3
<1> QED BY <1>2, <1>4, <1>5, <1>6, <1>7, <1>8, <1>9, OneSessionPlot

LEMMA OpenPlot ==
    ASSUME PlotInv, DotsInv, NEW s \in Sessions, Open(s)
    PROVE  PlotInv'
<1> DEFINE x == [kind |-> "cfg"]
<1>1. /\ UNCHANGED <<ui, env_bellhop_req, BELLHOP_REQUEST, BELLHOP_RESPONSE, bellhop_response,
                     bellhop_request, logger_event, clicks>>
      /\ stage[s] = "none" /\ stage' = [stage EXCEPT ![s] = "connected"]
  BY DEF Open, OpenSession, gateway_vars, display_vars
<1>2. /\ DOMAIN wt' = Sessions
      /\ \A t \in Sessions : wt'[t] \in {Append(wt[t], x), wt[t]}
  BY DEF Open, OpenSession
<1>3. x.kind # "resp"
  OBVIOUS
<1> HIDE DEF x
<1>4. DOMAIN stage = Sessions /\ \A t \in Sessions : stage'[t] = "ended" <=> stage[t] = "ended"
  BY <1>1 DEF PlotInv, PlotTypes
<1>5. PlotTypes' /\ Unasked'
  BY <1>1, <1>2, <1>4 DEF PlotInv, PlotTypes, Unasked
<1>6. ASSUME NEW t \in Sessions, ~OthersClicked(t)' PROVE Screen(ui[t])' /\ Followed(t)'
  <2>1. Screen(ui[t]) /\ Followed(t)
    BY <1>1, <1>6 DEF PlotInv, OthersClicked
  <2>2. PICK p, h :
          /\ Route(p, h, ui[t].scale, bellhop_request[t], env_bellhop_req,
                   BELLHOP_REQUEST, BELLHOP_RESPONSE, bellhop_response, wt[t])
          /\ stage[t] # "ended" /\ ui[t].tl_request_ => p = "nowhere"
    BY <2>1 DEF Followed
  <2>3. Route(p, h, ui[t].scale, bellhop_request[t], env_bellhop_req,
              BELLHOP_REQUEST, BELLHOP_RESPONSE, bellhop_response, Append(wt[t], x))
    BY <1>3, <2>2, RoutePosted
  <2>4. Route(p, h, ui[t].scale, bellhop_request[t], env_bellhop_req,
              BELLHOP_REQUEST, BELLHOP_RESPONSE, bellhop_response, wt'[t])
    BY <1>2, <2>2, <2>3
  <2>5. Followed(t)'
    BY <1>1, <1>4, <2>2, <2>4 DEF Followed
  <2> QED BY <1>1, <2>1, <2>5 DEF Screen
<1> QED BY <1>5, <1>6 DEF PlotInv

LEMMA EndPlot ==
    ASSUME PlotInv, DotsInv, NEW s \in Sessions, EndSession(s), UNCHANGED <<gateway_vars,
           logger_event, clicks>>, NEW left \in {bellhop_request[s], <<>>},
           DOMAIN bellhop_request' = Sessions, bellhop_request'[s] = left,
           \A t \in Sessions \ {s} : bellhop_request'[t] = bellhop_request[t]
    PROVE  PlotInv'
<1> DEFINE v == [NewSession EXCEPT !.scale = ui[s].scale]
<1>0. DOMAIN ui = Sessions
  BY DEF DotsInv
<1>1. /\ ui' = [ui EXCEPT ![s] = v]
      /\ stage' = [stage EXCEPT ![s] = "ended"] /\ wt' = [wt EXCEPT ![s] = <<>>]
  BY DEF EndSession
<1>2. UNCHANGED <<env_bellhop_req, BELLHOP_REQUEST, BELLHOP_RESPONSE, bellhop_response>>
  BY DEF gateway_vars
<1>3. v.scale = ui[s].scale /\ Screen(v)
  BY DEF Screen, NewSession
<1> HIDE DEF v
<1>4. PlotTypes'
  BY <1>1 DEF PlotInv, PlotTypes
<1>5. /\ ui'[s] = v /\ wt'[s] = <<>> /\ stage'[s] = "ended" /\ bellhop_request'[s] = left
      /\ \A t \in Sessions \ {s} : /\ ui'[t] = ui[t] /\ wt'[t] = wt[t] /\ stage'[t] = stage[t]
                                   /\ bellhop_request'[t] = bellhop_request[t]
  BY <1>0, <1>1 DEF PlotInv, PlotTypes
<1>6. Unasked'
  BY <1>3, <1>5 DEF Unasked, PlotInv
<1>7. ASSUME Followed(s) PROVE Followed(s)'
  <2>1. PICK p, h :
          Route(p, h, ui[s].scale, bellhop_request[s], env_bellhop_req,
                BELLHOP_REQUEST, BELLHOP_RESPONSE, bellhop_response, wt[s])
    BY <1>7 DEF Followed
  <2>2. PICK q, k :
          Route(q, k, ui[s].scale, left, env_bellhop_req,
                BELLHOP_REQUEST, BELLHOP_RESPONSE, bellhop_response, <<>>)
    BY <2>1, RouteLeft
  <2> QED BY <1>2, <1>3, <1>5, <2>2 DEF Followed
<1> QED BY <1>2, <1>3, <1>4, <1>5, <1>6, <1>7, OneSessionPlot

LEMMA RequestPlotPlot ==
    ASSUME PlotInv, DotsInv, NEW s \in Sessions, NEW port \in Ports, RequestPlot(s, port)
    PROVE  PlotInv'
<1> DEFINE u == ui[s]
           id == [n |-> clicks + 1, ownship |-> port]
           v == [u EXCEPT !.transmitter_tcp_port_ = port, !.scale = id,
                          !.tl_request_ = FALSE]
<1>0. DOMAIN u = Fields /\ DOMAIN ui = Sessions
  BY DEF DotsInv, SessionInv
<1>1. /\ stage[s] = "connected" /\ u.tl_request_ /\ ~u.dirty /\ UNCHANGED <<stage, wt>>
      /\ bellhop_request' = [bellhop_request EXCEPT ![s] = Append(bellhop_request[s], id)]
      /\ clicks < MaxClicks /\ clicks' = clicks + 1
  BY DEF RequestPlot, Click, CanClick
<1>2. UNCHANGED <<env_bellhop_req, BELLHOP_REQUEST, BELLHOP_RESPONSE, bellhop_response,
                  logger_event>>
  BY DEF RequestPlot, gateway_vars
<1>3. ui' = [ui EXCEPT ![s] = v]
  BY <1>0 DEF RequestPlot, Click, Fields
<1>4. id # NoClick
  <2>1. clicks + 1 \in 1..MaxClicks
    BY <1>1, ClicksAssumption DEF PlotInv, PlotTypes
  <2> QED BY <2>1, ClicksAssumption DEF Ids
<1>5. /\ v.scale = id /\ v.canvas = u.canvas /\ v.tl_request_ = FALSE
      /\ v.tl_image_path_ = u.tl_image_path_ /\ v.dirty = u.dirty
  <2> HIDE DEF u, id
  <2> QED BY <1>0 DEF Fields
<1> HIDE DEF v, id
<1>6. PlotTypes'
  BY <1>1, <1>2 DEF PlotInv, PlotTypes
<1>7. /\ ui'[s] = v /\ bellhop_request'[s] = Append(bellhop_request[s], id)
      /\ \A t \in Sessions \ {s} : /\ ui'[t] = ui[t] /\ wt'[t] = wt[t] /\ stage'[t] = stage[t]
                                   /\ bellhop_request'[t] = bellhop_request[t]
  BY <1>0, <1>1, <1>3 DEF PlotInv, PlotTypes
<1>8. Unasked'
  BY <1>4, <1>5, <1>7 DEF Unasked, PlotInv
<1>9. ASSUME Screen(u), Followed(s) PROVE Screen(v) /\ Followed(s)'
  <2>1. Screen(v)
    BY <1>1, <1>5, <1>9 DEF Screen
  <2>2. PICK h :
          Route("nowhere", h, ui[s].scale, bellhop_request[s], env_bellhop_req,
                BELLHOP_REQUEST, BELLHOP_RESPONSE, bellhop_response, wt[s])
    BY <1>1, <1>9 DEF Followed
  <2>3. /\ bellhop_request[s] = <<>>
        /\ Route("request", h, id, <<id>>, env_bellhop_req,
                 BELLHOP_REQUEST, BELLHOP_RESPONSE, bellhop_response, wt[s])
    BY <2>2, RouteBegins
  <2>4. bellhop_request'[s] = <<id>> /\ ui'[s].scale = id /\ ui'[s].tl_request_ = FALSE
    BY <1>5, <1>7, <2>3
  <2>5. Followed(s)'
    BY <1>1, <1>2, <2>3, <2>4 DEF Followed
  <2> QED BY <2>1, <2>5
<1>10. ui[s].scale # NoClick => v.scale # NoClick
  BY <1>4, <1>5
<1> QED BY <1>2, <1>6, <1>7, <1>8, <1>9, <1>10, OneSessionPlot

-----------------------------------------------------------------------------

LEMMA PlotInvNext == DotsInv /\ PlotInv /\ [Next]_vars => PlotInv'
<1> SUFFICES ASSUME DotsInv, PlotInv, [Next]_vars
             PROVE  PlotInv'
  OBVIOUS
<1>1. CASE UNCHANGED vars
  <2>1. UNCHANGED <<stage, ui, wt, env_bellhop_req, BELLHOP_REQUEST, BELLHOP_RESPONSE,
                    bellhop_response, bellhop_request, logger_event, clicks>>
    BY <1>1 DEF vars, liaison_vars, gateway_vars, display_vars
  <2> QED BY <2>1 DEF PlotInv, PlotTypes, Unasked, OthersClicked, Followed
<1>2. ASSUME NEW s \in Sessions, SessionStep(s) PROVE PlotInv'
  BY <1>2, QuietHandlersPlot, HandleBellhopRespPlot, PaintEventPlot DEF SessionStep
<1>3. ASSUME NEW s \in Sessions, Leave(s) PROVE PlotInv'
  <2>1. EndSession(s) /\ UNCHANGED <<gateway_vars, logger_event, clicks>>
    BY <1>3 DEF Leave
  <2>2. PICK left \in {bellhop_request[s], <<>>} :
           bellhop_request' = [bellhop_request EXCEPT ![s] = left]
    BY <1>3 DEF Leave
  <2>3. /\ DOMAIN bellhop_request' = Sessions /\ bellhop_request'[s] = left
        /\ \A t \in Sessions \ {s} : bellhop_request'[t] = bellhop_request[t]
    BY <2>2 DEF PlotInv, PlotTypes
  <2> QED BY <2>1, <2>3, EndPlot
<1>4. ASSUME NEW s \in Sessions, RequestTooEarly(s) PROVE PlotInv'
  <2>1. EndSession(s) /\ UNCHANGED <<gateway_vars, logger_event, clicks, bellhop_request>>
    BY <1>4 DEF RequestTooEarly, ClickTooEarly, display_vars
  <2>2. DOMAIN bellhop_request' = Sessions
    BY <2>1 DEF PlotInv, PlotTypes
  <2> QED BY <2>1, <2>2, EndPlot
<1>5. CASE SystemStep
  BY <1>2, <1>5, TLPlotPlot, AudioImagesPlot, GatewayPlot, HandleBellhopRequestPlot
     DEF SystemStep
<1>6. CASE Stimulus
  BY <1>3, <1>4, <1>6, OpenPlot, RequestPlotPlot, GatewayPlot, ReportsPlot DEF Stimulus
<1> QED
  BY <1>1, <1>5, <1>6 DEF Next

(* In every behaviour of the display, as long as one session alone asks for *)
(* plots, what it draws is the answer to the request that set its axes and  *)
(* the scale of its dots: however the request and its answer interleave, on *)
(* their way through netsim_manager, the gateways, iBellhop and             *)
(* netsim_postprocess, with everything else that is posted to the sessions. *)
THEOREM ImageOfTheScale == Spec => []ImageMatchesScale
<1>1. PlotInv => ImageMatchesScale
  BY DEF PlotInv, Screen, ImageMatchesScale
<1> QED
  BY <1>1, DotsInvInit, DotsInvNext, PlotInvInit, PlotInvNext, PTL DEF Spec

-----------------------------------------------------------------------------
(* What is picked out of a queue *)

(* A set of numbers that is not empty has a least one.                     *)
LEMMA Least ==
    ASSUME NEW T, T \subseteq Nat, T # {}
    PROVE  \E x \in T : \A y \in T : x <= y
<1>1. PICK R : IsWellFoundedOn(R, Nat) /\ \A a, b \in Nat : <<a, b>> \in R <=> a < b
  <2>1. IsWellFoundedOn(OpToRel(<, Nat), Nat)
    BY NatLessThanWellFounded
  <2>2. \A a, b \in Nat : <<a, b>> \in OpToRel(<, Nat) <=> a < b
    BY DEF OpToRel
  <2> QED BY <2>1, <2>2, Zenon
<1>2. PICK x \in T : \A y \in T : ~(<<y, x>> \in R)
  <2>1. IsWellFoundedOn(R, Nat)
    BY <1>1
  <2> QED BY <2>1, WFMin
<1>3. ASSUME NEW y \in T PROVE x <= y
  <2>1. y \in Nat /\ x \in Nat /\ ~(y < x)
    BY <1>1, <1>2
  <2> QED BY <2>1
<1> QED BY <1>3

(* A set that holds 0 and, with a number below a bound, the next one.      *)
LEMMA UpTo ==
    ASSUME NEW S, NEW bound \in Nat, 0 \in S,
           \A n \in 0..(bound - 1) : n \in S => n + 1 \in S
    PROVE  0..bound \subseteq S
<1> SUFFICES ASSUME (0..bound) \ S # {} PROVE FALSE
  OBVIOUS
<1> DEFINE T == (0..bound) \ S
<1>1. T \subseteq Nat /\ T # {}
  OBVIOUS
<1> HIDE DEF T
<1>2. PICK x \in T : \A y \in T : x <= y
  BY <1>1, Least
<1>3. x \in 0..bound /\ x \notin S /\ x # 0 /\ x \in Nat
  BY DEF T
<1>4. x - 1 \in 0..(bound - 1) /\ x - 1 \notin T
  BY <1>1, <1>2, <1>3
<1>5. x - 1 \in S
  BY <1>4 DEF T
<1>6. (x - 1) + 1 \in S
  BY <1>4, <1>5
<1> QED BY <1>3, <1>6

\* What has been picked after an element of the queue has been looked at.
Pick(ids, x, here) == IF here THEN Append(ids, x.id) ELSE ids

\* What has been picked of the first m elements, for every m up to a bound.
Picks(g, m, q, S) ==
    /\ g = [i \in 0..m |-> g[i]]
    /\ g[0] = <<>>
    /\ \A i \in 1..m : g[i] = Pick(g[i - 1], q[i], i \in S)

LEMMA PicksExist ==
    ASSUME NEW q, NEW S, NEW bound \in Nat
    PROVE  \E g : Picks(g, bound, q, S)
<1> DEFINE T == {m \in 0..bound : \E g : Picks(g, m, q, S)}
<1>1. 0 \in T
  <2> DEFINE g == [i \in 0..0 |-> <<>>]
  <2>1. Picks(g, 0, q, S)
    BY DEF Picks
  <2> HIDE DEF g
  <2> QED BY <2>1
<1>2. ASSUME NEW n \in 0..(bound - 1), n \in T PROVE n + 1 \in T
  <2>1. PICK g : Picks(g, n, q, S)
    BY <1>2
  <2> DEFINE new == Pick(g[n], q[n + 1], n + 1 \in S)
             h == [i \in 0..(n + 1) |-> IF i = n + 1 THEN new ELSE g[i]]
  <2>2. n \in Nat /\ n + 1 \in 0..bound
    OBVIOUS
  <2> HIDE DEF new
  <2>3. /\ h = [i \in 0..(n + 1) |-> h[i]]
        /\ h[n + 1] = new
        /\ \A i \in 0..n : h[i] = g[i]
    BY <2>2
  <2> HIDE DEF h
  <2>4. h[0] = <<>>
    <3>1. g[0] = <<>>
      BY <2>1, Zenon DEF Picks
    <3> QED BY <2>2, <2>3, <3>1
  <2>5. ASSUME NEW i \in 1..(n + 1)
        PROVE  h[i] = Pick(h[i - 1], q[i], i \in S)
    <3>1. CASE i = n + 1
      <4>1. i - 1 = n /\ n \in 0..n
        BY <2>2, <3>1
      <4> QED BY <2>3, <3>1, <4>1 DEF new
    <3>2. CASE i # n + 1
      <4>1. i \in 1..n /\ i \in 0..n /\ i - 1 \in 0..n
        BY <2>2, <3>2
      <4>2. g[i] = Pick(g[i - 1], q[i], i \in S)
        BY <2>1, <4>1 DEF Picks
      <4> QED BY <2>3, <4>1, <4>2
    <3> QED BY <3>1, <3>2
  <2>6. Picks(h, n + 1, q, S)
    BY <2>3, <2>4, <2>5 DEF Picks
  <2> QED BY <2>2, <2>6
<1> HIDE DEF T
<1>3. 0..bound \subseteq T
  BY <1>1, <1>2, UpTo
<1>4. bound \in T
  BY <1>3
<1> QED BY <1>4 DEF T

(* Picked is what has been picked in the end.                              *)
LEMMA PickedLast ==
    ASSUME NEW q, NEW S, Len(q) \in Nat
    PROVE  \E g : Picks(g, Len(q), q, S) /\ Picked(q, S) = g[Len(q)]
<1> DEFINE n == Len(q)
           body(g, i) == IF i = 0 THEN <<>>
                         ELSE IF i \in S THEN Append(g[i - 1], q[i].id)
                         ELSE g[i - 1]
           f == CHOOSE g : g = [i \in 0..n |-> body(g, i)]
<1>1. Picked(q, S) = f[n]
  BY Zenon DEF Picked
<1>2. ASSUME NEW g
      PROVE  g = [i \in 0..n |-> body(g, i)] <=> Picks(g, n, q, S)
  <2>1. ASSUME NEW i \in 1..n
        PROVE  body(g, i) = Pick(g[i - 1], q[i], i \in S)
    <3>1. i # 0
      OBVIOUS
    <3> QED BY <3>1, Zenon DEF Pick
  <2>2. body(g, 0) = <<>>
    OBVIOUS
  <2>3. \A i \in 0..n : i = 0 \/ i \in 1..n
    OBVIOUS
  <2>4. 0 \in 0..n /\ \A i \in 1..n : i \in 0..n
    OBVIOUS
  <2> HIDE DEF body
  <2>5. ASSUME g = [i \in 0..n |-> body(g, i)]
        PROVE  Picks(g, n, q, S)
    <3>1. \A i \in 0..n : g[i] = body(g, i)
      BY <2>5, Zenon
    <3>2. g = [i \in 0..n |-> g[i]]
      BY <2>5
    <3>3. g[0] = <<>>
      BY <2>2, <2>4, <3>1
    <3>4. \A i \in 1..n : g[i] = Pick(g[i - 1], q[i], i \in S)
      BY <2>1, <2>4, <3>1
    <3> HIDE DEF n
    <3> QED BY <3>2, <3>3, <3>4 DEF Picks
  <2>6. ASSUME Picks(g, n, q, S)
        PROVE  g = [i \in 0..n |-> body(g, i)]
    <3>1. g = [i \in 0..n |-> g[i]]
      BY <2>6 DEF Picks
    <3>2. \A i \in 0..n : g[i] = body(g, i)
      BY <2>1, <2>2, <2>3, <2>6 DEF Picks
    <3> QED BY <3>1, <3>2
  <2> QED BY <2>5, <2>6
<1> HIDE DEF n, body
<1>3. PICK g : Picks(g, n, q, S)
  BY PicksExist DEF n
<1>4. \E h : h = [i \in 0..n |-> body(h, i)]
  BY <1>2, <1>3
<1>5. f = [i \in 0..n |-> body(f, i)]
  BY <1>4, Zenon
<1> HIDE DEF f
<1>6. Picks(f, n, q, S)
  BY <1>2, <1>5
<1> QED BY <1>1, <1>6 DEF n

(* What is picked is a sequence of what the elements are about.            *)
LEMMA PicksSeq ==
    ASSUME NEW g, NEW m \in Nat, NEW q, NEW S, NEW I, Picks(g, m, q, S),
           \A k \in 1..m : k \in S => q[k].id \in I
    PROVE  \A i \in 0..m : g[i] \in Seq(I)
<1> DEFINE T == {i \in 0..m : g[i] \in Seq(I)}
<1>1. 0 \in T
  <2>1. g[0] = <<>> /\ <<>> \in Seq(I) /\ 0 \in 0..m
    BY DEF Picks
  <2> QED BY <2>1
<1>2. ASSUME NEW n \in 0..(m - 1), n \in T PROVE n + 1 \in T
  <2>1. n + 1 \in 1..m /\ n + 1 \in 0..m /\ (n + 1) - 1 = n
    OBVIOUS
  <2>2. g[n + 1] = Pick(g[n], q[n + 1], n + 1 \in S)
    <3>1. g[n + 1] = Pick(g[(n + 1) - 1], q[n + 1], n + 1 \in S)
      BY <2>1 DEF Picks
    <3> QED BY <2>1, <3>1
  <2>3. g[n + 1] \in Seq(I)
    BY <1>2, <2>1, <2>2 DEF Pick
  <2> QED BY <2>1, <2>3
<1> HIDE DEF T
<1>3. 0..m \subseteq T
  BY <1>1, <1>2, UpTo
<1> QED BY <1>3 DEF T

LEMMA PickedSeq ==
    ASSUME NEW q, Len(q) \in Nat, NEW S, NEW I,
           \A k \in 1..Len(q) : k \in S => q[k].id \in I
    PROVE  Picked(q, S) \in Seq(I)
<1>1. PICK g : Picks(g, Len(q), q, S) /\ Picked(q, S) = g[Len(q)]
  BY PickedLast
<1>2. \A i \in 0..Len(q) : g[i] \in Seq(I)
  BY <1>1, PicksSeq
<1> QED BY <1>1, <1>2

LEMMA PickedEmpty == \A S : Picked(<<>>, S) = <<>>
<1> TAKE S
<1>1. Len(<<>>) = 0
  OBVIOUS
<1>2. PICK g : Picks(g, Len(<<>>), <<>>, S) /\ Picked(<<>>, S) = g[Len(<<>>)]
  BY <1>1, PickedLast
<1> QED BY <1>1, <1>2 DEF Picks

(* One more element at the end.                                            *)
LEMMA PickedAppend ==
    ASSUME NEW X, NEW q \in Seq(X), NEW x \in X, NEW S, NEW T,
           \A k \in 1..Len(q) : k \in S <=> k \in T
    PROVE  Picked(Append(q, x), T) = Pick(Picked(q, S), x, Len(q) + 1 \in T)
<1> DEFINE r == Append(q, x)
           n == Len(q)
<1>1. /\ n \in Nat /\ Len(r) = n + 1
      /\ \A k \in 1..n : r[k] = q[k]
      /\ r[n + 1] = x
  OBVIOUS
<1> HIDE DEF r
<1>2. PICK g : Picks(g, n, q, S) /\ Picked(q, S) = g[n]
  BY <1>1, PickedLast
<1>3. PICK h : Picks(h, n + 1, r, T) /\ Picked(r, T) = h[n + 1]
  <2>1. Len(r) \in Nat
    BY <1>1
  <2>2. \E h : Picks(h, Len(r), r, T) /\ Picked(r, T) = h[Len(r)]
    BY <2>1, PickedLast
  <2> QED BY <1>1, <2>2
<1> HIDE DEF n
<1> DEFINE U == {i \in 0..n : h[i] = g[i]}
<1>4. 0 \in U
  BY <1>1, <1>2, <1>3 DEF Picks
<1>5. ASSUME NEW i \in 0..(n - 1), i \in U PROVE i + 1 \in U
  <2>1. i + 1 \in 1..n /\ i + 1 \in 1..(n + 1) /\ i + 1 \in 0..n /\ (i + 1) - 1 = i
    BY <1>1
  <2>2. g[i + 1] = Pick(g[i], q[i + 1], i + 1 \in S)
    <3>1. g[i + 1] = Pick(g[(i + 1) - 1], q[i + 1], i + 1 \in S)
      BY <1>2, <2>1 DEF Picks
    <3> QED BY <2>1, <3>1
  <2>3. h[i + 1] = Pick(h[i], r[i + 1], i + 1 \in T)
    <3>1. h[i + 1] = Pick(h[(i + 1) - 1], r[i + 1], i + 1 \in T)
      BY <1>3, <2>1 DEF Picks
    <3> QED BY <2>1, <3>1
  <2>4. h[i] = g[i] /\ r[i + 1] = q[i + 1] /\ (i + 1 \in S <=> i + 1 \in T)
    BY <1>1, <1>5, <2>1 DEF n
  <2> QED BY <2>1, <2>2, <2>3, <2>4 DEF Pick
<1> HIDE DEF U
<1>6. n \in U
  <2>1. 0..n \subseteq U
    BY <1>1, <1>4, <1>5, UpTo
  <2> QED BY <1>1, <2>1
<1>7. h[n + 1] = Pick(h[n], r[n + 1], n + 1 \in T)
  <2>1. n + 1 \in 1..(n + 1) /\ (n + 1) - 1 = n
    BY <1>1
  <2>2. h[n + 1] = Pick(h[(n + 1) - 1], r[n + 1], n + 1 \in T)
    BY <1>3, <2>1 DEF Picks
  <2> QED BY <2>1, <2>2
<1>8. h[n] = g[n]
  BY <1>6 DEF U
<1> QED BY <1>1, <1>2, <1>3, <1>7, <1>8 DEF r, n
\* A sequence behind one element, if that is picked.
Behind(x, here, ids) == IF here THEN <<x.id>> \o ids ELSE ids

(* One more element at the beginning.                                      *)
LEMMA PickedTail ==
    ASSUME NEW X, NEW q \in Seq(X), q # <<>>, NEW S, NEW T,
           \A k \in 1..(Len(q) - 1) : k \in T <=> k + 1 \in S
    PROVE  Picked(q, S) = Behind(Head(q), 1 \in S, Picked(Tail(q), T))
<1> DEFINE r == Tail(q)
           n == Len(q) - 1
           x == Head(q)
           I == {q[k].id : k \in 1..Len(q)}
<1>1. /\ n \in Nat /\ Len(r) = n /\ Len(q) = n + 1 /\ x = q[1]
      /\ \A k \in 1..n : r[k] = q[k + 1]
  OBVIOUS
<1>2. PICK g : Picks(g, n + 1, q, S) /\ Picked(q, S) = g[n + 1]
  <2>1. \E g : Picks(g, Len(q), q, S) /\ Picked(q, S) = g[Len(q)]
    BY <1>1, PickedLast
  <2> QED BY <1>1, <2>1
<1>3. PICK h : Picks(h, n, r, T) /\ Picked(r, T) = h[n]
  <2>1. Len(r) \in Nat
    BY <1>1
  <2> HIDE DEF r
  <2>2. \E h : Picks(h, Len(r), r, T) /\ Picked(r, T) = h[Len(r)]
    BY <2>1, PickedLast
  <2> QED BY <1>1, <2>2
<1>4. (\A k \in 1..n : r[k].id \in I) /\ x.id \in I
  BY <1>1
<1> HIDE DEF r, n, x, I
<1>5. \A i \in 0..n : h[i] \in Seq(I)
  BY <1>1, <1>3, <1>4, PicksSeq
<1> DEFINE U == {i \in 0..n : g[i + 1] = Behind(x, 1 \in S, h[i])}
<1>6. 0 \in U
  <2>1. 1 \in 1..(n + 1) /\ 1 - 1 = 0 /\ 0 + 1 = 1 /\ 0 \in 0..n
    BY <1>1
  <2>2. g[1] = Pick(g[0], q[1], 1 \in S)
    <3>1. g[1] = Pick(g[1 - 1], q[1], 1 \in S)
      BY <1>2, <2>1 DEF Picks
    <3> QED BY <2>1, <3>1
  <2>3. g[0] = <<>> /\ h[0] = <<>>
    BY <1>2, <1>3 DEF Picks
  <2>4. Append(<<>>, x.id) = <<x.id>> \o <<>>
    BY <1>4
  <2>5. g[1] = Behind(x, 1 \in S, h[0])
    BY <1>1, <2>2, <2>3, <2>4 DEF Pick, Behind
  <2> QED BY <2>1, <2>5
<1>7. ASSUME NEW i \in 0..(n - 1), i \in U PROVE i + 1 \in U
  <2>1. /\ i + 1 \in 1..n /\ i + 1 \in 0..n /\ (i + 1) - 1 = i /\ i \in 0..n
        /\ (i + 1) + 1 \in 1..(n + 1) /\ ((i + 1) + 1) - 1 = i + 1
    BY <1>1
  <2>2. g[(i + 1) + 1] = Pick(g[i + 1], q[(i + 1) + 1], (i + 1) + 1 \in S)
    <3>1. g[(i + 1) + 1] = Pick(g[((i + 1) + 1) - 1], q[(i + 1) + 1], (i + 1) + 1 \in S)
      BY <1>2, <2>1 DEF Picks
    <3> QED BY <2>1, <3>1
  <2>3. h[i + 1] = Pick(h[i], r[i + 1], i + 1 \in T)
    <3>1. h[i + 1] = Pick(h[(i + 1) - 1], r[i + 1], i + 1 \in T)
      BY <1>3, <2>1 DEF Picks
    <3> QED BY <2>1, <3>1
  <2>4. /\ g[i + 1] = Behind(x, 1 \in S, h[i])
        /\ r[i + 1] = q[(i + 1) + 1] /\ (i + 1 \in T <=> (i + 1) + 1 \in S)
    BY <1>1, <1>7, <2>1 DEF n
  <2>5. h[i] \in Seq(I) /\ r[i + 1].id \in I /\ x.id \in I
    BY <1>4, <1>5, <2>1
  <2>6. Append(<<x.id>> \o h[i], r[i + 1].id) = <<x.id>> \o Append(h[i], r[i + 1].id)
    <3> DEFINE b == <<x.id>>
               s == h[i]
               z == r[i + 1].id
               o == <<z>>
    <3>1. b \in Seq(I) /\ s \in Seq(I) /\ z \in I /\ o \in Seq(I)
      BY <2>5
    <3> HIDE DEF b, s, z
    <3>2. b \o s \in Seq(I)
      BY <3>1, ConcatProperties
    <3>3. Append(b \o s, z) = (b \o s) \o o /\ Append(s, z) = s \o o
      BY <3>1, <3>2, AppendIsConcat
    <3> HIDE DEF o
    <3>4. (b \o s) \o o = b \o (s \o o)
      BY <3>1, ConcatAssociative
    <3>5. Append(b \o s, z) = b \o Append(s, z)
      BY <3>3, <3>4, Zenon
    <3> QED BY <3>5, Zenon DEF b, s, z
  <2>7. g[(i + 1) + 1] = Behind(x, 1 \in S, h[i + 1])
    BY <2>2, <2>3, <2>4, <2>6 DEF Pick, Behind
  <2> QED BY <2>1, <2>7
<1> HIDE DEF U
<1>8. n \in U
  <2>1. 0..n \subseteq U
    BY <1>1, <1>6, <1>7, UpTo
  <2> QED BY <1>1, <2>1
<1> QED BY <1>2, <1>3, <1>8 DEF U, r, x

-----------------------------------------------------------------------------
(* What of a queue is about requests for plots *)

LEMMA OwnEmpty == \A f, v : Own(<<>>, f, v) = <<>>
BY PickedEmpty DEF Own

LEMMA OwnAppend ==
    ASSUME NEW q, IsSeq(q), NEW x, NEW f, NEW v
    PROVE  Own(Append(q, x), f, v) = IF x[f] = v THEN Append(Own(q, f, v), x.id)
                                     ELSE Own(q, f, v)
<1> DEFINE r == Append(q, x)
           S == {k \in DOMAIN q : q[k][f] = v}
           T == {k \in DOMAIN r : r[k][f] = v}
<1>1. PICK X : q \in Seq(X) /\ x \in X
  <2>1. PICK Y : q \in Seq(Y)
    BY DEF IsSeq
  <2>2. q \in Seq(Y \cup {x}) /\ x \in Y \cup {x}
    BY <2>1
  <2> QED BY <2>2
<1>2. /\ Len(q) \in Nat /\ DOMAIN q = 1..Len(q) /\ DOMAIN r = 1..(Len(q) + 1)
      /\ r[Len(q) + 1] = x /\ \A k \in 1..Len(q) : r[k] = q[k]
  BY <1>1
<1> HIDE DEF r
<1>3. (\A k \in 1..Len(q) : k \in S <=> k \in T) /\ (Len(q) + 1 \in T <=> x[f] = v)
  BY <1>2
<1> HIDE DEF S, T
<1>4. Picked(r, T) = Pick(Picked(q, S), x, Len(q) + 1 \in T)
  BY <1>1, <1>3, PickedAppend DEF r
<1>5. Own(r, f, v) = Picked(r, T) /\ Own(q, f, v) = Picked(q, S)
  BY DEF Own, S, T
<1> QED BY <1>3, <1>4, <1>5 DEF Pick, r

LEMMA OwnTail ==
    ASSUME NEW q, IsSeq(q), q # <<>>, NEW f, NEW v
    PROVE  Own(q, f, v) = IF Head(q)[f] = v THEN <<Head(q).id>> \o Own(Tail(q), f, v)
                          ELSE Own(Tail(q), f, v)
<1> DEFINE r == Tail(q)
           S == {k \in DOMAIN q : q[k][f] = v}
           T == {k \in DOMAIN r : r[k][f] = v}
<1>1. PICK X : q \in Seq(X)
  BY DEF IsSeq
<1>2. /\ Len(q) \in Nat /\ DOMAIN q = 1..Len(q) /\ DOMAIN r = 1..(Len(q) - 1)
      /\ 1 \in 1..Len(q) /\ Head(q) = q[1] /\ \A k \in 1..(Len(q) - 1) : r[k] = q[k + 1]
  BY <1>1
<1> HIDE DEF r
<1>3. (\A k \in 1..(Len(q) - 1) : k \in T <=> k + 1 \in S) /\ (1 \in S <=> Head(q)[f] = v)
  <2>1. \A k \in 1..(Len(q) - 1) : k + 1 \in 1..Len(q)
    BY <1>2
  <2> QED BY <1>2, <2>1
<1> HIDE DEF S, T
<1>4. Picked(q, S) = Behind(Head(q), 1 \in S, Picked(r, T))
  BY <1>1, <1>3, PickedTail DEF r
<1>5. Own(r, f, v) = Picked(r, T) /\ Own(q, f, v) = Picked(q, S)
  BY DEF Own, S, T
<1> QED BY <1>3, <1>4, <1>5 DEF Behind, r

LEMMA OwnSeq ==
    ASSUME NEW q, IsSeq(q), NEW f, NEW v, NEW I,
           \A k \in DOMAIN q : q[k][f] = v => q[k].id \in I
    PROVE  Own(q, f, v) \in Seq(I)
<1>1. Len(q) \in Nat /\ DOMAIN q = 1..Len(q)
  BY DEF IsSeq
<1> DEFINE S == {k \in DOMAIN q : q[k][f] = v}
<1>2. \A k \in 1..Len(q) : k \in S => q[k].id \in I
  BY <1>1
<1> HIDE DEF S
<1>3. Picked(q, S) \in Seq(I)
  BY <1>1, <1>2, PickedSeq
<1> QED BY <1>3 DEF Own, S

\* An answer to a request of environment e.
AnswerTo(x, e) == x.requestor = "Translator" /\ EnvironmentOf(x.id.ownship) = e

LEMMA BackEmpty == \A e : Back(<<>>, e) = <<>>
BY PickedEmpty DEF Back

LEMMA BackAppend ==
    ASSUME NEW q, IsSeq(q), NEW x, NEW e
    PROVE  Back(Append(q, x), e) = IF AnswerTo(x, e) THEN Append(Back(q, e), x.id)
                                   ELSE Back(q, e)
<1> DEFINE r == Append(q, x)
           S == {k \in DOMAIN q : AnswerTo(q[k], e)}
           T == {k \in DOMAIN r : AnswerTo(r[k], e)}
<1>1. PICK X : q \in Seq(X) /\ x \in X
  <2>1. PICK Y : q \in Seq(Y)
    BY DEF IsSeq
  <2>2. q \in Seq(Y \cup {x}) /\ x \in Y \cup {x}
    BY <2>1
  <2> QED BY <2>2
<1>2. /\ Len(q) \in Nat /\ DOMAIN q = 1..Len(q) /\ DOMAIN r = 1..(Len(q) + 1)
      /\ r[Len(q) + 1] = x /\ \A k \in 1..Len(q) : r[k] = q[k]
  BY <1>1
<1> HIDE DEF r
<1>3. (\A k \in 1..Len(q) : k \in S <=> k \in T) /\ (Len(q) + 1 \in T <=> AnswerTo(x, e))
  BY <1>2
<1>4. Back(r, e) = Picked(r, T) /\ Back(q, e) = Picked(q, S)
  BY DEF Back, AnswerTo
<1> HIDE DEF S, T
<1>5. Picked(r, T) = Pick(Picked(q, S), x, Len(q) + 1 \in T)
  BY <1>1, <1>3, PickedAppend DEF r
<1> QED BY <1>3, <1>4, <1>5 DEF Pick, r

LEMMA BackTail ==
    ASSUME NEW q, IsSeq(q), q # <<>>, NEW e
    PROVE  Back(q, e) = IF AnswerTo(Head(q), e) THEN <<Head(q).id>> \o Back(Tail(q), e)
                        ELSE Back(Tail(q), e)
<1> DEFINE r == Tail(q)
           S == {k \in DOMAIN q : AnswerTo(q[k], e)}
           T == {k \in DOMAIN r : AnswerTo(r[k], e)}
<1>1. PICK X : q \in Seq(X)
  BY DEF IsSeq
<1>2. /\ Len(q) \in Nat /\ DOMAIN q = 1..Len(q) /\ DOMAIN r = 1..(Len(q) - 1)
      /\ 1 \in 1..Len(q) /\ Head(q) = q[1] /\ \A k \in 1..(Len(q) - 1) : r[k] = q[k + 1]
  BY <1>1
<1> HIDE DEF r
<1>3. /\ \A k \in 1..(Len(q) - 1) : k \in T <=> k + 1 \in S
      /\ 1 \in S <=> AnswerTo(Head(q), e)
  <2>1. \A k \in 1..(Len(q) - 1) : k + 1 \in 1..Len(q)
    BY <1>2
  <2> QED BY <1>2, <2>1
<1>4. Back(r, e) = Picked(r, T) /\ Back(q, e) = Picked(q, S)
  BY DEF Back, AnswerTo
<1> HIDE DEF S, T
<1>5. Picked(q, S) = Behind(Head(q), 1 \in S, Picked(r, T))
  BY <1>1, <1>3, PickedTail DEF r
<1> QED BY <1>3, <1>4, <1>5 DEF Behind, r

LEMMA BackSeq ==
    ASSUME NEW q, IsSeq(q), NEW e, NEW I,
           \A k \in DOMAIN q : AnswerTo(q[k], e) => q[k].id \in I
    PROVE  Back(q, e) \in Seq(I)
<1>1. Len(q) \in Nat /\ DOMAIN q = 1..Len(q)
  BY DEF IsSeq
<1> DEFINE S == {k \in DOMAIN q : AnswerTo(q[k], e)}
<1>2. \A k \in 1..Len(q) : k \in S => q[k].id \in I
  BY <1>1
<1>3. Back(q, e) = Picked(q, S)
  BY DEF Back, AnswerTo
<1> HIDE DEF S
<1>4. Picked(q, S) \in Seq(I)
  BY <1>1, <1>2, PickedSeq
<1> QED BY <1>3, <1>4

-----------------------------------------------------------------------------
(* The requests of an environment along the chain *)

\* What is looked for in a queue carries one of the ids I.
Carries(q, f, v, I) == IsSeq(q) /\ \A k \in DOMAIN q : q[k][f] = v => q[k].id \in I

IdsAt(g) == {i \in Ids : EnvironmentOf(i.ownship) = EnvironmentId(g)}

\* The queues between netsim_manager and TLPlotThread.
Chain(env, asked, answered, resp) ==
    /\ DOMAIN env = Gateways /\ DOMAIN asked = Gateways /\ DOMAIN answered = Gateways
    /\ \A g \in Gateways :
          /\ Carries(env[g], "environment", EnvironmentId(g), IdsAt(g))
          /\ Carries(asked[g], "source", "Translator", IdsAt(g))
          /\ Carries(answered[g], "requestor", "Translator", IdsAt(g))
    /\ Carries(resp, "requestor", "Translator", Ids)

\* Waiting, of these queues.
WaitingIn(e, env, asked, answered, resp) ==
    LET g == GatewayOf(e)
    IN  Back(resp, e)
            \o (Own(answered[g], "requestor", "Translator")
            \o (Own(asked[g], "source", "Translator")
            \o Own(env[g], "environment", e)))

LEMMA CarriesEmpty == \A f, v, I : Carries(<<>>, f, v, I)
<1>1. <<>> \in Seq({})
  OBVIOUS
<1> QED BY <1>1 DEF Carries, IsSeq

LEMMA CarriesAppend ==
    ASSUME NEW q, NEW f, NEW v, NEW I, Carries(q, f, v, I), NEW x, x[f] = v => x.id \in I
    PROVE  Carries(Append(q, x), f, v, I)
<1> DEFINE r == Append(q, x)
<1>1. /\ IsSeq(r)
      /\ DOMAIN r = DOMAIN q \cup {Len(q) + 1}
      /\ \A i \in DOMAIN q : r[i] = q[i]
      /\ r[Len(q) + 1] = x
  BY Appended DEF Carries
<1> HIDE DEF r
<1>2. \A k \in DOMAIN r : r[k][f] = v => r[k].id \in I
  BY <1>1 DEF Carries
<1> QED BY <1>1, <1>2 DEF Carries, r

LEMMA CarriesTail ==
    ASSUME NEW q, NEW f, NEW v, NEW I, Carries(q, f, v, I), q # <<>>
    PROVE  Carries(Tail(q), f, v, I) /\ (Head(q)[f] = v => Head(q).id \in I)
<1> DEFINE r == Tail(q)
<1>1. /\ IsSeq(r) /\ 1 \in DOMAIN q /\ Head(q) = q[1]
      /\ \A i \in DOMAIN r : i + 1 \in DOMAIN q /\ r[i] = q[i + 1]
  BY Taken DEF Carries
<1> HIDE DEF r
<1>2. \A k \in DOMAIN r : r[k][f] = v => r[k].id \in I
  BY <1>1 DEF Carries
<1> QED BY <1>1, <1>2 DEF Carries, r

LEMMA CarriesSeq ==
    ASSUME NEW q, NEW f, NEW v, NEW I, Carries(q, f, v, I)
    PROVE  Own(q, f, v) \in Seq(I)
BY OwnSeq DEF Carries

\* The same for the fields by their names.
LEMMA NamedFields ==
    ASSUME NEW q, NEW x, NEW v, NEW I
    PROVE  /\ x["environment"] = x.environment /\ x["source"] = x.source
           /\ x["requestor"] = x.requestor /\ x["kind"] = x.kind
OBVIOUS

LEMMA EnvironmentFacts ==
    /\ \A i \in Ids : EnvironmentOf(i.ownship) \in Environments
    /\ \A e \in Environments : GatewayOf(e) \in Gateways /\ EnvironmentId(GatewayOf(e)) = e
    /\ \A g \in Gateways, e \in Environments : EnvironmentId(g) = e <=> g = GatewayOf(e)
<1>1. ASSUME NEW i \in Ids PROVE EnvironmentOf(i.ownship) \in Environments
  <2>1. i.ownship \in Ports
    BY DEF Ids
  <2>2. \E k \in DOMAIN Pairs : Pairs[k].modem_tcp_port = i.ownship
    BY <2>1 DEF Ports
  <2> DEFINE k == CHOOSE k \in DOMAIN Pairs : Pairs[k].modem_tcp_port = i.ownship
  <2>3. k \in DOMAIN Pairs
    BY <2>2
  <2>4. EnvironmentOf(i.ownship) = Pairs[k].environment
    BY DEF EnvironmentOf
  <2> HIDE DEF k
  <2> QED BY <2>3, <2>4 DEF Environments
<1>2. ASSUME NEW e \in Environments
      PROVE  GatewayOf(e) \in Gateways /\ EnvironmentId(GatewayOf(e)) = e
  <2>1. \E g \in Gateways : EnvironmentId(g) = e
    BY EnvironmentsAssumption
  <2> QED BY <2>1 DEF GatewayOf
<1> QED BY <1>1, <1>2, GatewaysAssumption

\* The parts of Waiting, one behind the other.
Joined(b, a, k, v) == b \o (a \o (k \o v))

\* Append, for lemmas that are used by the shape of their statements.
Then(s, x) == Append(s, x)

\* A request at the end of the last of four sequences.
LEMMA MovedIn ==
    \A b, a, k, v \in Seq(Ids) : \A x \in Ids :
        Joined(b, a, k, Then(v, x)) = Then(Joined(b, a, k, v), x)
<1> SUFFICES ASSUME NEW b \in Seq(Ids), NEW a \in Seq(Ids), NEW k \in Seq(Ids),
                    NEW v \in Seq(Ids), NEW x \in Ids
             PROVE  b \o (a \o (k \o Append(v, x))) = Append(b \o (a \o (k \o v)), x)
  BY DEF Joined, Then
<1>1. \A s, t \in Seq(Ids) : s \o Append(t, x) = Append(s \o t, x) /\ s \o t \in Seq(Ids)
  OBVIOUS
<1> DEFINE c == k \o v
           d == a \o c
<1>2. k \o Append(v, x) = Append(c, x) /\ c \in Seq(Ids)
  BY <1>1
<1> HIDE DEF c
<1>3. a \o Append(c, x) = Append(d, x) /\ d \in Seq(Ids)
  BY <1>1, <1>2
<1> HIDE DEF d
<1>4. b \o Append(d, x) = Append(b \o d, x)
  BY <1>1, <1>3
<1> QED BY <1>2, <1>3, <1>4 DEF c, d

\* A request from the beginning of a sequence to the end of the one ahead.
LEMMA Moved ==
    \A s, t \in Seq(Ids) : \A x \in Ids : s \o (<<x>> \o t) = Append(s, x) \o t
<1> SUFFICES ASSUME NEW s \in Seq(Ids), NEW t \in Seq(Ids), NEW x \in Ids
             PROVE  s \o (<<x>> \o t) = Append(s, x) \o t
  OBVIOUS
<1> DEFINE o == <<x>>
<1>1. o \in Seq(Ids) /\ Append(s, x) = s \o o
  BY AppendIsConcat
<1> HIDE DEF o
<1>2. (s \o o) \o t = s \o (o \o t)
  BY <1>1, ConcatAssociative
<1> QED BY <1>1, <1>2, Zenon DEF o

LEMMA MovedWithin ==
    \A s, t, u \in Seq(Ids) : \A x \in Ids :
        s \o ((<<x>> \o t) \o u) = Append(s, x) \o (t \o u)
<1> SUFFICES ASSUME NEW s \in Seq(Ids), NEW t \in Seq(Ids), NEW u \in Seq(Ids), NEW x \in Ids
             PROVE  s \o ((<<x>> \o t) \o u) = Append(s, x) \o (t \o u)
  OBVIOUS
<1>1. ASSUME NEW t2 \in Seq(Ids) PROVE s \o (<<x>> \o t2) = Append(s, x) \o t2
  OBVIOUS
<1>2. (<<x>> \o t) \o u = <<x>> \o (t \o u) /\ t \o u \in Seq(Ids)
  OBVIOUS
<1> QED BY <1>1, <1>2

\* The first request of two sequences.
LEMMA MovedOut ==
    \A s, t \in Seq(Ids) : \A x \in Ids :
        /\ (<<x>> \o s) \o t # <<>>
        /\ Head((<<x>> \o s) \o t) = x
        /\ Tail((<<x>> \o s) \o t) = s \o t
<1> SUFFICES ASSUME NEW s \in Seq(Ids), NEW t \in Seq(Ids), NEW x \in Ids
             PROVE  /\ (<<x>> \o s) \o t # <<>>
                    /\ Head((<<x>> \o s) \o t) = x
                    /\ Tail((<<x>> \o s) \o t) = s \o t
  OBVIOUS
<1> DEFINE z == s \o t
<1>1. (<<x>> \o s) \o t = <<x>> \o z /\ z \in Seq(Ids)
  OBVIOUS
<1> HIDE DEF z
<1>2. <<x>> \o z # <<>> /\ Head(<<x>> \o z) = x /\ Tail(<<x>> \o z) = z
  BY <1>1
<1> QED BY <1>1, <1>2 DEF z

\* The parts of Waiting are sequences of requests.
LEMMA WaitingParts ==
    ASSUME NEW env, NEW asked, NEW answered, NEW resp, Chain(env, asked, answered, resp),
           NEW e \in Environments
    PROVE  /\ GatewayOf(e) \in Gateways /\ EnvironmentId(GatewayOf(e)) = e
           /\ Back(resp, e) \in Seq(Ids)
           /\ Own(answered[GatewayOf(e)], "requestor", "Translator") \in Seq(Ids)
           /\ Own(asked[GatewayOf(e)], "source", "Translator") \in Seq(Ids)
           /\ Own(env[GatewayOf(e)], "environment", e) \in Seq(Ids)
           /\ WaitingIn(e, env, asked, answered, resp) \in Seq(Ids)
<1> DEFINE g == GatewayOf(e)
<1>1. g \in Gateways /\ EnvironmentId(g) = e
  BY EnvironmentFacts
<1> HIDE DEF g
<1>2. IdsAt(g) \subseteq Ids
  BY DEF IdsAt
<1>3. /\ Carries(env[g], "environment", e, Ids)
      /\ Carries(asked[g], "source", "Translator", Ids)
      /\ Carries(answered[g], "requestor", "Translator", Ids)
  BY <1>1, <1>2 DEF Chain, Carries
<1>4. /\ Own(answered[g], "requestor", "Translator") \in Seq(Ids)
      /\ Own(asked[g], "source", "Translator") \in Seq(Ids)
      /\ Own(env[g], "environment", e) \in Seq(Ids)
  BY <1>3, CarriesSeq
<1>5. Back(resp, e) \in Seq(Ids)
  <2>1. IsSeq(resp) /\ \A k \in DOMAIN resp : AnswerTo(resp[k], e) => resp[k].id \in Ids
    BY NamedFields DEF Chain, Carries, AnswerTo
  <2> QED BY <2>1, BackSeq
<1>6. WaitingIn(e, env, asked, answered, resp) =
        Back(resp, e) \o (Own(answered[g], "requestor", "Translator")
            \o (Own(asked[g], "source", "Translator") \o Own(env[g], "environment", e)))
  BY DEF WaitingIn, g
<1>7. WaitingIn(e, env, asked, answered, resp) \in Seq(Ids)
  BY <1>4, <1>5, <1>6, ConcatProperties
<1> QED BY <1>1, <1>4, <1>5, <1>7 DEF g

-----------------------------------------------------------------------------
(* What a step of the chain does to it *)

\* A request more for environment d.
LEMMA ChainPublishes ==
    ASSUME NEW env, NEW asked, NEW answered, NEW resp, Chain(env, asked, answered, resp),
           NEW i \in Ids, NEW x, x.id = i, x.environment = EnvironmentOf(i.ownship),
           NEW env2, env2 = [g \in Gateways |-> Append(env[g], x)]
    PROVE  /\ Chain(env2, asked, answered, resp)
           /\ \A e \in Environments :
                 WaitingIn(e, env2, asked, answered, resp) =
                    IF e = EnvironmentOf(i.ownship)
                    THEN Append(WaitingIn(e, env, asked, answered, resp), i)
                    ELSE WaitingIn(e, env, asked, answered, resp)
<1>1. Chain(env2, asked, answered, resp)
  <2>1. ASSUME NEW g \in Gateways
        PROVE  Carries(env2[g], "environment", EnvironmentId(g), IdsAt(g))
    <3>1. Carries(env[g], "environment", EnvironmentId(g), IdsAt(g))
      BY DEF Chain
    <3>2. x["environment"] = EnvironmentId(g) => x.id \in IdsAt(g)
      BY DEF IdsAt
    <3> QED BY <3>1, <3>2, CarriesAppend
  <2> QED BY <2>1 DEF Chain
<1>2. ASSUME NEW e \in Environments
      PROVE  WaitingIn(e, env2, asked, answered, resp) =
                IF e = EnvironmentOf(i.ownship)
                THEN Append(WaitingIn(e, env, asked, answered, resp), i)
                ELSE WaitingIn(e, env, asked, answered, resp)
  <2> DEFINE g == GatewayOf(e)
             B == Back(resp, e)
             A == Own(answered[g], "requestor", "Translator")
             K == Own(asked[g], "source", "Translator")
             V == Own(env[g], "environment", e)
             V2 == Own(env2[g], "environment", e)
  <2>1. /\ g \in Gateways /\ B \in Seq(Ids) /\ A \in Seq(Ids) /\ K \in Seq(Ids)
        /\ V \in Seq(Ids)
    BY WaitingParts
  <2>2. V2 = IF x["environment"] = e THEN Append(V, x.id) ELSE V
    BY <2>1, OwnAppend DEF Chain, Carries
  <2>3. /\ WaitingIn(e, env2, asked, answered, resp) = Joined(B, A, K, V2)
        /\ WaitingIn(e, env, asked, answered, resp) = Joined(B, A, K, V)
    BY Zenon DEF WaitingIn, Joined
  <2> HIDE DEF g, B, A, K, V, V2
  <2>4. Joined(B, A, K, Append(V, i)) = Append(Joined(B, A, K, V), i)
    <3>1. Joined(B, A, K, Then(V, i)) = Then(Joined(B, A, K, V), i)
      BY <2>1, MovedIn
    <3> QED BY <3>1, Zenon DEF Then
  <2>5. CASE x.environment = e
    <3>1. V2 = Append(V, i)
      BY <2>2, <2>5
    <3>2. WaitingIn(e, env2, asked, answered, resp) =
             Append(WaitingIn(e, env, asked, answered, resp), i)
      BY <2>3, <2>4, <3>1, Zenon
    <3> QED BY <2>5, <3>2
  <2>6. CASE x.environment # e
    BY <2>2, <2>3, <2>6
  <2> QED BY <2>5, <2>6
<1> QED BY <1>1, <1>2

LEMMA ChainForwards ==
    ASSUME NEW env, NEW asked, NEW answered, NEW resp, Chain(env, asked, answered, resp),
           NEW g \in Gateways, NEW x, NEW env2, NEW asked2,
           Forwards(g, x, env, asked, env2, asked2)
    PROVE  /\ Chain(env2, asked2, answered, resp)
           /\ \A e \in Environments : WaitingIn(e, env2, asked2, answered, resp) =
                                         WaitingIn(e, env, asked, answered, resp)
<1> DEFINE y == Head(env[g])
           own == y.environment = EnvironmentId(g)
<1>1. /\ env[g] # <<>> /\ x["source"] = "Translator" /\ x.id = y.id
      /\ DOMAIN env2 = Gateways /\ DOMAIN asked2 = Gateways
      /\ env2[g] = Tail(env[g]) /\ asked2[g] = IF own THEN Append(asked[g], x) ELSE asked[g]
      /\ \A h \in Gateways : h # g => env2[h] = env[h] /\ asked2[h] = asked[h]
  BY DEF Forwards, Chain
<1>2. /\ Carries(env[g], "environment", EnvironmentId(g), IdsAt(g))
      /\ Carries(asked[g], "source", "Translator", IdsAt(g))
  BY DEF Chain
<1>3. /\ Carries(env2[g], "environment", EnvironmentId(g), IdsAt(g))
      /\ own => y.id \in IdsAt(g)
  <2>1. y["environment"] = EnvironmentId(g) => y.id \in IdsAt(g)
    BY <1>1, <1>2, CarriesTail
  <2> QED BY <1>1, <1>2, <2>1, CarriesTail
<1>4. Carries(asked2[g], "source", "Translator", IdsAt(g))
  <2>1. own => Carries(Append(asked[g], x), "source", "Translator", IdsAt(g))
    BY <1>1, <1>2, <1>3, CarriesAppend
  <2> QED BY <1>1, <1>2, <2>1
<1>5. Chain(env2, asked2, answered, resp)
  BY <1>1, <1>3, <1>4 DEF Chain
<1>6. ASSUME NEW e \in Environments
      PROVE  WaitingIn(e, env2, asked2, answered, resp) = WaitingIn(e, env, asked, answered, resp)
  <2>1. CASE GatewayOf(e) # g
    BY <1>1, <2>1, WaitingParts DEF WaitingIn
  <2>2. CASE GatewayOf(e) = g
    <3> DEFINE B == Back(resp, e)
               A == Own(answered[g], "requestor", "Translator")
               K == Own(asked[g], "source", "Translator")
               V == Own(env[g], "environment", e)
               K2 == Own(asked2[g], "source", "Translator")
               V2 == Own(env2[g], "environment", e)
    <3>1. EnvironmentId(g) = e
      BY <2>2, EnvironmentFacts
    <3>2. K \in Seq(Ids)
      BY <2>2, WaitingParts
    <3>3. V2 \in Seq(Ids)
      BY <1>5, <2>2, WaitingParts
    <3>4. V = IF y["environment"] = e THEN <<y.id>> \o V2 ELSE V2
      <4>1. IsSeq(env[g]) /\ env[g] # <<>> /\ env2[g] = Tail(env[g])
        BY <1>1, <1>2 DEF Carries
      <4>2. V = IF Head(env[g])["environment"] = e
                THEN <<Head(env[g]).id>> \o Own(Tail(env[g]), "environment", e)
                ELSE Own(Tail(env[g]), "environment", e)
        BY <4>1, OwnTail
      <4> QED BY <4>1, <4>2, Zenon
    <3>5. own => K2 = Append(K, y.id)
      BY <1>1, <1>2, OwnAppend DEF Carries
    <3>6. ~own => K2 = K
      BY <1>1
    <3>7. /\ WaitingIn(e, env2, asked2, answered, resp) = B \o (A \o (K2 \o V2))
          /\ WaitingIn(e, env, asked, answered, resp) = B \o (A \o (K \o V))
      BY <2>2, Zenon DEF WaitingIn
    <3>8. own => y.id \in Ids
      BY <1>3 DEF IdsAt
    <3> HIDE DEF B, A, K, V, K2, V2, y
    <3>9. own => K2 \o V2 = K \o V
      <4> SUFFICES ASSUME own PROVE K2 \o V2 = K \o V
        OBVIOUS
      <4>1. K \o (<<y.id>> \o V2) = Append(K, y.id) \o V2
        BY <3>2, <3>3, <3>8, Moved, Zenon
      <4> QED BY <3>1, <3>4, <3>5, <4>1
    <3>10. ~own => K2 \o V2 = K \o V
      BY <3>1, <3>4, <3>6
    <3> QED BY <3>7, <3>9, <3>10, Zenon
  <2> QED BY <2>1, <2>2
<1> QED BY <1>5, <1>6

LEMMA ChainAnswers ==
    ASSUME NEW env, NEW asked, NEW answered, NEW resp, Chain(env, asked, answered, resp),
           NEW g \in Gateways, NEW x, NEW asked2, NEW answered2,
           Answers(g, x, asked, answered, asked2, answered2)
    PROVE  /\ Chain(env, asked2, answered2, resp)
           /\ \A e \in Environments : WaitingIn(e, env, asked2, answered2, resp) =
                                         WaitingIn(e, env, asked, answered, resp)
<1> DEFINE y == Head(asked[g])
           own == y.source = "Translator"
<1>1. /\ asked[g] # <<>> /\ x["requestor"] = y["source"] /\ x.id = y.id
      /\ DOMAIN asked2 = Gateways /\ DOMAIN answered2 = Gateways
      /\ asked2[g] = Tail(asked[g]) /\ answered2[g] = Append(answered[g], x)
      /\ \A h \in Gateways : h # g => asked2[h] = asked[h] /\ answered2[h] = answered[h]
  BY DEF Answers, Chain
<1>2. /\ Carries(asked[g], "source", "Translator", IdsAt(g))
      /\ Carries(answered[g], "requestor", "Translator", IdsAt(g))
  BY DEF Chain
<1>3. /\ Carries(asked2[g], "source", "Translator", IdsAt(g))
      /\ own => y.id \in IdsAt(g)
  <2>1. y["source"] = "Translator" => y.id \in IdsAt(g)
    BY <1>1, <1>2, CarriesTail
  <2> QED BY <1>1, <1>2, <2>1, CarriesTail
<1>4. Carries(answered2[g], "requestor", "Translator", IdsAt(g))
  BY <1>1, <1>2, <1>3, CarriesAppend
<1>5. Chain(env, asked2, answered2, resp)
  BY <1>1, <1>3, <1>4 DEF Chain
<1>6. ASSUME NEW e \in Environments
      PROVE  WaitingIn(e, env, asked2, answered2, resp) = WaitingIn(e, env, asked, answered, resp)
  <2>1. CASE GatewayOf(e) # g
    BY <1>1, <2>1, WaitingParts DEF WaitingIn
  <2>2. CASE GatewayOf(e) = g
    <3> DEFINE B == Back(resp, e)
               A == Own(answered[g], "requestor", "Translator")
               K == Own(asked[g], "source", "Translator")
               V == Own(env[g], "environment", e)
               A2 == Own(answered2[g], "requestor", "Translator")
               K2 == Own(asked2[g], "source", "Translator")
    <3>1. A \in Seq(Ids) /\ V \in Seq(Ids)
      BY <2>2, WaitingParts
    <3>2. K2 \in Seq(Ids)
      BY <1>5, <2>2, WaitingParts
    <3>3. K = IF y["source"] = "Translator" THEN <<y.id>> \o K2 ELSE K2
      <4>1. IsSeq(asked[g]) /\ asked[g] # <<>> /\ asked2[g] = Tail(asked[g])
        BY <1>1, <1>2 DEF Carries
      <4>2. K = IF Head(asked[g])["source"] = "Translator"
                THEN <<Head(asked[g]).id>> \o Own(Tail(asked[g]), "source", "Translator")
                ELSE Own(Tail(asked[g]), "source", "Translator")
        BY <4>1, OwnTail
      <4> QED BY <4>1, <4>2, Zenon
    <3>4. A2 = IF y["source"] = "Translator" THEN Append(A, y.id) ELSE A
      <4>1. IsSeq(answered[g]) /\ answered2[g] = Append(answered[g], x)
        BY <1>1, <1>2 DEF Carries
      <4>2. Own(Append(answered[g], x), "requestor", "Translator") =
               IF x["requestor"] = "Translator" THEN Append(A, x.id) ELSE A
        <5> DEFINE q == answered[g]
        <5>1. IsSeq(q)
          BY <4>1
        <5> HIDE DEF q
        <5>2. Own(Append(q, x), "requestor", "Translator") =
                 IF x["requestor"] = "Translator"
                 THEN Append(Own(q, "requestor", "Translator"), x.id)
                 ELSE Own(q, "requestor", "Translator")
          BY <5>1, OwnAppend
        <5> QED BY <5>2, Zenon DEF q
      <4> QED BY <1>1, <4>1, <4>2, Zenon
    <3>5. /\ WaitingIn(e, env, asked2, answered2, resp) = B \o (A2 \o (K2 \o V))
          /\ WaitingIn(e, env, asked, answered, resp) = B \o (A \o (K \o V))
      BY <2>2, Zenon DEF WaitingIn
    <3>6. own => y.id \in Ids
      BY <1>3 DEF IdsAt
    <3> HIDE DEF B, A, K, V, A2, K2, y
    <3>7. own => A2 \o (K2 \o V) = A \o (K \o V)
      <4> SUFFICES ASSUME own PROVE A2 \o (K2 \o V) = A \o (K \o V)
        OBVIOUS
      <4>0. \A t, u \in Seq(Ids) : \A i \in Ids :
               A \o ((<<i>> \o t) \o u) = Append(A, i) \o (t \o u)
        BY <3>1, MovedWithin, Zenon
      <4>1. A \o ((<<y.id>> \o K2) \o V) = Append(A, y.id) \o (K2 \o V)
        BY <3>1, <3>2, <3>6, <4>0, Zenon
      <4> QED BY <3>3, <3>4, <4>1
    <3>8. ~own => A2 \o (K2 \o V) = A \o (K \o V)
      BY <3>3, <3>4
    <3> QED BY <3>5, <3>7, <3>8, Zenon
  <2> QED BY <2>1, <2>2
<1> QED BY <1>5, <1>6

\* One more at the end of the queue of x, or the first of it less.
Put(Q, x, i) == [Q EXCEPT ![x] = Append(Q[x], i)]
Drop(Q, x) == [Q EXCEPT ![x] = Tail(Q[x])]

\* A request of another program.
LEMMA ChainForeign ==
    ASSUME NEW env, NEW asked, NEW answered, NEW resp, Chain(env, asked, answered, resp),
           NEW g \in Gateways, NEW x, x.source # "Translator", NEW asked2,
           asked2 = Put(asked, g, x)
    PROVE  /\ Chain(env, asked2, answered, resp)
           /\ \A e \in Environments : WaitingIn(e, env, asked2, answered, resp) =
                                         WaitingIn(e, env, asked, answered, resp)
<1>1. /\ x["source"] # "Translator" /\ DOMAIN asked2 = Gateways
      /\ asked2[g] = Append(asked[g], x)
      /\ \A h \in Gateways : h # g => asked2[h] = asked[h]
  BY DEF Chain, Put
<1>2. Carries(asked[g], "source", "Translator", IdsAt(g))
  BY DEF Chain
<1>3. Carries(asked2[g], "source", "Translator", IdsAt(g))
  BY <1>1, <1>2, CarriesAppend
<1>4. Chain(env, asked2, answered, resp)
  BY <1>1, <1>3 DEF Chain
<1>5. Own(asked2[g], "source", "Translator") = Own(asked[g], "source", "Translator")
  <2> DEFINE q == asked[g]
  <2>1. IsSeq(q) /\ asked2[g] = Append(q, x)
    BY <1>1, <1>2 DEF Carries
  <2> HIDE DEF q
  <2>2. Own(Append(q, x), "source", "Translator") = Own(q, "source", "Translator")
    BY <1>1, <2>1, OwnAppend
  <2> QED BY <2>1, <2>2, Zenon DEF q
<1>6. \A h \in Gateways : Own(asked2[h], "source", "Translator") =
                             Own(asked[h], "source", "Translator")
  BY <1>1, <1>5
<1>7. ASSUME NEW e \in Environments
      PROVE  WaitingIn(e, env, asked2, answered, resp) = WaitingIn(e, env, asked, answered, resp)
  BY <1>6, WaitingParts DEF WaitingIn
<1> QED BY <1>4, <1>7

LEMMA ChainReturns ==
    ASSUME NEW env, NEW asked, NEW answered, NEW resp, Chain(env, asked, answered, resp),
           NEW g \in Gateways, NEW answered2, NEW resp2,
           Returns(g, answered, resp, answered2, resp2)
    PROVE  /\ Chain(env, asked, answered2, resp2)
           /\ \A e \in Environments : WaitingIn(e, env, asked, answered2, resp2) =
                                         WaitingIn(e, env, asked, answered, resp)
<1> DEFINE y == Head(answered[g])
           own == y.requestor = "Translator"
<1>1. /\ answered[g] # <<>> /\ resp2 = Append(resp, y) /\ DOMAIN answered2 = Gateways
      /\ answered2[g] = Tail(answered[g])
      /\ \A h \in Gateways : h # g => answered2[h] = answered[h]
  BY DEF Returns, Chain
<1>2. /\ Carries(answered[g], "requestor", "Translator", IdsAt(g))
      /\ Carries(resp, "requestor", "Translator", Ids)
  BY DEF Chain
<1>3. /\ Carries(answered2[g], "requestor", "Translator", IdsAt(g))
      /\ own => y.id \in IdsAt(g)
  <2>1. y["requestor"] = "Translator" => y.id \in IdsAt(g)
    BY <1>1, <1>2, CarriesTail
  <2> QED BY <1>1, <1>2, <2>1, CarriesTail
<1>4. own => y.id \in Ids /\ EnvironmentOf(y.id.ownship) = EnvironmentId(g)
  BY <1>3 DEF IdsAt
<1>5. Carries(resp2, "requestor", "Translator", Ids)
  <2>1. y["requestor"] = "Translator" => y.id \in Ids
    BY <1>4
  <2> HIDE DEF y
  <2> QED BY <1>1, <1>2, <2>1, CarriesAppend
<1>6. Chain(env, asked, answered2, resp2)
  BY <1>1, <1>3, <1>5 DEF Chain
<1>7. ASSUME NEW e \in Environments
      PROVE  WaitingIn(e, env, asked, answered2, resp2) = WaitingIn(e, env, asked, answered, resp)
  <2> DEFINE h == GatewayOf(e)
             B == Back(resp, e)
             A == Own(answered[h], "requestor", "Translator")
             K == Own(asked[h], "source", "Translator")
             V == Own(env[h], "environment", e)
             B2 == Back(resp2, e)
             A2 == Own(answered2[h], "requestor", "Translator")
             z == K \o V
  <2>1. h \in Gateways /\ EnvironmentId(h) = e
    BY EnvironmentFacts
  <2>2. B2 = IF AnswerTo(y, e) THEN Append(B, y.id) ELSE B
    <3>1. IsSeq(resp) /\ resp2 = Append(resp, y)
      BY <1>1, <1>2 DEF Carries
    <3> HIDE DEF y
    <3>2. Back(Append(resp, y), e) = IF AnswerTo(y, e) THEN Append(B, y.id) ELSE B
      BY <3>1, BackAppend
    <3> QED BY <3>1, <3>2, Zenon
  <2>3. AnswerTo(y, e) => own /\ h = g
    <3>1. AnswerTo(y, e) => own /\ EnvironmentOf(y.id.ownship) = e
      BY DEF AnswerTo
    <3> HIDE DEF y
    <3> QED BY <1>4, <2>1, <3>1, GatewaysAssumption
  <2>4. own /\ h = g => AnswerTo(y, e)
    <3> HIDE DEF y
    <3> QED BY <1>4, <2>1 DEF AnswerTo
  <2>5. /\ WaitingIn(e, env, asked, answered2, resp2) = B2 \o (A2 \o z)
        /\ WaitingIn(e, env, asked, answered, resp) = B \o (A \o z)
    BY Zenon DEF WaitingIn
  <2>6. B \in Seq(Ids) /\ z \in Seq(Ids)
    <3>1. B \in Seq(Ids) /\ K \in Seq(Ids) /\ V \in Seq(Ids)
      BY WaitingParts
    <3> HIDE DEF K, V
    <3> QED BY <3>1
  <2>7. A2 \in Seq(Ids)
    BY <1>6, WaitingParts
  <2>8. h = g => A = IF own THEN <<y.id>> \o A2 ELSE A2
    <3>1. IsSeq(answered[g]) /\ answered[g] # <<>> /\ answered2[g] = Tail(answered[g])
      BY <1>1, <1>2 DEF Carries
    <3>2. Own(answered[g], "requestor", "Translator") =
             IF Head(answered[g])["requestor"] = "Translator"
             THEN <<Head(answered[g]).id>> \o Own(Tail(answered[g]), "requestor", "Translator")
             ELSE Own(Tail(answered[g]), "requestor", "Translator")
      BY <3>1, OwnTail
    <3> QED BY <3>1, <3>2, Zenon
  <2>9. h # g => A2 = A
    BY <1>1, <2>1
  <2> HIDE DEF h, B, A, K, V, B2, A2, z, y
  <2>10. CASE h = g /\ own
    <3>1. B2 = Append(B, y.id) /\ A = <<y.id>> \o A2 /\ y.id \in Ids
      BY <1>4, <2>2, <2>4, <2>8, <2>10
    <3>2. \A t, u \in Seq(Ids) : \A i \in Ids :
             B \o ((<<i>> \o t) \o u) = Append(B, i) \o (t \o u)
      BY <2>6, MovedWithin, Zenon
    <3>3. B \o ((<<y.id>> \o A2) \o z) = Append(B, y.id) \o (A2 \o z)
      BY <2>6, <2>7, <3>1, <3>2, Zenon
    <3> QED BY <2>5, <3>1, <3>3, Zenon
  <2>11. CASE h = g /\ ~own
    <3>1. B2 = B /\ A = A2
      BY <2>2, <2>3, <2>8, <2>11
    <3> QED BY <2>5, <3>1, Zenon
  <2>12. CASE h # g
    <3>1. B2 = B /\ A = A2
      BY <2>2, <2>3, <2>9, <2>12
    <3> QED BY <2>5, <3>1, Zenon
  <2> QED BY <2>10, <2>11, <2>12
<1> QED BY <1>6, <1>7

\* The first of w is i, and w2 the rest.
Led(w, i, w2) == w # <<>> /\ Head(w) = i /\ w2 = Tail(w)

\* TLPlotThread takes the first answer.
LEMMA ChainPlots ==
    ASSUME NEW env, NEW asked, NEW answered, NEW resp, Chain(env, asked, answered, resp),
           NEW y, NEW resp2, Led(resp, y, resp2)
    PROVE  /\ Chain(env, asked, answered, resp2)
           /\ y.requestor = "Translator" => y.id \in Ids
           /\ \A e \in Environments :
                 IF AnswerTo(y, e)
                 THEN Led(WaitingIn(e, env, asked, answered, resp), y.id,
                          WaitingIn(e, env, asked, answered, resp2))
                 ELSE WaitingIn(e, env, asked, answered, resp2) =
                         WaitingIn(e, env, asked, answered, resp)
<1>0. resp # <<>> /\ y = Head(resp) /\ resp2 = Tail(resp)
  BY DEF Led
<1>1. Carries(resp, "requestor", "Translator", Ids)
  BY DEF Chain
<1>2. /\ Carries(resp2, "requestor", "Translator", Ids)
      /\ y["requestor"] = "Translator" => y.id \in Ids
  BY <1>0, <1>1, CarriesTail
<1>3. Chain(env, asked, answered, resp2)
  BY <1>2 DEF Chain
<1>4. \A e : Back(resp, e) = IF AnswerTo(y, e) THEN <<y.id>> \o Back(resp2, e)
                             ELSE Back(resp2, e)
  BY <1>0, <1>1, BackTail DEF Carries
<1>5. ASSUME NEW e \in Environments
      PROVE  IF AnswerTo(y, e)
             THEN Led(WaitingIn(e, env, asked, answered, resp), y.id,
                      WaitingIn(e, env, asked, answered, resp2))
             ELSE WaitingIn(e, env, asked, answered, resp2) =
                     WaitingIn(e, env, asked, answered, resp)
  <2> DEFINE g == GatewayOf(e)
             A == Own(answered[g], "requestor", "Translator")
             K == Own(asked[g], "source", "Translator")
             V == Own(env[g], "environment", e)
             B2 == Back(resp2, e)
             z == A \o (K \o V)
             w == WaitingIn(e, env, asked, answered, resp)
             w2 == WaitingIn(e, env, asked, answered, resp2)
  <2>1. w = Back(resp, e) \o z /\ w2 = B2 \o z
    BY Zenon DEF WaitingIn
  <2>2. z \in Seq(Ids)
    <3>1. A \in Seq(Ids) /\ K \in Seq(Ids) /\ V \in Seq(Ids)
      BY WaitingParts
    <3> HIDE DEF A, K, V
    <3> QED BY <3>1
  <2>3. B2 \in Seq(Ids)
    BY <1>3, WaitingParts
  <2> HIDE DEF z, B2, w, w2
  <2>4. CASE AnswerTo(y, e)
    <3>1. y.id \in Ids /\ Back(resp, e) = <<y.id>> \o B2
      BY <1>2, <1>4, <2>4, NamedFields DEF AnswerTo, B2
    <3>2. /\ (<<y.id>> \o B2) \o z # <<>>
          /\ Head((<<y.id>> \o B2) \o z) = y.id
          /\ Tail((<<y.id>> \o B2) \o z) = B2 \o z
      BY <2>2, <2>3, <3>1, MovedOut, Zenon
    <3>3. w # <<>> /\ Head(w) = y.id /\ w2 = Tail(w)
      BY <2>1, <3>1, <3>2, Zenon
    <3> QED BY <2>4, <3>3, Zenon DEF w, w2, Led
  <2>5. CASE ~AnswerTo(y, e)
    <3>1. w2 = w
      BY <1>4, <2>1, <2>5, Zenon DEF B2
    <3> QED BY <2>5, <3>1, Zenon DEF w, w2
  <2> QED BY <2>4, <2>5
<1> QED BY <1>2, <1>3, <1>5

-----------------------------------------------------------------------------
(* Every request is at one place *)

In(i, Q) == \E x \in DOMAIN Q : \E k \in DOMAIN Q[x] : Q[x][k] = i

Once(Q) ==
    \A x, y \in DOMAIN Q : \A k \in DOMAIN Q[x], l \in DOMAIN Q[y] :
        Q[x][k] = Q[y][l] => x = y /\ k = l

Lines(D, Q) == Q \in [D -> Seq(Ids)]

LEMMA Enters ==
    ASSUME NEW D, NEW Q, Lines(D, Q), Once(Q), NEW x \in D, NEW i \in Ids, ~In(i, Q)
    PROVE  /\ Lines(D, Put(Q, x, i)) /\ Once(Put(Q, x, i))
           /\ \A j : In(j, Put(Q, x, i)) => In(j, Q) \/ j = i
<1> USE DEF Lines
<1> DEFINE n == Len(Q[x]) + 1
<1>0. PICK R : R = [Q EXCEPT ![x] = Append(Q[x], i)] /\ R = Put(Q, x, i)
  BY DEF Put
<1>1. /\ DOMAIN Q = D /\ DOMAIN R = D /\ R[x] \in Seq(Ids)
      /\ DOMAIN R[x] = DOMAIN Q[x] \cup {n} /\ n \notin DOMAIN Q[x] /\ R[x][n] = i
      /\ \A k \in DOMAIN Q[x] : R[x][k] = Q[x][k]
  <2>1. Q[x] \in Seq(Ids) /\ R[x] = Append(Q[x], i)
    BY <1>0
  <2>2. IsSeq(Q[x])
    BY <2>1 DEF IsSeq
  <2>3. /\ DOMAIN R[x] = DOMAIN Q[x] \cup {n} /\ n \notin DOMAIN Q[x] /\ R[x][n] = i
        /\ \A k \in DOMAIN Q[x] : R[x][k] = Q[x][k]
    BY <2>1, <2>2, Appended
  <2> QED BY <1>0, <2>1, <2>3
<1>2. \A y \in D : y # x => R[y] = Q[y]
  BY <1>0
<1>3. R \in [D -> Seq(Ids)]
  BY <1>0, <1>1
<1> HIDE DEF n
<1>4. ASSUME NEW y \in D, NEW k \in DOMAIN R[y]
      PROVE  \/ k \in DOMAIN Q[y] /\ R[y][k] = Q[y][k]
             \/ y = x /\ k = n /\ R[y][k] = i
  BY <1>1, <1>2
<1>5. \A y \in D : \A k \in DOMAIN Q[y] : Q[y][k] # i
  BY <1>1 DEF In
<1>6. Once(R)
  <2> SUFFICES ASSUME NEW y \in D, NEW z \in D, NEW k \in DOMAIN R[y], NEW l \in DOMAIN R[z],
                      R[y][k] = R[z][l]
               PROVE  y = z /\ k = l
    BY <1>1 DEF Once
  <2>1. \/ k \in DOMAIN Q[y] /\ R[y][k] = Q[y][k]
        \/ y = x /\ k = n /\ R[y][k] = i
    BY <1>4, Zenon
  <2>2. \/ l \in DOMAIN Q[z] /\ R[z][l] = Q[z][l]
        \/ z = x /\ l = n /\ R[z][l] = i
    BY <1>4, Zenon
  <2>3. k \in DOMAIN Q[y] /\ l \in DOMAIN Q[z] /\ Q[y][k] = Q[z][l] => y = z /\ k = l
    BY <1>1 DEF Once
  <2> QED BY <1>5, <2>1, <2>2, <2>3, Zenon
<1>7. ASSUME NEW j, In(j, R) PROVE In(j, Q) \/ j = i
  <2>1. PICK y \in D : \E k \in DOMAIN R[y] : R[y][k] = j
    BY <1>1, <1>7, Zenon DEF In
  <2>2. PICK k \in DOMAIN R[y] : R[y][k] = j
    BY <2>1
  <2> QED BY <1>1, <1>4, <2>2, Zenon DEF In
<1> QED BY <1>0, <1>3, <1>6, <1>7

LEMMA Goes ==
    ASSUME NEW D, NEW Q, Lines(D, Q), Once(Q), NEW x \in D, Q[x] # <<>>
    PROVE  /\ Lines(D, Drop(Q, x)) /\ Once(Drop(Q, x))
           /\ \A j : In(j, Drop(Q, x)) => In(j, Q)
           /\ Head(Q[x]) \in Ids /\ In(Head(Q[x]), Q) /\ ~In(Head(Q[x]), Drop(Q, x))
<1> USE DEF Lines
<1>0. PICK R : R = [Q EXCEPT ![x] = Tail(Q[x])] /\ R = Drop(Q, x)
  BY DEF Drop
<1>1. /\ DOMAIN Q = D /\ DOMAIN R = D /\ R[x] \in Seq(Ids)
      /\ 1 \in DOMAIN Q[x] /\ Head(Q[x]) = Q[x][1] /\ Head(Q[x]) \in Ids
      /\ \A k \in DOMAIN R[x] : k + 1 \in DOMAIN Q[x] /\ k + 1 # 1 /\ R[x][k] = Q[x][k + 1]
      /\ \A k, l \in DOMAIN R[x] : k + 1 = l + 1 => k = l
  <2>1. Q[x] \in Seq(Ids) /\ R[x] = Tail(Q[x]) /\ Head(Q[x]) \in Ids /\ R[x] \in Seq(Ids)
    BY <1>0
  <2>2. IsSeq(Q[x])
    BY <2>1 DEF IsSeq
  <2>3. /\ 1 \in DOMAIN Q[x] /\ Head(Q[x]) = Q[x][1]
        /\ \A k \in DOMAIN R[x] : k + 1 \in DOMAIN Q[x] /\ k + 1 # 1 /\ R[x][k] = Q[x][k + 1]
        /\ \A k, l \in DOMAIN R[x] : k + 1 = l + 1 => k = l
    BY <2>1, <2>2, Taken
  <2> QED BY <1>0, <2>1, <2>3
<1>2. \A y \in D : y # x => R[y] = Q[y]
  BY <1>0
<1>3. R \in [D -> Seq(Ids)]
  BY <1>0, <1>1
<1> DEFINE from(y, k) == IF y = x THEN k + 1 ELSE k
<1>4. ASSUME NEW y \in D, NEW k \in DOMAIN R[y]
      PROVE  from(y, k) \in DOMAIN Q[y] /\ R[y][k] = Q[y][from(y, k)]
  BY <1>1, <1>2
<1>5. \A y \in D : \A k, l \in DOMAIN R[y] : from(y, k) = from(y, l) => k = l
  BY <1>1
<1>6. \A k \in DOMAIN R[x] : from(x, k) # 1
  BY <1>1
<1> HIDE DEF from
<1>7. Once(R)
  <2> SUFFICES ASSUME NEW y \in D, NEW z \in D, NEW k \in DOMAIN R[y], NEW l \in DOMAIN R[z],
                      R[y][k] = R[z][l]
               PROVE  y = z /\ k = l
    BY <1>1 DEF Once
  <2>1. /\ from(y, k) \in DOMAIN Q[y] /\ R[y][k] = Q[y][from(y, k)]
        /\ from(z, l) \in DOMAIN Q[z] /\ R[z][l] = Q[z][from(z, l)]
    BY <1>4
  <2>2. y = z /\ from(y, k) = from(z, l)
    <3> DEFINE a == from(y, k)
               b == from(z, l)
    <3>1. a \in DOMAIN Q[y] /\ b \in DOMAIN Q[z] /\ Q[y][a] = Q[z][b]
      BY <2>1
    <3> HIDE DEF a, b
    <3> QED BY <1>1, <3>1 DEF Once, a, b
  <2> QED BY <1>5, <2>2
<1>8. ASSUME NEW j, In(j, R) PROVE In(j, Q) /\ j # Q[x][1]
  <2>1. PICK y \in D : \E k \in DOMAIN R[y] : R[y][k] = j
    BY <1>1, <1>8, Zenon DEF In
  <2>2. PICK k \in DOMAIN R[y] : R[y][k] = j
    BY <2>1
  <2>3. from(y, k) \in DOMAIN Q[y] /\ j = Q[y][from(y, k)]
    BY <1>4, <2>2
  <2>4. In(j, Q)
    BY <1>1, <2>3, Zenon DEF In
  <2>5. ASSUME j = Q[x][1] PROVE y = x /\ from(y, k) = 1
    <3> DEFINE l == from(y, k)
    <3>1. l \in DOMAIN Q[y] /\ Q[y][l] = Q[x][1]
      BY <2>3, <2>5
    <3> HIDE DEF l
    <3> QED BY <1>1, <3>1 DEF Once, l
  <2> QED BY <1>6, <2>2, <2>4, <2>5
<1>9. In(Head(Q[x]), Q)
  BY <1>1, Zenon DEF In
<1> QED BY <1>0, <1>1, <1>3, <1>7, <1>8, <1>9

LEMMA Emptied ==
    ASSUME NEW D, NEW Q, Lines(D, Q), Once(Q), NEW x \in D,
           NEW R, R = [Q EXCEPT ![x] = <<>>]
    PROVE  /\ Lines(D, R) /\ Once(R)
           /\ \A j : In(j, R) => In(j, Q)
<1> USE DEF Lines
<1>1. /\ DOMAIN Q = D /\ DOMAIN R = D /\ R[x] = <<>>
      /\ \A y \in D : y # x => R[y] = Q[y]
  OBVIOUS
<1>2. R \in [D -> Seq(Ids)]
  BY <1>1
<1>3. \A y \in D : \A k \in DOMAIN R[y] : y # x
  BY <1>1
<1>4. \A y \in D : \A k \in DOMAIN R[y] : k \in DOMAIN Q[y] /\ R[y][k] = Q[y][k]
  BY <1>1, <1>3
<1>5. Once(R)
  BY <1>1, <1>4 DEF Once
<1>6. \A j : In(j, R) => In(j, Q)
  BY <1>1, <1>4 DEF In
<1> QED BY <1>2, <1>5, <1>6

\* What is requested, what waits and what is plotted, of c requests made.
Accounted(req, W, done, c) ==
    /\ Lines(Sessions, req) /\ Once(req)
    /\ Lines(Environments, W) /\ Once(W)
    /\ c \in Nat
    /\ \A i : In(i, req) => i.n \in 0..c /\ ~In(i, W) /\ i \notin done
    /\ \A i : In(i, W) => i.n \in 0..c /\ i \notin done
    /\ \A i \in done : i.n \in 0..c

LEMMA AccountedClick ==
    ASSUME NEW req, NEW W, NEW done, NEW c, Accounted(req, W, done, c),
           NEW s \in Sessions, NEW i \in Ids, i.n = c + 1,
           NEW req2, req2 = Put(req, s, i)
    PROVE  Accounted(req2, W, done, c + 1)
<1>1. c \in Nat /\ i.n \notin 0..c
  BY DEF Accounted
<1>2. ~In(i, req) /\ ~In(i, W) /\ i \notin done
  BY <1>1 DEF Accounted
<1>3. /\ Lines(Sessions, req2) /\ Once(req2)
      /\ \A j : In(j, req2) => In(j, req) \/ j = i
  <2>1. Lines(Sessions, req) /\ Once(req)
    BY DEF Accounted
  <2> QED BY <1>2, <2>1, Enters
<1>4. c + 1 \in Nat /\ i.n \in 0..(c + 1) /\ 0..c \subseteq 0..(c + 1)
  BY <1>1
<1> HIDE DEF In, Once
<1> QED BY <1>1, <1>2, <1>3, <1>4 DEF Accounted

\* netsim_manager takes a request.
LEMMA AccountedTaken ==
    ASSUME NEW req, NEW W, NEW done, NEW c, Accounted(req, W, done, c),
           NEW s \in Sessions, req[s] # <<>>, NEW e \in Environments,
           NEW req2, req2 = Drop(req, s),
           NEW W2, W2 = Put(W, e, Head(req[s]))
    PROVE  /\ Accounted(req2, W2, done, c)
           /\ Head(req[s]) \in Ids /\ Head(req[s]) \notin done /\ ~In(Head(req[s]), W)
<1> DEFINE i == Head(req[s])
<1>1. /\ Lines(Sessions, req2) /\ Once(req2)
      /\ \A j : In(j, req2) => In(j, req)
      /\ i \in Ids /\ In(i, req) /\ ~In(i, req2)
  <2>1. Lines(Sessions, req) /\ Once(req)
    BY DEF Accounted
  <2> QED BY <2>1, Goes
<1> HIDE DEF i
<1>2. i.n \in 0..c /\ ~In(i, W) /\ i \notin done
  BY <1>1 DEF Accounted
<1>3. /\ Lines(Environments, W2) /\ Once(W2)
      /\ \A j : In(j, W2) => In(j, W) \/ j = i
  <2>1. Lines(Environments, W) /\ Once(W)
    BY DEF Accounted
  <2>2. W2 = Put(W, e, i)
    BY DEF i
  <2> QED BY <1>1, <1>2, <2>1, <2>2, Enters
<1>4. Accounted(req2, W2, done, c)
  BY <1>1, <1>2, <1>3 DEF Accounted
<1> QED BY <1>1, <1>2, <1>4 DEF i

\* TLPlotThread answers a request.
LEMMA AccountedPlot ==
    ASSUME NEW req, NEW W, NEW done, NEW c, Accounted(req, W, done, c),
           NEW e \in Environments, W[e] # <<>>,
           NEW W2, W2 = Drop(W, e)
    PROVE  Accounted(req, W2, done \cup {Head(W[e])}, c) /\ Head(W[e]) \notin done
<1> DEFINE i == Head(W[e])
<1>1. /\ Lines(Environments, W2) /\ Once(W2)
      /\ \A j : In(j, W2) => In(j, W)
      /\ i \in Ids /\ In(i, W) /\ ~In(i, W2)
  <2>1. Lines(Environments, W) /\ Once(W)
    BY DEF Accounted
  <2> QED BY <2>1, Goes
<1> HIDE DEF i
<1>2. i.n \in 0..c /\ i \notin done /\ ~In(i, req)
  BY <1>1 DEF Accounted
<1>3. Accounted(req, W2, done \cup {i}, c)
  BY <1>1, <1>2 DEF Accounted
<1> QED BY <1>2, <1>3 DEF i

\* A session leaves.
LEMMA AccountedLeft ==
    ASSUME NEW req, NEW W, NEW done, NEW c, Accounted(req, W, done, c), NEW s \in Sessions,
           NEW left \in {req[s], <<>>}, NEW req2, req2 = [req EXCEPT ![s] = left]
    PROVE  Accounted(req2, W, done, c)
<1>1. CASE left = req[s]
  <2>1. req2 = req
    BY <1>1 DEF Accounted, Lines
  <2> QED BY <2>1
<1>2. CASE left = <<>>
  <2>1. /\ Lines(Sessions, req2) /\ Once(req2)
        /\ \A j : In(j, req2) => In(j, req)
    BY <1>2, Emptied DEF Accounted
  <2> QED BY <2>1 DEF Accounted
<1> QED BY <1>1, <1>2

-----------------------------------------------------------------------------
(* The chain implements TLService *)

WaitingAll == [e \in Environments |-> Waiting(e)]
NewsAll == [s \in Connected |-> News(s)]
ToldAll == [s \in Sessions |-> Told(s)]

ServiceStep == [Service!ServiceNext]_Service!service_vars

ServiceInv ==
    /\ Chain(env_bellhop_req, BELLHOP_REQUEST, BELLHOP_RESPONSE, bellhop_response)
    /\ Accounted(bellhop_request, WaitingAll, plotted, clicks)
    /\ \A s \in Sessions : IsSeq(wt[s]) /\ IsSeq(ui[s].answers)
    /\ \A s \in Sessions : stage[s] # "connected" => wt[s] = <<>>

LEMMA WaitingOf ==
    /\ \A e : Waiting(e) = WaitingIn(e, env_bellhop_req, BELLHOP_REQUEST, BELLHOP_RESPONSE,
                                     bellhop_response)
    /\ \A e : Waiting(e)' = WaitingIn(e, env_bellhop_req', BELLHOP_REQUEST', BELLHOP_RESPONSE',
                                      bellhop_response')
BY Zenon DEF Waiting, WaitingIn

\* What the service sees of a step.
LEMMA SameWaiting ==
    ASSUME \A e \in Environments : Waiting(e)' = Waiting(e)
    PROVE  WaitingAll' = WaitingAll
BY DEF WaitingAll

LEMMA SameNews ==
    ASSUME \A s \in Sessions : stage'[s] = "connected" <=> stage[s] = "connected",
           \A s \in Sessions : News(s)' = News(s)
    PROVE  NewsAll' = NewsAll
<1>1. Connected' = Connected /\ Connected \subseteq Sessions
  BY DEF Connected
<1> QED BY <1>1 DEF NewsAll

LEMMA SameTold ==
    ASSUME \A s \in Sessions : ui'[s].answers = ui[s].answers
    PROVE  ToldAll' = ToldAll
BY DEF ToldAll, Told

LEMMA Stutter ==
    ASSUME WaitingAll' = WaitingAll, plotted' = plotted, NewsAll' = NewsAll, ToldAll' = ToldAll
    PROVE  ServiceStep
BY DEF ServiceStep, Service!service_vars, WaitingAll, NewsAll, ToldAll

LEMMA AskStep ==
    ASSUME NEW e \in Environments, NEW i \in Ids, i \notin plotted, ~In(i, WaitingAll),
           WaitingAll[e] \in Seq(Ids), WaitingAll' = Put(WaitingAll, e, i),
           plotted' = plotted, NewsAll' = NewsAll, ToldAll' = ToldAll
    PROVE  ServiceStep
<1>1. /\ e \in DOMAIN WaitingAll /\ DOMAIN WaitingAll = Environments
      /\ WaitingAll' = [WaitingAll EXCEPT ![e] = Append(@, i)]
  BY DEF WaitingAll, Put
<1>2. Len(WaitingAll'[e]) = Len(WaitingAll[e]) + 1
  <2>1. WaitingAll'[e] = Append(WaitingAll[e], i)
    BY <1>1
  <2> QED BY <2>1
<1>3. \A f \in Environments : \A k \in DOMAIN WaitingAll[f] : WaitingAll[f][k] # i
  BY <1>1, Zenon DEF In
<1>4. Service!Ask(e)
  BY <1>1, <1>2, <1>3, Zenon DEF Service!Ask, WaitingAll, NewsAll, ToldAll
<1> QED BY <1>4, Zenon DEF ServiceStep, Service!ServiceNext

LEMMA AnswerStep ==
    ASSUME NEW e \in Environments, WaitingAll[e] # <<>>, WaitingAll' = Drop(WaitingAll, e),
           Head(WaitingAll[e]) \notin plotted, plotted' = plotted \cup {Head(WaitingAll[e])},
           NewsAll' = [s \in DOMAIN NewsAll |-> Append(NewsAll[s], Head(WaitingAll[e]))],
           ToldAll' = ToldAll
    PROVE  ServiceStep
<1>1. WaitingAll' = [WaitingAll EXCEPT ![e] = Tail(@)]
  BY DEF Drop
<1>2. plotted' # plotted
  OBVIOUS
<1>3. Service!Answer(e)
  BY <1>1, <1>2, Zenon DEF Service!Answer, WaitingAll, NewsAll, ToldAll
<1> QED BY <1>3, Zenon DEF ServiceStep, Service!ServiceNext

LEMMA TellStep ==
    ASSUME NEW s \in Sessions, s \in DOMAIN NewsAll, NewsAll[s] # <<>>,
           NewsAll' = [NewsAll EXCEPT ![s] = Tail(@)],
           ToldAll' = [ToldAll EXCEPT ![s] = Head(NewsAll[s])],
           WaitingAll' = WaitingAll, plotted' = plotted
    PROVE  ServiceStep
<1>1. Service!Tell(s)
  BY Zenon DEF Service!Tell, WaitingAll, NewsAll, ToldAll
<1> QED BY <1>1, Zenon DEF ServiceStep, Service!ServiceNext

LEMMA ConnectStep ==
    ASSUME NEW s \in Sessions, s \notin DOMAIN NewsAll,
           NewsAll' = [t \in DOMAIN NewsAll \cup {s} |-> IF t = s THEN <<>> ELSE NewsAll[t]],
           WaitingAll' = WaitingAll, plotted' = plotted, ToldAll' = ToldAll
    PROVE  ServiceStep
<1>1. Service!Connect(s)
  BY Zenon DEF Service!Connect, WaitingAll, NewsAll, ToldAll
<1> QED BY <1>1, Zenon DEF ServiceStep, Service!ServiceNext

LEMMA LeaveStep ==
    ASSUME NEW s \in Sessions, s \in DOMAIN NewsAll,
           NewsAll' = [t \in DOMAIN NewsAll \ {s} |-> NewsAll[t]],
           ToldAll' = [ToldAll EXCEPT ![s] = <<>>],
           WaitingAll' = WaitingAll, plotted' = plotted
    PROVE  ServiceStep
<1>1. Service!Leave(s)
  BY Zenon DEF Service!Leave, WaitingAll, NewsAll, ToldAll
<1> QED BY <1>1, Zenon DEF ServiceStep, Service!ServiceNext

LEMMA ServiceInvInit == Init => ServiceInv /\ Service!ServiceInit
<1> SUFFICES ASSUME Init PROVE ServiceInv /\ Service!ServiceInit
  OBVIOUS
<1>1. /\ env_bellhop_req = [g \in Gateways |-> <<>>]
      /\ BELLHOP_REQUEST = [g \in Gateways |-> <<>>]
      /\ BELLHOP_RESPONSE = [g \in Gateways |-> <<>>] /\ bellhop_response = <<>>
      /\ stage = [s \in Sessions |-> "none"] /\ wt = [s \in Sessions |-> <<>>]
      /\ ui = [s \in Sessions |-> NewSession]
      /\ bellhop_request = [s \in Sessions |-> <<>>] /\ plotted = {} /\ clicks = 0
  BY DEF Init, GatewayInit, LiaisonInit
<1>2. Chain(env_bellhop_req, BELLHOP_REQUEST, BELLHOP_RESPONSE, bellhop_response)
  BY <1>1, CarriesEmpty DEF Chain
<1>3. ASSUME NEW e \in Environments PROVE Waiting(e) = <<>>
  <2>1. GatewayOf(e) \in Gateways
    BY EnvironmentFacts
  <2>2. /\ Back(bellhop_response, e) = <<>>
        /\ Own(BELLHOP_RESPONSE[GatewayOf(e)], "requestor", "Translator") = <<>>
        /\ Own(BELLHOP_REQUEST[GatewayOf(e)], "source", "Translator") = <<>>
        /\ Own(env_bellhop_req[GatewayOf(e)], "environment", e) = <<>>
    BY <1>1, <2>1, OwnEmpty, BackEmpty
  <2>3. <<>> \o (<<>> \o (<<>> \o <<>>)) = <<>>
    OBVIOUS
  <2> QED BY <2>2, <2>3, Zenon DEF Waiting
<1>4. WaitingAll = [e \in Environments |-> <<>>]
  BY <1>3 DEF WaitingAll
<1>5. /\ Lines(Sessions, bellhop_request) /\ Lines(Environments, WaitingAll)
      /\ Once(bellhop_request) /\ Once(WaitingAll)
      /\ \A i : ~In(i, bellhop_request) /\ ~In(i, WaitingAll)
  <2>1. DOMAIN <<>> = {} /\ <<>> \in Seq(Ids)
    OBVIOUS
  <2>2. ASSUME NEW D, NEW Q, Q = [x \in D |-> <<>>]
        PROVE  Lines(D, Q) /\ Once(Q) /\ \A i : ~In(i, Q)
    BY <2>1, <2>2 DEF Lines, Once, In
  <2> QED BY <1>1, <1>4, <2>2
<1>6. Accounted(bellhop_request, WaitingAll, plotted, clicks)
  BY <1>1, <1>5 DEF Accounted
<1>7. IsSeq(<<>>)
  <2>1. <<>> \in Seq({})
    OBVIOUS
  <2> QED BY <2>1 DEF IsSeq
<1>8. ServiceInv
  BY <1>1, <1>2, <1>6, <1>7 DEF ServiceInv, NewSession
<1>9. Connected = {} /\ \A s \in Sessions : Told(s) = <<>>
  BY <1>1 DEF Connected, Told, NewSession
<1>10. Service!ServiceInit
  BY <1>1, <1>4, <1>9 DEF Service!ServiceInit, WaitingAll
<1> QED BY <1>8, <1>10

-----------------------------------------------------------------------------

\* A step of the chain that only moves requests.
LEMMA MovesService ==
    ASSUME ServiceInv, UNCHANGED <<liaison_vars, bellhop_request, clicks, plotted>>,
           Chain(env_bellhop_req', BELLHOP_REQUEST', BELLHOP_RESPONSE', bellhop_response'),
           \A e \in Environments :
              WaitingIn(e, env_bellhop_req', BELLHOP_REQUEST', BELLHOP_RESPONSE',
                        bellhop_response') =
                 WaitingIn(e, env_bellhop_req, BELLHOP_REQUEST, BELLHOP_RESPONSE,
                           bellhop_response)
    PROVE  ServiceInv' /\ ServiceStep
<1>1. UNCHANGED <<stage, wt, ui>>
  BY DEF liaison_vars
<1>2. WaitingAll' = WaitingAll
  BY WaitingOf, SameWaiting
<1>3. NewsAll' = NewsAll
  BY <1>1, SameNews DEF News
<1>4. ToldAll' = ToldAll
  BY <1>1, SameTold
<1>5. ServiceStep
  BY <1>2, <1>3, <1>4, Stutter
<1>6. Accounted(bellhop_request', WaitingAll', plotted', clicks')
  BY <1>2 DEF ServiceInv
<1> QED BY <1>1, <1>5, <1>6 DEF ServiceInv

LEMMA GatewayService ==
    ASSUME ServiceInv, NEW g \in Gateways, GatewayStep(g) \/ AskIBellhop(g)
    PROVE  ServiceInv' /\ ServiceStep
<1>0. UNCHANGED <<liaison_vars, bellhop_request, clicks, plotted>>
  BY DEF GatewayStep, AskIBellhop, display_vars
<1>1. Chain(env_bellhop_req, BELLHOP_REQUEST, BELLHOP_RESPONSE, bellhop_response)
  BY DEF ServiceInv
<1> DEFINE Kept ==
        /\ Chain(env_bellhop_req', BELLHOP_REQUEST', BELLHOP_RESPONSE', bellhop_response')
        /\ \A e \in Environments :
              WaitingIn(e, env_bellhop_req', BELLHOP_REQUEST', BELLHOP_RESPONSE',
                        bellhop_response') =
                 WaitingIn(e, env_bellhop_req, BELLHOP_REQUEST, BELLHOP_RESPONSE,
                           bellhop_response)
<1>2. ASSUME GobyToMoos(g) PROVE Kept
  <2> DEFINE x == [source |-> "Translator", id |-> Head(env_bellhop_req[g]).id]
  <2>1. Forwards(g, x, env_bellhop_req, BELLHOP_REQUEST, env_bellhop_req', BELLHOP_REQUEST')
    BY <1>2 DEF GobyToMoos, Forwards
  <2>2. UNCHANGED <<BELLHOP_RESPONSE, bellhop_response>>
    BY <1>2 DEF GobyToMoos
  <2> HIDE DEF x
  <2> QED BY <1>1, <2>1, <2>2, ChainForwards
<1>3. ASSUME NEW success \in BOOLEAN, AnswerRequest(g, success) PROVE Kept
  <2> DEFINE x == [requestor |-> Head(BELLHOP_REQUEST[g]).source,
                   id |-> Head(BELLHOP_REQUEST[g]).id, success |-> success]
  <2>1. Answers(g, x, BELLHOP_REQUEST, BELLHOP_RESPONSE, BELLHOP_REQUEST', BELLHOP_RESPONSE')
    BY <1>3 DEF AnswerRequest, Answers
  <2>2. UNCHANGED <<env_bellhop_req, bellhop_response>>
    BY <1>3 DEF AnswerRequest
  <2> HIDE DEF x
  <2> QED BY <1>1, <2>1, <2>2, ChainAnswers
<1>4. ASSUME MoosToGoby(g) PROVE Kept
  <2>1. Returns(g, BELLHOP_RESPONSE, bellhop_response, BELLHOP_RESPONSE', bellhop_response')
    BY <1>4 DEF MoosToGoby, Returns
  <2>2. UNCHANGED <<env_bellhop_req, BELLHOP_REQUEST>>
    BY <1>4 DEF MoosToGoby
  <2> QED BY <1>1, <2>1, <2>2, ChainReturns
<1>5. ASSUME ForeignRequest(g) PROVE Kept
  <2> DEFINE x == [source |-> "other", id |-> ForeignId]
  <2>1. /\ x.source # "Translator"
        /\ BELLHOP_REQUEST' = Put(BELLHOP_REQUEST, g, x)
        /\ UNCHANGED <<env_bellhop_req, BELLHOP_RESPONSE, bellhop_response>>
    BY <1>5 DEF ForeignRequest, Put
  <2> HIDE DEF x
  <2> QED BY <1>1, <2>1, ChainForeign
<1>6. Kept
  BY <1>2, <1>3, <1>4, <1>5 DEF GatewayStep, AskIBellhop
<1> QED BY <1>0, <1>6, MovesService

\* netsim_manager takes a request of a session.
LEMMA HandleBellhopRequestService ==
    ASSUME ServiceInv, NEW s \in Sessions, HandleBellhopRequest(s)
    PROVE  ServiceInv' /\ ServiceStep
<1> DEFINE i == Head(bellhop_request[s])
           e == EnvironmentOf(i.ownship)
           x == [environment |-> e, id |-> i]
<1>1. /\ bellhop_request[s] # <<>>
      /\ UNCHANGED <<BELLHOP_REQUEST, BELLHOP_RESPONSE, bellhop_response, stage, wt, ui, clicks,
                     plotted>>
      /\ env_bellhop_req' = [g \in Gateways |-> Append(env_bellhop_req[g], x)]
  BY DEF HandleBellhopRequest, PublishToGateways, liaison_vars
<1>2. bellhop_request' = Drop(bellhop_request, s)
  BY DEF HandleBellhopRequest, Drop
<1>3. /\ Chain(env_bellhop_req, BELLHOP_REQUEST, BELLHOP_RESPONSE, bellhop_response)
      /\ Accounted(bellhop_request, WaitingAll, plotted, clicks)
      /\ Lines(Sessions, bellhop_request) /\ Once(bellhop_request)
      /\ Lines(Environments, WaitingAll)
  BY DEF ServiceInv, Accounted
<1>4. i \in Ids
  BY <1>1, <1>3, Goes
<1>5. e \in Environments
  BY <1>4, EnvironmentFacts
<1>6. x.id = i /\ x.environment = EnvironmentOf(i.ownship)
  OBVIOUS
<1> HIDE DEF x
<1>7. /\ Chain(env_bellhop_req', BELLHOP_REQUEST, BELLHOP_RESPONSE, bellhop_response)
      /\ \A f \in Environments :
            WaitingIn(f, env_bellhop_req', BELLHOP_REQUEST, BELLHOP_RESPONSE, bellhop_response) =
               IF f = EnvironmentOf(i.ownship)
               THEN Append(WaitingIn(f, env_bellhop_req, BELLHOP_REQUEST, BELLHOP_RESPONSE,
                                     bellhop_response), i)
               ELSE WaitingIn(f, env_bellhop_req, BELLHOP_REQUEST, BELLHOP_RESPONSE,
                              bellhop_response)
  <2> HIDE DEF i
  <2> QED BY <1>1, <1>3, <1>4, <1>6, ChainPublishes
<1> HIDE DEF e, i
<1>8. \A f \in Environments : Waiting(f)' = IF f = e THEN Append(Waiting(f), i) ELSE Waiting(f)
  BY <1>1, <1>7, WaitingOf DEF e
<1>9. WaitingAll' = Put(WaitingAll, e, i)
  <2>1. /\ WaitingAll' = [f \in Environments |-> Waiting(f)']
        /\ WaitingAll = [f \in Environments |-> Waiting(f)]
    BY DEF WaitingAll
  <2> QED BY <1>5, <1>8, <2>1 DEF Put
<1>10. /\ Accounted(bellhop_request', WaitingAll', plotted, clicks)
       /\ i \notin plotted /\ ~In(i, WaitingAll)
  BY <1>1, <1>2, <1>3, <1>5, <1>9, AccountedTaken DEF i
<1>11. WaitingAll[e] \in Seq(Ids)
  BY <1>3, <1>5 DEF Lines
<1>12. NewsAll' = NewsAll
  BY <1>1, SameNews DEF News
<1>13. ToldAll' = ToldAll
  BY <1>1, SameTold
<1>14. ServiceStep
  BY <1>1, <1>4, <1>5, <1>9, <1>10, <1>11, <1>12, <1>13, AskStep
<1> QED BY <1>1, <1>7, <1>10, <1>14 DEF ServiceInv

\* What the sessions hear besides the answers is no news.
LEMMA PostedService ==
    ASSUME ServiceInv, PlotTypes, UNCHANGED <<gateway_vars, stage, ui, bellhop_request, clicks, plotted>>,
           NEW x, x.kind # "resp", PostToWt(x) \/ UNCHANGED wt
    PROVE  ServiceInv' /\ ServiceStep
<1>0. UNCHANGED <<env_bellhop_req, BELLHOP_REQUEST, BELLHOP_RESPONSE, bellhop_response>>
  BY DEF gateway_vars
<1>1. WaitingAll' = WaitingAll
  BY <1>0, WaitingOf, SameWaiting
<1>2. \A s \in Sessions : \/ wt'[s] = wt[s]
                          \/ stage[s] = "connected" /\ wt'[s] = Append(wt[s], x)
  BY DEF PostToWt, Connected
<1>3. ASSUME NEW s \in Sessions PROVE News(s)' = News(s) /\ IsSeq(wt'[s])
  <2> DEFINE q == wt[s]
  <2>1. IsSeq(q)
    BY DEF ServiceInv
  <2>2. CASE wt'[s] = wt[s]
    BY <2>1, <2>2 DEF News
  <2>3. CASE wt'[s] = Append(wt[s], x)
    <3> HIDE DEF q
    <3>1. IsSeq(Append(q, x))
      BY <2>1, Appended
    <3>2. x["kind"] # "resp"
      OBVIOUS
    <3>3. Own(Append(q, x), "kind", "resp") = Own(q, "kind", "resp")
      BY <2>1, <3>2, OwnAppend
    <3>4. wt'[s] = Append(q, x)
      BY <2>3 DEF q
    <3>5. Own(wt'[s], "kind", "resp") = Own(wt[s], "kind", "resp")
      BY <3>3, <3>4, Zenon DEF q
    <3> QED BY <3>1, <3>4, <3>5, Zenon DEF News
  <2> QED BY <1>2, <2>2, <2>3
<1>4. NewsAll' = NewsAll
  BY <1>3, SameNews
<1>5. ToldAll' = ToldAll
  BY SameTold
<1>6. ServiceStep
  BY <1>1, <1>4, <1>5, Stutter
<1>7. Accounted(bellhop_request', WaitingAll', plotted', clicks')
  BY <1>1 DEF ServiceInv
<1>8. \A s \in Sessions : stage'[s] # "connected" => wt'[s] = <<>>
  BY <1>2 DEF ServiceInv
<1> QED BY <1>0, <1>3, <1>6, <1>7, <1>8 DEF ServiceInv

LEMMA ReportsService ==
    ASSUME ServiceInv, PlotTypes,
           \/ AudioImages
           \/ \E r \in Reports : r.kind = "PACKET_START" /\ StartPacket(r)
           \/ \E r \in Reports : r.kind # "PACKET_START" /\ Publish(r)
           \/ \E p \in recording : ClosePacket(p)
    PROVE  ServiceInv' /\ ServiceStep
<1>1. UNCHANGED <<gateway_vars, stage, ui, bellhop_request, clicks, plotted>>
  BY DEF AudioImages, StartPacket, Publish, ClosePacket, Report
<1>2. CASE AudioImages
  <2> DEFINE x == Head(logger_event)
  <2>1. logger_event # <<>> /\ PostToWt(x)
    BY <1>2 DEF AudioImages
  <2>2. x.kind # "resp"
    <3>1. NoneOwn(logger_event, "kind", "resp")
      BY DEF PlotTypes
    <3>2. 1 \in DOMAIN logger_event /\ x = logger_event[1]
      BY <2>1, <3>1, Taken DEF NoneOwn
    <3> QED BY <3>1, <3>2 DEF NoneOwn
  <2>3. \A y : y.kind # "resp" /\ PostToWt(y) => ServiceInv' /\ ServiceStep
    BY <1>1, PostedService
  <2> HIDE DEF x
  <2> QED BY <2>1, <2>2, <2>3
<1>3. CASE \E r \in Reports : Publish(r)
  <2>1. PICK r \in Reports : Publish(r)
    BY <1>3
  <2>2. r.kind # "resp" /\ PostToWt(r)
    BY <2>1, ReportsAssumption DEF Publish
  <2> QED BY <1>1, <2>2, PostedService
<1>4. CASE UNCHANGED wt
  <2> DEFINE x == [kind |-> "cfg"]
  <2>1. x.kind # "resp"
    OBVIOUS
  <2> HIDE DEF x
  <2> QED BY <1>1, <1>4, <2>1, PostedService
<1> QED BY <1>2, <1>3, <1>4 DEF StartPacket, ClosePacket

\* TLPlotThread answers the oldest request of an environment, or drops an answer
\* to another program.
LEMMA TLPlotService ==
    ASSUME ServiceInv, PlotTypes, TLPlot
    PROVE  ServiceInv' /\ ServiceStep
<1>0. PICK r : r = Head(bellhop_response)
  OBVIOUS
<1> DEFINE i == r.id
           e == EnvironmentOf(i.ownship)
           x == [kind |-> "resp", id |-> i, success |-> r.success]
<1>1. /\ UNCHANGED <<stage, ui, env_bellhop_req, BELLHOP_REQUEST, BELLHOP_RESPONSE,
                     bellhop_request, clicks>>
      /\ bellhop_response # <<>> /\ bellhop_response' = Tail(bellhop_response)
      /\ r.requestor = "Translator" => PostToWt(x) /\ plotted' = plotted \cup {i}
      /\ r.requestor # "Translator" => UNCHANGED <<wt, plotted>>
  BY <1>0 DEF TLPlot, PlotTL
<1>2. /\ Chain(env_bellhop_req, BELLHOP_REQUEST, BELLHOP_RESPONSE, bellhop_response)
      /\ Accounted(bellhop_request, WaitingAll, plotted, clicks)
  BY DEF ServiceInv
<1>3. /\ Chain(env_bellhop_req', BELLHOP_REQUEST', BELLHOP_RESPONSE', bellhop_response')
      /\ r.requestor = "Translator" => i \in Ids
      /\ \A f \in Environments :
            IF AnswerTo(r, f)
            THEN Led(Waiting(f), i, Waiting(f)')
            ELSE Waiting(f)' = Waiting(f)
  <2> DEFINE w(f) == WaitingIn(f, env_bellhop_req, BELLHOP_REQUEST, BELLHOP_RESPONSE,
                               bellhop_response)
             w2(f) == WaitingIn(f, env_bellhop_req, BELLHOP_REQUEST, BELLHOP_RESPONSE,
                                Tail(bellhop_response))
  <2>1. /\ Chain(env_bellhop_req, BELLHOP_REQUEST, BELLHOP_RESPONSE, Tail(bellhop_response))
        /\ r.requestor = "Translator" => i \in Ids
        /\ \A f \in Environments : IF AnswerTo(r, f)
                                   THEN Led(w(f), i, w2(f))
                                   ELSE w2(f) = w(f)
    <3>1. Led(bellhop_response, r, Tail(bellhop_response))
      BY <1>0, <1>1 DEF Led
    <3> QED BY <1>2, <3>1, ChainPlots
  <2>2. \A f : Waiting(f) = w(f) /\ Waiting(f)' = w2(f)
    BY <1>1, WaitingOf
  <2> HIDE DEF w, w2
  <2> QED BY <1>1, <2>1, <2>2
<1>4. ToldAll' = ToldAll
  BY <1>1, SameTold
<1>5. CASE r.requestor # "Translator"
  <2>1. WaitingAll' = WaitingAll
    BY <1>3, <1>5, SameWaiting DEF AnswerTo
  <2>2. NewsAll' = NewsAll
    BY <1>1, <1>5, SameNews DEF News
  <2>3. ServiceStep
    BY <1>1, <1>4, <1>5, <2>1, <2>2, Stutter
  <2> QED BY <1>1, <1>2, <1>3, <1>5, <2>1, <2>3 DEF ServiceInv
<1>6. CASE r.requestor = "Translator"
  <2>1. i \in Ids /\ e \in Environments
    BY <1>3, <1>6, EnvironmentFacts
  <2>2. /\ Waiting(e) # <<>> /\ Head(Waiting(e)) = i /\ Waiting(e)' = Tail(Waiting(e))
        /\ \A f \in Environments : f # e => Waiting(f)' = Waiting(f)
    <3>1. \A f : AnswerTo(r, f) <=> f = e
      BY <1>6 DEF AnswerTo
    <3> HIDE DEF i, e
    <3> QED BY <1>3, <2>1, <3>1 DEF Led
  <2>3. x.kind = "resp" /\ x.id = i
    OBVIOUS
  <2>4. PostToWt(x) /\ plotted' = plotted \cup {i}
    BY <1>1, <1>6
  <2> HIDE DEF x, e, i
  <2>5. WaitingAll[e] = Waiting(e) /\ WaitingAll' = Drop(WaitingAll, e)
    <3>1. /\ WaitingAll' = [f \in Environments |-> Waiting(f)']
          /\ WaitingAll = [f \in Environments |-> Waiting(f)]
      BY DEF WaitingAll
    <3>2. \A f \in Environments :
             Waiting(f)' = IF f = e THEN Tail(Waiting(f)) ELSE Waiting(f)
      BY <2>2
    <3> QED BY <2>1, <3>1, <3>2 DEF Drop
  <2>6. /\ Accounted(bellhop_request, WaitingAll', plotted', clicks)
        /\ i \notin plotted
    BY <1>2, <2>1, <2>2, <2>4, <2>5, AccountedPlot
  <2>7. \A s \in Sessions :
           wt'[s] = IF stage[s] = "connected" THEN Append(wt[s], x) ELSE wt[s]
    BY <2>4 DEF PostToWt, Connected
  <2>8. ASSUME NEW s \in Sessions
        PROVE  /\ stage[s] = "connected" => News(s)' = Append(News(s), i)
               /\ IsSeq(wt'[s])
               /\ stage[s] # "connected" => wt'[s] = <<>>
    <3> DEFINE q == wt[s]
    <3>1. IsSeq(q) /\ (stage[s] # "connected" => q = <<>>)
      BY DEF ServiceInv
    <3> HIDE DEF q
    <3>2. IsSeq(Append(q, x))
      BY <3>1, Appended
    <3>3. x["kind"] = "resp" /\ x.id = i
      BY <2>3
    <3>4. Own(Append(q, x), "kind", "resp") = Append(Own(q, "kind", "resp"), i)
      BY <3>1, <3>3, OwnAppend
    <3>5. wt'[s] = IF stage[s] = "connected" THEN Append(q, x) ELSE q
      BY <2>7 DEF q
    <3>6. stage[s] = "connected" =>
             Own(wt'[s], "kind", "resp") = Append(Own(wt[s], "kind", "resp"), i)
      BY <3>4, <3>5, Zenon DEF q
    <3>7. News(s)' = Own(wt'[s], "kind", "resp") /\ News(s) = Own(wt[s], "kind", "resp")
      BY DEF News
    <3> QED BY <3>1, <3>2, <3>5, <3>6, <3>7
  <2>9. NewsAll' = [s \in DOMAIN NewsAll |-> Append(NewsAll[s], Head(WaitingAll[e]))]
    <3>1. /\ Connected' = Connected /\ Connected \subseteq Sessions
          /\ \A s \in Connected : stage[s] = "connected"
      BY <1>1 DEF Connected
    <3>2. DOMAIN NewsAll = Connected /\ \A s \in Connected : NewsAll[s] = News(s)
      BY DEF NewsAll
    <3>3. NewsAll' = [s \in Connected |-> News(s)']
      BY <3>1 DEF NewsAll
    <3>4. \A s \in Connected : News(s)' = Append(NewsAll[s], i)
      BY <2>8, <3>1, <3>2
    <3> QED BY <2>2, <2>5, <3>2, <3>3, <3>4
  <2>10. ServiceStep
    BY <1>4, <2>1, <2>2, <2>4, <2>5, <2>6, <2>9, AnswerStep
  <2> QED BY <1>1, <1>3, <2>6, <2>8, <2>10 DEF ServiceInv
<1> QED BY <1>5, <1>6

-----------------------------------------------------------------------------

\* What the session takes from the front of its queue.
LEMMA NewsTaken ==
    ASSUME NEW q, IsSeq(q), q # <<>>
    PROVE  /\ IsSeq(Tail(q))
           /\ Head(q).kind # "resp" => Own(Tail(q), "kind", "resp") = Own(q, "kind", "resp")
           /\ Head(q).kind = "resp" =>
                 Led(Own(q, "kind", "resp"), Head(q).id, Own(Tail(q), "kind", "resp"))
<1> DEFINE r == Tail(q)
           x == Head(q)
           a == Own(r, "kind", "resp")
<1>1. IsSeq(r)
  BY Taken
<1>2. Own(q, "kind", "resp") = IF x["kind"] = "resp" THEN <<x.id>> \o a ELSE a
  BY OwnTail
<1> HIDE DEF r, x
<1>3. PICK I : a \in Seq(I) /\ x.id \in I
  <2> DEFINE I == {r[k].id : k \in DOMAIN r} \cup {x.id}
  <2>1. \A k \in DOMAIN r : r[k]["kind"] = "resp" => r[k].id \in I
    OBVIOUS
  <2>2. x.id \in I
    OBVIOUS
  <2> HIDE DEF I
  <2> QED BY <1>1, <2>1, <2>2, OwnSeq
<1> HIDE DEF a
<1>4. Led(<<x.id>> \o a, x.id, a)
  BY <1>3 DEF Led
<1> QED BY <1>1, <1>2, <1>4 DEF r, x, a

\* A step that brings a session nothing of what it is told.
LEMMA QuietService ==
    ASSUME ServiceInv, UNCHANGED <<gateway_vars, bellhop_request, clicks, plotted, stage>>,
           \A t \in Sessions : ui'[t].answers = ui[t].answers,
           \A t \in Sessions :
              \/ wt'[t] = wt[t]
              \/ wt[t] # <<>> /\ Head(wt[t]).kind # "resp" /\ wt'[t] = Tail(wt[t])
    PROVE  ServiceInv' /\ ServiceStep
<1>0. UNCHANGED <<env_bellhop_req, BELLHOP_REQUEST, BELLHOP_RESPONSE, bellhop_response>>
  BY DEF gateway_vars
<1>1. WaitingAll' = WaitingAll
  BY <1>0, WaitingOf, SameWaiting
<1>2. ASSUME NEW t \in Sessions
      PROVE  /\ News(t)' = News(t) /\ IsSeq(wt'[t])
             /\ stage[t] # "connected" => wt'[t] = <<>>
  <2>1. IsSeq(wt[t]) /\ (stage[t] # "connected" => wt[t] = <<>>)
    BY DEF ServiceInv
  <2>2. CASE wt'[t] = wt[t]
    BY <2>1, <2>2 DEF News
  <2>3. CASE wt[t] # <<>> /\ Head(wt[t]).kind # "resp" /\ wt'[t] = Tail(wt[t])
    <3> DEFINE q == wt[t]
               r == wt'[t]
    <3>1. IsSeq(q) /\ q # <<>> /\ Head(q).kind # "resp" /\ r = Tail(q)
      BY <2>1, <2>3
    <3> HIDE DEF q, r
    <3>2. IsSeq(r) /\ Own(r, "kind", "resp") = Own(q, "kind", "resp")
      BY <3>1, NewsTaken
    <3> QED BY <2>1, <2>3, <3>2 DEF News, q, r
  <2> QED BY <2>2, <2>3
<1>3. NewsAll' = NewsAll
  BY <1>2, SameNews
<1>4. ToldAll' = ToldAll
  BY SameTold
<1>5. ServiceStep
  BY <1>1, <1>3, <1>4, Stutter
<1>6. Accounted(bellhop_request', WaitingAll', plotted', clicks')
  BY <1>1 DEF ServiceInv
<1> QED BY <1>0, <1>2, <1>5, <1>6 DEF ServiceInv

LEMMA QuietHandlersService ==
    ASSUME ServiceInv, DotsInv, PlotTypes, NEW s \in Sessions,
           UNCHANGED <<gateway_vars, display_vars>>,
           \/ HandleManagerCfg(s) \/ HandleUpdatedNav(s) \/ HandleReceiveStats(s)
           \/ HandleLogsClosed(s) \/ HandlePacketStart(s)
    PROVE  ServiceInv' /\ ServiceStep
<1>1. /\ wt[s] # <<>> /\ Head(wt[s]).kind # "resp"
      /\ wt' = [wt EXCEPT ![s] = Tail(wt[s])] /\ UNCHANGED stage
      /\ Alike(ui[s], ui'[s]) /\ \A t \in Sessions \ {s} : ui'[t] = ui[t]
  BY QuietHandlers
<1>2. UNCHANGED <<bellhop_request, clicks, plotted>>
  BY DEF display_vars
<1>3. \A t \in Sessions : ui'[t].answers = ui[t].answers
  BY <1>1 DEF Alike
<1>4. \A t \in Sessions :
         \/ wt'[t] = wt[t]
         \/ wt[t] # <<>> /\ Head(wt[t]).kind # "resp" /\ wt'[t] = Tail(wt[t])
  BY <1>1 DEF PlotTypes
<1> QED BY <1>1, <1>2, <1>3, <1>4, QuietService

LEMMA PaintEventService ==
    ASSUME ServiceInv, DotsInv, NEW s \in Sessions,
           UNCHANGED <<gateway_vars, display_vars>>, PaintEvent(s)
    PROVE  ServiceInv' /\ ServiceStep
<1> DEFINE u == ui[s]
           v == [DotsDrawn(ImageDrawn(u)) EXCEPT !.dirty = FALSE]
<1>0. DOMAIN u = Fields /\ DOMAIN ui = Sessions
  BY DEF DotsInv, SessionInv
<1>1. ui' = [ui EXCEPT ![s] = v] /\ UNCHANGED <<stage, wt>>
  BY DEF PaintEvent
<1>2. UNCHANGED <<bellhop_request, clicks, plotted>>
  BY DEF display_vars
<1>3. v.answers = u.answers
  BY <1>0, PaintedFields, Zenon
<1> HIDE DEF v
<1>4. \A t \in Sessions : ui'[t].answers = ui[t].answers
  BY <1>0, <1>1, <1>3
<1> QED BY <1>1, <1>2, <1>4, QuietService

\* handle_bellhop_resp: the session is told the next of its answers.
LEMMA HandleBellhopRespService ==
    ASSUME ServiceInv, DotsInv, PlotTypes, NEW s \in Sessions,
           UNCHANGED <<gateway_vars, display_vars>>, HandleBellhopResp(s)
    PROVE  ServiceInv' /\ ServiceStep
<1> DEFINE u == ui[s]
           resp == Head(wt[s])
           v == [u EXCEPT
              !.tl_image_path_ = IF resp.success THEN resp.id ELSE u.tl_image_path_,
              !.dirty = u.dirty \/ resp.success,
              !.tl_request_ = TRUE,
              !.nav_at_last_tx_start_ = NoSnapshots,
              !.nav_at_previous_tx_start_ = NoSnapshots,
              !.receive_stats_ = {},
              !.answers = Append(u.answers, resp.id)]
<1>0. DOMAIN u = Fields /\ DOMAIN ui = Sessions /\ DOMAIN wt = Sessions
  BY DEF DotsInv, SessionInv, PlotTypes
<1>1. /\ wt[s] # <<>> /\ resp.kind = "resp"
      /\ wt' = [wt EXCEPT ![s] = Tail(wt[s])] /\ UNCHANGED stage
  BY DEF Handling, HandleBellhopResp
<1>2. /\ UNCHANGED <<env_bellhop_req, BELLHOP_REQUEST, BELLHOP_RESPONSE, bellhop_response>>
      /\ UNCHANGED <<bellhop_request, clicks, plotted>>
  BY DEF gateway_vars, display_vars
<1>3. ui' = [ui EXCEPT ![s] = v]
  BY <1>0 DEF HandleBellhopResp, Fields
<1>4. v.answers = Append(u.answers, resp.id)
  <2> HIDE DEF u, resp
  <2> QED BY <1>0 DEF Fields
<1> HIDE DEF v
<1>5. /\ wt'[s] = Tail(wt[s]) /\ ui'[s].answers = Append(ui[s].answers, resp.id)
      /\ \A t \in Sessions \ {s} : wt'[t] = wt[t] /\ ui'[t] = ui[t]
  BY <1>0, <1>1, <1>3, <1>4
<1>6. /\ \A t \in Sessions : IsSeq(wt[t]) /\ IsSeq(ui[t].answers)
      /\ \A t \in Sessions : stage[t] # "connected" => wt[t] = <<>>
  BY DEF ServiceInv
<1>7. WaitingAll' = WaitingAll
  BY <1>2, WaitingOf, SameWaiting
<1>8. IsSeq(wt'[s]) /\ Led(News(s), resp.id, News(s)')
  <2>1. IsSeq(wt[s]) /\ wt[s] # <<>> /\ Head(wt[s]).kind = "resp"
    BY <1>1, <1>6
  <2>2. IsSeq(Tail(wt[s]))
    BY <2>1, NewsTaken
  <2>3. Led(Own(wt[s], "kind", "resp"), Head(wt[s]).id, Own(Tail(wt[s]), "kind", "resp"))
    BY <2>1, NewsTaken
  <2> QED BY <1>5, <2>2, <2>3, Zenon DEF News
<1>9. IsSeq(ui'[s].answers) /\ Told(s)' = resp.id
  <2> DEFINE a == ui[s].answers
             b == ui'[s].answers
  <2>1. IsSeq(a) /\ b = Append(a, resp.id)
    BY <1>5, <1>6
  <2> HIDE DEF a, b, resp
  <2>2. IsSeq(b) /\ b # <<>> /\ b[Len(b)] = resp.id
    <3>1. PICK S : a \in Seq(S) /\ resp.id \in S
      <4>1. PICK R : a \in Seq(R)
        BY <2>1 DEF IsSeq
      <4>2. a \in Seq(R \cup {resp.id}) /\ resp.id \in R \cup {resp.id}
        BY <4>1
      <4> QED BY <4>2
    <3>2. b \in Seq(S) /\ Len(b) = Len(a) + 1 /\ b # <<>> /\ b[Len(b)] = resp.id
      BY <2>1, <3>1
    <3> QED BY <3>2 DEF IsSeq
  <2>3. Told(s)' = IF b = <<>> THEN <<>> ELSE b[Len(b)]
    BY DEF Told, b
  <2> QED BY <2>2, <2>3 DEF b
<1>10. \A t \in Sessions \ {s} : News(t)' = News(t) /\ Told(t)' = Told(t)
  BY <1>5 DEF News, Told
<1>11. s \in Connected
  BY <1>1, <1>6 DEF Connected
<1>12. /\ Connected' = Connected /\ Connected \subseteq Sessions
       /\ NewsAll = [t \in Connected |-> News(t)] /\ NewsAll' = [t \in Connected |-> News(t)']
       /\ ToldAll = [t \in Sessions |-> Told(t)] /\ ToldAll' = [t \in Sessions |-> Told(t)']
  BY <1>1 DEF Connected, NewsAll, ToldAll
<1> HIDE DEF resp
<1>13. /\ NewsAll[s] # <<>> /\ s \in DOMAIN NewsAll
       /\ NewsAll' = [NewsAll EXCEPT ![s] = Tail(@)]
       /\ Head(NewsAll[s]) = resp.id
  BY <1>8, <1>10, <1>11, <1>12 DEF Led
<1>14. ToldAll' = [ToldAll EXCEPT ![s] = Head(NewsAll[s])]
  BY <1>9, <1>10, <1>12, <1>13
<1>15. ServiceStep
  BY <1>2, <1>7, <1>13, <1>14, TellStep
<1>16. Accounted(bellhop_request', WaitingAll', plotted', clicks')
  BY <1>2, <1>7 DEF ServiceInv
<1>17. \A t \in Sessions : IsSeq(wt'[t]) /\ IsSeq(ui'[t].answers)
  BY <1>5, <1>6, <1>8, <1>9
<1>18. \A t \in Sessions : stage'[t] # "connected" => wt'[t] = <<>>
  BY <1>1, <1>5, <1>6
<1> QED BY <1>2, <1>15, <1>16, <1>17, <1>18 DEF ServiceInv

\* A session opens: the configuration the others may hear with it is no answer.
LEMMA OpenService ==
    ASSUME ServiceInv, PlotTypes, NEW s \in Sessions, Open(s)
    PROVE  ServiceInv' /\ ServiceStep
<1> DEFINE x == [kind |-> "cfg"]
<1>1. /\ UNCHANGED <<ui, env_bellhop_req, BELLHOP_REQUEST, BELLHOP_RESPONSE, bellhop_response,
                     bellhop_request, clicks, plotted>>
      /\ stage[s] = "none" /\ stage' = [stage EXCEPT ![s] = "connected"]
  BY DEF Open, OpenSession, gateway_vars, display_vars
<1>2. \A t \in Sessions : \/ wt'[t] = wt[t]
                          \/ (stage[t] = "connected" \/ t = s) /\ wt'[t] = Append(wt[t], x)
  BY DEF Open, OpenSession, Connected
<1>3. x.kind # "resp"
  OBVIOUS
<1> HIDE DEF x
<1>4. /\ stage'[s] = "connected" /\ s \notin Connected /\ Connected' = Connected \cup {s}
      /\ \A t \in Sessions \ {s} : stage'[t] = stage[t]
  BY <1>1 DEF PlotTypes, Connected
<1>5. ASSUME NEW t \in Sessions PROVE News(t)' = News(t) /\ IsSeq(wt'[t])
  <2> DEFINE q == wt[t]
             r == wt'[t]
  <2>1. IsSeq(q) /\ (r = q \/ r = Append(q, x))
    BY <1>2 DEF ServiceInv
  <2> HIDE DEF q, r
  <2>2. IsSeq(Append(q, x))
    BY <2>1, Appended
  <2>3. x["kind"] # "resp"
    BY <1>3
  <2>4. Own(Append(q, x), "kind", "resp") = Own(q, "kind", "resp")
    BY <2>1, <2>3, OwnAppend
  <2>5. IsSeq(r) /\ Own(r, "kind", "resp") = Own(q, "kind", "resp")
    BY <2>1, <2>2, <2>4, Zenon
  <2> QED BY <2>5, Zenon DEF News, q, r
<1>6. News(s)' = <<>>
  <2>1. wt[s] = <<>>
    BY <1>1 DEF ServiceInv
  <2> QED BY <1>5, <2>1, OwnEmpty, Zenon DEF News
<1>7. WaitingAll' = WaitingAll
  BY <1>1, WaitingOf, SameWaiting
<1>8. ToldAll' = ToldAll
  BY <1>1, SameTold
<1>9. /\ Connected \subseteq Sessions /\ DOMAIN NewsAll = Connected
      /\ NewsAll' = [t \in Connected \cup {s} |-> News(t)']
      /\ \A t \in Connected : NewsAll[t] = News(t)
  BY <1>4 DEF NewsAll, Connected
<1>10. NewsAll' = [t \in DOMAIN NewsAll \cup {s} |-> IF t = s THEN <<>> ELSE NewsAll[t]]
  BY <1>4, <1>5, <1>6, <1>9
<1>11. ServiceStep
  BY <1>1, <1>4, <1>7, <1>8, <1>9, <1>10, ConnectStep
<1>12. Accounted(bellhop_request', WaitingAll', plotted', clicks')
  BY <1>1, <1>7 DEF ServiceInv
<1>13. \A t \in Sessions : stage'[t] # "connected" => wt'[t] = <<>>
  BY <1>2, <1>4 DEF ServiceInv
<1> QED BY <1>1, <1>5, <1>11, <1>12, <1>13 DEF ServiceInv

\* A session ends: its answers go with it, and its requests with them or not.
LEMMA EndService ==
    ASSUME ServiceInv, DotsInv, PlotTypes, NEW s \in Sessions, EndSession(s),
           UNCHANGED <<gateway_vars, clicks, plotted>>, NEW left \in {bellhop_request[s], <<>>},
           bellhop_request' = [bellhop_request EXCEPT ![s] = left]
    PROVE  ServiceInv' /\ ServiceStep
<1> DEFINE v == [NewSession EXCEPT !.scale = ui[s].scale]
<1>0. DOMAIN ui = Sessions /\ DOMAIN wt = Sessions /\ DOMAIN stage = Sessions
  BY DEF DotsInv, PlotTypes
<1>1. /\ ui' = [ui EXCEPT ![s] = v] /\ stage[s] = "connected"
      /\ stage' = [stage EXCEPT ![s] = "ended"] /\ wt' = [wt EXCEPT ![s] = <<>>]
  BY DEF EndSession
<1>2. UNCHANGED <<env_bellhop_req, BELLHOP_REQUEST, BELLHOP_RESPONSE, bellhop_response>>
  BY DEF gateway_vars
<1>3. v.answers = <<>>
  BY DEF NewSession
<1> HIDE DEF v
<1>4. /\ ui'[s].answers = <<>> /\ wt'[s] = <<>> /\ stage'[s] = "ended"
      /\ \A t \in Sessions \ {s} : ui'[t] = ui[t] /\ wt'[t] = wt[t] /\ stage'[t] = stage[t]
  BY <1>0, <1>1, <1>3
<1>5. WaitingAll' = WaitingAll
  BY <1>2, WaitingOf, SameWaiting
<1>6. /\ s \in Connected /\ Connected' = Connected \ {s} /\ Connected \subseteq Sessions
  BY <1>1, <1>4 DEF Connected
<1>7. Told(s)' = <<>> /\ \A t \in Sessions \ {s} : News(t)' = News(t) /\ Told(t)' = Told(t)
  BY <1>4 DEF News, Told
<1>8. /\ DOMAIN NewsAll = Connected /\ NewsAll' = [t \in Connected \ {s} |-> News(t)']
      /\ \A t \in Connected : NewsAll[t] = News(t)
  BY <1>6 DEF NewsAll
<1>9. NewsAll' = [t \in DOMAIN NewsAll \ {s} |-> NewsAll[t]]
  BY <1>6, <1>7, <1>8
<1>10. ToldAll = [t \in Sessions |-> Told(t)] /\ ToldAll' = [t \in Sessions |-> Told(t)']
  BY DEF ToldAll
<1>11. ToldAll' = [ToldAll EXCEPT ![s] = <<>>]
  BY <1>7, <1>10
<1>12. ServiceStep
  BY <1>5, <1>6, <1>8, <1>9, <1>11, LeaveStep
<1>13. Accounted(bellhop_request', WaitingAll', plotted', clicks')
  <2> DEFINE req == bellhop_request
             req2 == bellhop_request'
             W == WaitingAll
             done == plotted
             c == clicks
  <2>1. Accounted(req, W, done, c) /\ left \in {req[s], <<>>} /\ req2 = [req EXCEPT ![s] = left]
    BY DEF ServiceInv
  <2> HIDE DEF req, req2, W, done, c
  <2>2. Accounted(req2, W, done, c)
    BY <2>1, AccountedLeft
  <2> QED BY <1>5, <2>2 DEF req2, W, done, c
<1>14. \A t \in Sessions : IsSeq(wt'[t]) /\ IsSeq(ui'[t].answers)
  <2>1. IsSeq(<<>>)
    BY EmptySeq DEF IsSeq
  <2>2. IsSeq(wt'[s]) /\ IsSeq(ui'[s].answers)
    BY <1>4, <2>1
  <2> QED BY <1>4, <2>2 DEF ServiceInv
<1>15. \A t \in Sessions : stage'[t] # "connected" => wt'[t] = <<>>
  BY <1>4 DEF ServiceInv
<1> QED BY <1>2, <1>12, <1>13, <1>14, <1>15 DEF ServiceInv

\* A click makes a request that was never made; netsim_manager has yet to take it.
LEMMA RequestPlotService ==
    ASSUME ServiceInv, DotsInv, PlotTypes, NEW s \in Sessions, NEW port \in Ports,
           RequestPlot(s, port)
    PROVE  ServiceInv' /\ ServiceStep
<1> DEFINE u == ui[s]
           id == [n |-> clicks + 1, ownship |-> port]
           v == [u EXCEPT !.transmitter_tcp_port_ = port, !.scale = id,
                          !.tl_request_ = FALSE]
<1>0. DOMAIN u = Fields /\ DOMAIN ui = Sessions
  BY DEF DotsInv, SessionInv
<1>1. /\ UNCHANGED <<stage, wt, plotted>>
      /\ bellhop_request' = [bellhop_request EXCEPT ![s] = Append(bellhop_request[s], id)]
      /\ clicks < MaxClicks /\ clicks' = clicks + 1
  BY DEF RequestPlot, Click, CanClick
<1>2. UNCHANGED <<env_bellhop_req, BELLHOP_REQUEST, BELLHOP_RESPONSE, bellhop_response>>
  BY DEF RequestPlot, gateway_vars
<1>3. ui' = [ui EXCEPT ![s] = v]
  BY <1>0 DEF RequestPlot, Click, Fields
<1>4. id \in Ids /\ id.n = clicks + 1
  <2>1. clicks + 1 \in 1..MaxClicks
    BY <1>1, ClicksAssumption DEF PlotTypes
  <2> QED BY <2>1 DEF Ids
<1>5. v.answers = u.answers
  <2> HIDE DEF u, id
  <2> QED BY <1>0 DEF Fields
<1> HIDE DEF v, id
<1>6. \A t \in Sessions : ui'[t].answers = ui[t].answers
  BY <1>0, <1>3, <1>5
<1>7. WaitingAll' = WaitingAll
  BY <1>2, WaitingOf, SameWaiting
<1>8. NewsAll' = NewsAll
  <2>1. \A t \in Sessions : News(t)' = News(t)
    BY <1>1 DEF News
  <2> QED BY <1>1, <2>1, SameNews
<1>9. ToldAll' = ToldAll
  BY <1>6, SameTold
<1>10. ServiceStep
  BY <1>1, <1>7, <1>8, <1>9, Stutter
<1>11. Accounted(bellhop_request', WaitingAll', plotted', clicks')
  <2> DEFINE req == bellhop_request
             req2 == bellhop_request'
             W == WaitingAll
             done == plotted
             c == clicks
  <2>1. req2 = Put(req, s, id)
    BY <1>1 DEF Put
  <2>2. Accounted(req, W, done, c)
    BY DEF ServiceInv
  <2>3. PICK i \in Ids : i = id /\ i.n = c + 1
    BY <1>4
  <2> HIDE DEF req, req2, W, done, c
  <2>4. Accounted(req2, W, done, c + 1)
    BY <2>1, <2>2, <2>3, AccountedClick
  <2> QED BY <1>1, <1>7, <2>4 DEF req2, W, done, c
<1> QED BY <1>1, <1>2, <1>6, <1>10, <1>11 DEF ServiceInv

LEMMA ServiceInvNext ==
    DotsInv /\ PlotInv /\ ServiceInv /\ [Next]_vars => ServiceInv' /\ ServiceStep
<1> SUFFICES ASSUME DotsInv, PlotInv, ServiceInv, [Next]_vars
             PROVE  ServiceInv' /\ ServiceStep
  OBVIOUS
<1>0. PlotTypes
  BY DEF PlotInv
<1>1. CASE UNCHANGED vars
  <2>1. UNCHANGED <<gateway_vars, bellhop_request, clicks, plotted, stage, ui, wt>>
    BY <1>1 DEF vars, liaison_vars, display_vars
  <2> QED BY <2>1, QuietService
<1>2. ASSUME NEW s \in Sessions, SessionStep(s) PROVE ServiceInv' /\ ServiceStep
  BY <1>0, <1>2, QuietHandlersService, HandleBellhopRespService, PaintEventService
     DEF SessionStep
<1>3. ASSUME NEW s \in Sessions, Leave(s) PROVE ServiceInv' /\ ServiceStep
  <2>1. EndSession(s) /\ UNCHANGED <<gateway_vars, clicks, plotted>>
    BY <1>3 DEF Leave
  <2>2. PICK left \in {bellhop_request[s], <<>>} :
           bellhop_request' = [bellhop_request EXCEPT ![s] = left]
    BY <1>3 DEF Leave
  <2> QED BY <1>0, <2>1, <2>2, EndService
<1>4. ASSUME NEW s \in Sessions, RequestTooEarly(s) PROVE ServiceInv' /\ ServiceStep
  <2>1. /\ EndSession(s) /\ UNCHANGED <<gateway_vars, clicks, plotted>>
        /\ UNCHANGED bellhop_request
    BY <1>4 DEF RequestTooEarly, ClickTooEarly, display_vars
  <2>2. /\ bellhop_request[s] \in {bellhop_request[s], <<>>}
        /\ bellhop_request' = [bellhop_request EXCEPT ![s] = bellhop_request[s]]
    BY <2>1 DEF ServiceInv, Accounted, Lines
  <2> QED BY <1>0, <2>1, <2>2, EndService
<1>5. CASE SystemStep
  BY <1>0, <1>2, <1>5, TLPlotService, ReportsService, GatewayService,
     HandleBellhopRequestService DEF SystemStep
<1>6. CASE Stimulus
  BY <1>0, <1>3, <1>4, <1>6, OpenService, RequestPlotService, GatewayService, ReportsService
     DEF Stimulus
<1> QED
  BY <1>1, <1>5, <1>6 DEF Next

(* The display, with everything between it and iBellhop, implements TLService: *)
(* in every behaviour, with any number of sessions, gateways and environments, *)
(* every request netsim_manager takes is answered once, those for one          *)
(* environment in the order in which they were taken, whichever gateways hear  *)
(* of it and whatever other programs of their communities ask iBellhop; and    *)
(* every session connected when netsim_postprocess publishes an answer is told *)
(* it, all of them in the same order.                                          *)
THEOREM ChainServesTheDisplay == Spec => ImplementsTLService
<1> USE DEF ServiceStep
<1> QED
  BY ServiceInvInit, ServiceInvNext, DotsInvInit, DotsInvNext, PlotInvInit, PlotInvNext, PTL
     DEF Spec, ImplementsTLService, Service!ServiceSpec

=============================================================================
