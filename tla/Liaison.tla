------------------------------- MODULE Liaison -------------------------------
(***************************************************************************)
(* The display of NETSIM (lib/liaison): LiaisonNetsim and NetsimCommsThread*)
(* of every browser session, and the widget that paints the transmission   *)
(* loss plot.                                                              *)
(*                                                                         *)
(* The communications thread of a session posts every message to the       *)
(* session's event loop; wt holds what is posted and not yet handled.  A   *)
(* click, its scale (r_, dr_, z_, dz_) and the image that answers it share *)
(* one identity.  Positions are reduced to whose they are; a snapshot of   *)
(* them carries the packet it was taken at and the number of answers the   *)
(* session had handled by then.                                            *)
(***************************************************************************)
EXTENDS Naturals, Sequences

CONSTANTS
    Sessions,
    Pairs,        \* sim_env_pair: a sequence of [modem_tcp_port, environment]
    NoClick       \* the identity of no click

VARIABLES
    stage,     \* session -> none, connected or ended
    wt,        \* session -> closures posted to it
    ui         \* session -> its LiaisonNetsim and TLPaintedWidget

liaison_vars == <<stage, wt, ui>>

Ports == {Pairs[i].modem_tcp_port : i \in DOMAIN Pairs}
NoNavs == [navs |-> {}, packet |-> 0, plot |-> 0]

NoSnapshots == [p \in Ports |-> NoNavs]

NewSession == [
    manager_cfg_ |-> FALSE,           \* received: tl_tx_ is filled from it
    tl_request_ |-> TRUE,             \* the button is enabled
    transmitter_tcp_port_ |-> 0,
    scale |-> NoClick,                \* the click that set r_, dr_, z_ and dz_
    tl_image_path_ |-> NoClick,       \* the image to be painted
    last_nav_ |-> {},                 \* modems whose position is known
    nav_at_last_tx_start_ |-> NoSnapshots,
    nav_at_previous_tx_start_ |-> NoSnapshots,
    receive_stats_ |-> {},            \* <<transmitter, receiver>> on hand
    audio_images |-> 0,               \* packet whose two images are linked
    dirty |-> FALSE,                  \* tl_plot_ is to be repainted
    answers |-> <<>>,                 \* history: the answers handled
    canvas |-> <<NoClick, NoClick>>,  \* history: image drawn last, its scale
    painted |-> <<>>]                 \* history: snapshots drawn as dots

LiaisonInit ==
    /\ stage = [s \in Sessions |-> "none"]
    /\ wt = [s \in Sessions |-> <<>>]
    /\ ui = [s \in Sessions |-> NewSession]

Connected == {s \in Sessions : stage[s] = "connected"}

\* The subscriptions of NetsimCommsThread.
PostToWt(closure) ==
    wt' = [s \in Sessions |->
            IF s \in Connected THEN Append(wt[s], closure) ELSE wt[s]]

-----------------------------------------------------------------------------
(* The life of a session *)

\* The constructors, up to the moment when the subscriptions have reached the
\* publishers.  The manager's answer to the configuration request may have come
\* before this session could hear it; every other session hears it too, to no
\* effect if it has the configuration.
OpenSession(s) ==
    /\ stage[s] = "none"
    /\ stage' = [stage EXCEPT ![s] = "connected"]
    /\ \E heard \in {Connected, Connected \cup {s}} :
          wt' = [t \in Sessions |-> IF t \in heard /\ ~ui[t].manager_cfg_
                                   THEN Append(wt[t], [kind |-> "cfg"])
                                   ELSE wt[t]]
    /\ UNCHANGED ui

\* The user leaves, or an exception ends the session; that it clicked is kept
\* for the properties.
EndSession(s) ==
    /\ stage[s] = "connected"
    /\ stage' = [stage EXCEPT ![s] = "ended"]
    /\ wt' = [wt EXCEPT ![s] = <<>>]
    /\ ui' = [ui EXCEPT ![s] = [NewSession EXCEPT !.scale = ui[s].scale]]

-----------------------------------------------------------------------------
(* The button.  The browser gets it enabled with the same response that     *)
(* carries the repainted plot.                                              *)

CanClick(s) ==
    /\ stage[s] = "connected"
    /\ ui[s].tl_request_
    /\ ~ui[s].dirty

Click_StaysEnabled(s, port, id) ==
    /\ CanClick(s)
    /\ ui[s].manager_cfg_
    /\ ui' = [ui EXCEPT ![s].transmitter_tcp_port_ = port, ![s].scale = id]
    /\ UNCHANGED <<stage, wt>>

\* The request itself goes out with the transmitter as ownship and contact.
Click(s, port, id) ==
    /\ CanClick(s)
    /\ ui[s].manager_cfg_
    /\ ui' = [ui EXCEPT ![s].transmitter_tcp_port_ = port, ![s].scale = id,
                        ![s].tl_request_ = FALSE]
    /\ UNCHANGED <<stage, wt>>

\* std::stoi of the empty text of tl_tx_ throws.
ClickTooEarly(s) ==
    /\ CanClick(s)
    /\ ~ui[s].manager_cfg_
    /\ EndSession(s)

-----------------------------------------------------------------------------
(* What the session handles *)

\* The first closure, of the given kind, leaves the queue.
Handling(s, kind) ==
    /\ wt[s] # <<>>
    /\ Head(wt[s]).kind = kind
    /\ wt' = [wt EXCEPT ![s] = Tail(@)]
    /\ UNCHANGED stage

HandleManagerCfg(s) ==
    /\ Handling(s, "cfg")
    /\ ui' = [ui EXCEPT ![s].manager_cfg_ = TRUE]

HandleUpdatedNav(s) ==
    /\ Handling(s, "nav")
    /\ ui' = [ui EXCEPT ![s].last_nav_ = @ \cup {Head(wt[s]).port}]

HandleReceiveStats(s) ==
    /\ Handling(s, "stats")
    /\ ui' = [ui EXCEPT ![s].receive_stats_ =
                @ \cup {<<Head(wt[s]).tx, Head(wt[s]).rx>>}]

HandleLogsClosed(s) ==
    /\ Handling(s, "ALL_LOGS_CLOSED_FOR_PACKET")
    /\ ui' = [ui EXCEPT ![s].audio_images = Head(wt[s]).packet]

\* Before the configuration is there, sim_env_pair_size() is zero.  Modems are
\* numbered from one here.
HandlePacketStart(s) ==
    /\ Handling(s, "PACKET_START")
    /\ IF ui[s].manager_cfg_ /\ Head(wt[s]).modem \in DOMAIN Pairs
       THEN \E port \in {Pairs[Head(wt[s]).modem].modem_tcp_port} :
              ui' = [ui EXCEPT
                ![s].nav_at_previous_tx_start_[port] =
                    ui[s].nav_at_last_tx_start_[port],
                ![s].nav_at_last_tx_start_[port] =
                    [navs |-> ui[s].last_nav_, packet |-> Head(wt[s]).packet,
                     plot |-> Len(ui[s].answers)],
                ![s].dirty = TRUE]
       ELSE UNCHANGED ui

HandleBellhopResp_OnSuccess(s) ==
    /\ Handling(s, "resp")
    /\ \E resp \in {Head(wt[s])} :
        ui' = [ui EXCEPT
            ![s].tl_image_path_ = IF resp.success THEN resp.id ELSE @,
            ![s].dirty = @ \/ resp.success,
            ![s].tl_request_ = @ \/ resp.success,
            ![s].nav_at_last_tx_start_ = NoSnapshots,
            ![s].nav_at_previous_tx_start_ = NoSnapshots,
            ![s].receive_stats_ = {},
            ![s].answers = Append(@, resp.id)]

HandleBellhopResp_KeepsNavs(s) ==
    /\ Handling(s, "resp")
    /\ \E resp \in {Head(wt[s])} :
        ui' = [ui EXCEPT
            ![s].tl_image_path_ = IF resp.success THEN resp.id ELSE @,
            ![s].dirty = @ \/ resp.success,
            ![s].tl_request_ = TRUE,
            ![s].receive_stats_ = {},
            ![s].answers = Append(@, resp.id)]

\* handle_bellhop_resp: an answer to any session's request.
HandleBellhopResp(s) ==
    /\ Handling(s, "resp")
    /\ \E resp \in {Head(wt[s])} :
        ui' = [ui EXCEPT
            ![s].tl_image_path_ = IF resp.success THEN resp.id ELSE @,
            ![s].dirty = @ \/ resp.success,
            ![s].tl_request_ = TRUE,
            ![s].nav_at_last_tx_start_ = NoSnapshots,
            ![s].nav_at_previous_tx_start_ = NoSnapshots,
            ![s].receive_stats_ = {},
            ![s].answers = Append(@, resp.id)]

-----------------------------------------------------------------------------
(* TLPaintedWidget::paintEvent: the image, once, and over it the positions  *)
(* at the transmission before the last, once, coloured by the statistics.   *)

ImageDrawn(u) ==
    IF u.tl_image_path_ = NoClick
    THEN u
    ELSE [u EXCEPT !.canvas = <<u.tl_image_path_, u.scale>>,
                   !.tl_image_path_ = NoClick]

DotsDrawn(u) ==
    LET tx == u.transmitter_tcp_port_
    IN  IF tx \in Ports /\ tx \in u.nav_at_previous_tx_start_[tx].navs
        THEN [u EXCEPT
                !.painted = Append(@,
                    [packet |-> u.nav_at_previous_tx_start_[tx].packet,
                     plot |-> u.nav_at_previous_tx_start_[tx].plot,
                     over |-> Len(u.answers)]),
                !.nav_at_previous_tx_start_[tx] = NoNavs,
                !.receive_stats_ = {r \in @ : r[1] # tx}]
        ELSE u

PaintEvent(s) ==
    /\ ui[s].dirty
    /\ ui' = [ui EXCEPT ![s] = [DotsDrawn(ImageDrawn(@)) EXCEPT !.dirty = FALSE]]
    /\ UNCHANGED <<stage, wt>>
=============================================================================
