----------------------------- MODULE NetSimTool -----------------------------
(***************************************************************************)
(* netsim_tool (netsim_tool/main.cpp): moves a receiving modem over a grid *)
(* of ranges and depths, makes the other modem transmit at every point and *)
(* publishes the receive statistics with the point they belong to.         *)
(*                                                                         *)
(* The main thread runs the constructor and then loop() at LoopHz, with    *)
(* the callbacks of its subscriptions in between; each ModemThread         *)
(* announces that its driver is ready once, to whoever has subscribed by   *)
(* then.  Time is counted in calls of loop().  The statistics of a         *)
(* transmission, if the modem produces any, come within MaxLatency.        *)
(***************************************************************************)
EXTENDS Integers, Sequences

CONSTANTS
    RMin, RMax, DR,  \* the grid: r_min, r_max, dr
    ZMin, ZMax, DZ,  \* and z_min, z_max, dz
    LoopHz,          \* loop_frequency_hertz()
    SlotSeconds,     \* transmission().slot_seconds()
    MaxLatency       \* calls of loop() until statistics have come or are lost

ASSUME GridAssumption ==
    /\ {RMin, ZMin} \subseteq Nat \ {0}
    /\ {RMax, ZMax, DR, DZ, LoopHz, SlotSeconds} \subseteq Nat \ {0}
    /\ MaxLatency \in Nat

VARIABLES
    phase,           \* the main thread: constructor, connected, loop, quit
    driver,          \* state of the two ModemThreads
    ready,           \* ready announcements queued for the main thread
    drivers_ready_,
    connected,       \* client_->connected()
    position,        \* external: the receiver position the manager was sent last
    loops_since_last_transmission_,
    r_, z_,
    last_r_, last_z_,
    run_complete_,
    previous_stats_, \* 0 if cleared, else the transmission they are about
    in_water,        \* transmissions whose statistics may come: number -> age
    transmitted,     \* history: every transmission: [point, position, connected]
    rx_stats         \* everything published in this group: <<point, stats>>

setup == <<phase, driver, ready, drivers_ready_>>
grid == <<r_, z_, last_r_, last_z_, run_complete_>>
vars == <<setup, connected, position, loops_since_last_transmission_, grid,
          previous_stats_, in_water, transmitted, rx_stats>>

Init ==
    /\ phase = "launched"
    /\ driver = [m \in {"tx", "rx"} |-> "starting"]
    /\ ready = 0
    /\ drivers_ready_ = 0
    /\ connected = FALSE
    /\ position = <<>>
    /\ loops_since_last_transmission_ = 0
    /\ r_ = RMin /\ z_ = ZMin
    /\ last_r_ = -1 /\ last_z_ = -1
    /\ run_complete_ = FALSE
    /\ previous_stats_ = 0
    /\ in_water = {}
    /\ transmitted = <<>>
    /\ rx_stats = <<>>

-----------------------------------------------------------------------------
(* The constructors *)

\* A driver has started; nobody hears of it who has not subscribed.
Announce(m) ==
    /\ driver[m] = "starting"
    /\ driver' = [driver EXCEPT ![m] = "announced"]
    /\ ready' = IF phase = "launched" THEN ready ELSE ready + 1
    /\ UNCHANGED <<phase, drivers_ready_, connected, position,
                   loops_since_last_transmission_, grid, previous_stats_, in_water,
                   transmitted, rx_stats>>

\* The ModemThread subscribes to transmit after it has announced itself.
SubscribeTransmit(m) ==
    /\ driver[m] = "announced"
    /\ driver' = [driver EXCEPT ![m] = "subscribed"]
    /\ UNCHANGED <<phase, ready, drivers_ready_, connected, position,
                   loops_since_last_transmission_, grid, previous_stats_, in_water,
                   transmitted, rx_stats>>

Subscribe ==
    /\ phase = "launched"
    /\ phase' = "subscribed"
    /\ UNCHANGED <<driver, ready, drivers_ready_, connected, position,
                   loops_since_last_transmission_, grid, previous_stats_, in_water,
                   transmitted, rx_stats>>

\* Connected to the manager: both positions are sent.
Connect ==
    /\ phase = "subscribed"
    /\ phase' = "running"
    /\ connected' = TRUE
    /\ position' = <<r_, z_>>
    /\ UNCHANGED <<driver, ready, drivers_ready_, loops_since_last_transmission_,
                   grid, previous_stats_, in_water, transmitted, rx_stats>>

\* The manager goes away; the client does not connect again.
Disconnect ==
    /\ phase = "running" /\ connected
    /\ connected' = FALSE
    /\ UNCHANGED <<setup, position, loops_since_last_transmission_, grid,
                   previous_stats_, in_water, transmitted, rx_stats>>

-----------------------------------------------------------------------------
(* Callbacks of the main thread *)

DriverReady ==
    /\ phase = "running" /\ ready > 0
    /\ ready' = ready - 1
    /\ drivers_ready_' = drivers_ready_ + 1
    /\ UNCHANGED <<phase, driver, connected, position,
                   loops_since_last_transmission_, grid, previous_stats_, in_water,
                   transmitted, rx_stats>>

\* receive_data with statistics; without any, or with nothing received, the
\* transmission leaves no trace.
ReceiveData(t) ==
    /\ phase = "running" /\ t \in in_water
    /\ in_water' = in_water \ {t}
    /\ previous_stats_' \in {t.number, previous_stats_}
    /\ UNCHANGED <<setup, connected, position, loops_since_last_transmission_, grid,
                   transmitted, rx_stats>>

-----------------------------------------------------------------------------
(* loop() *)

AtHalfSlot(n) == 2 * n = SlotSeconds * LoopHz
AtSlotEnd(n) == n = 2 * SlotSeconds * LoopHz

\* A call of loop() that does something: a tenth of a second has passed.
Called ==
    /\ phase = "running"
    /\ drivers_ready_ >= 2
    /\ \A t \in in_water : t.age < MaxLatency

Older == {[t EXCEPT !.age = @ + 1] : t \in in_water}

LoopWaits_ReturnsWhenComplete ==
    /\ Called
    /\ ~AtSlotEnd(loops_since_last_transmission_)
    /\ ~AtHalfSlot(loops_since_last_transmission_)
    /\ loops_since_last_transmission_' = loops_since_last_transmission_ + 1
    /\ in_water' = Older
    /\ UNCHANGED <<setup, connected, position, grid, previous_stats_, transmitted,
                   rx_stats>>

LoopWaits ==
    /\ Called
    /\ ~AtSlotEnd(loops_since_last_transmission_)
    /\ AtHalfSlot(loops_since_last_transmission_) => run_complete_
    /\ loops_since_last_transmission_' = loops_since_last_transmission_ + 1
    /\ in_water' = Older
    /\ UNCHANGED <<setup, connected, position, grid, previous_stats_, transmitted,
                   rx_stats>>

\* update_receiver_position
LoopMoves ==
    /\ Called
    /\ AtHalfSlot(loops_since_last_transmission_) /\ ~run_complete_
    /\ position' = IF connected THEN <<r_, z_>> ELSE position
    /\ loops_since_last_transmission_' = loops_since_last_transmission_ + 1
    /\ in_water' = Older
    /\ UNCHANGED <<setup, connected, grid, previous_stats_, transmitted, rx_stats>>

PublishStats_KeepsThem ==
    IF last_r_ > 0 /\ last_z_ > 0
    THEN /\ rx_stats' = Append(rx_stats, <<<<last_r_, last_z_>>, previous_stats_>>)
         /\ UNCHANGED previous_stats_
    ELSE UNCHANGED <<rx_stats, previous_stats_>>

PublishStats ==
    IF last_r_ > 0 /\ last_z_ > 0
    THEN /\ rx_stats' = Append(rx_stats, <<<<last_r_, last_z_>>, previous_stats_>>)
         /\ previous_stats_' = 0
    ELSE UNCHANGED <<rx_stats, previous_stats_>>

Advance_ShortRow ==
    /\ last_r_' = r_ /\ last_z_' = z_
    /\ IF r_ + DR < RMax
       THEN r_' = r_ + DR /\ UNCHANGED <<z_, run_complete_>>
       ELSE /\ r_' = RMin
            /\ z_' = z_ + DZ
            /\ run_complete_' = (run_complete_ \/ z_ + DZ > ZMax)

\* On to the next range, or to the first range of the next depth.
Advance ==
    /\ last_r_' = r_ /\ last_z_' = z_
    /\ IF r_ + DR <= RMax
       THEN r_' = r_ + DR /\ UNCHANGED <<z_, run_complete_>>
       ELSE /\ r_' = RMin
            /\ z_' = z_ + DZ
            /\ run_complete_' = (run_complete_ \/ z_ + DZ > ZMax)

Transmit ==
    /\ transmitted' = Append(transmitted, [point |-> <<r_, z_>>,
                                           position |-> position,
                                           connected |-> connected])
    /\ in_water' = IF driver["tx"] = "subscribed"
                   THEN Older \cup {[number |-> Len(transmitted) + 1, age |-> 0]}
                   ELSE Older

LoopTransmits ==
    /\ Called
    /\ AtSlotEnd(loops_since_last_transmission_) /\ ~run_complete_
    /\ PublishStats
    /\ Transmit
    /\ Advance
    /\ loops_since_last_transmission_' = 1
    /\ UNCHANGED <<setup, connected, position>>

\* The last statistics have been published.
LoopQuits ==
    /\ Called
    /\ AtSlotEnd(loops_since_last_transmission_) /\ run_complete_
    /\ PublishStats
    /\ phase' = "quit"
    /\ UNCHANGED <<driver, ready, drivers_ready_, connected, position,
                   loops_since_last_transmission_, grid, in_water, transmitted>>

loop == LoopWaits \/ LoopMoves \/ LoopTransmits \/ LoopQuits

Next ==
    \/ \E m \in {"tx", "rx"} : Announce(m)
    \/ \E m \in {"tx", "rx"} : SubscribeTransmit(m)
    \/ Subscribe
    \/ Connect
    \/ Disconnect
    \/ DriverReady
    \/ \E t \in in_water : ReceiveData(t)
    \/ loop

\* loop() is called at LoopHz, and what is under way comes or is lost.
Fairness == WF_vars(loop) /\ WF_vars(\E t \in in_water : ReceiveData(t))

Spec == Init /\ [][Next]_vars
FairSpec == Spec /\ Fairness

-----------------------------------------------------------------------------
(* Properties *)

Columns == (RMax - RMin) \div DR + 1
Rows == (ZMax - ZMin) \div DZ + 1
GridPoint(i) == <<RMin + ((i - 1) % Columns) * DR, ZMin + ((i - 1) \div Columns) * DZ>>

(* The transmissions visit the grid range by range and depth by depth, and *)
(* the statistics are published for the same points, one slot behind; at   *)
(* the end both have covered the whole grid.  While the manager is         *)
(* connected it has been told the point before the transmission there.     *)
GridCovered ==
    /\ \A i \in 1..Len(transmitted) :
          /\ transmitted[i].point = GridPoint(i)
          /\ transmitted[i].connected => transmitted[i].position = GridPoint(i)
    /\ \A i \in 1..Len(rx_stats) : rx_stats[i][1] = GridPoint(i)
    /\ Len(rx_stats) \in {Len(transmitted) - 1, Len(transmitted)} \cup {0}
    /\ Len(transmitted) <= Columns * Rows
    /\ phase = "quit" => /\ Len(transmitted) = Columns * Rows
                         /\ Len(rx_stats) = Columns * Rows

(* The statistics published for a point are those of the transmission made *)
(* there, or none: never what an earlier point has left behind.            *)
StatsBelongToPoint ==
    \A i \in 1..Len(rx_stats) :
        rx_stats[i][2] # 0 => transmitted[rx_stats[i][2]].point = rx_stats[i][1]

(* Once both drivers are known to be ready the run comes to its end, with  *)
(* or without statistics and with or without the manager.                  *)
RunCompletes == drivers_ready_ = 2 ~> phase = "quit"
=============================================================================
