-------------------------- MODULE NetSimTool_proof --------------------------
(***************************************************************************)
(* netsim_tool, for every grid and every slot: what it publishes for a     *)
(* point was received there, and the whole grid is visited once.           *)
(***************************************************************************)
EXTENDS NetSimTool, SequenceTheorems, TLAPS

Positive == Nat \ {0}
Points == Positive \X Positive
Transmission == [point : Points, position : Points \cup {<<>>}, connected : BOOLEAN]
N == Len(transmitted)
SlotLength == 2 * SlotSeconds * LoopHz

TypeInv ==
    /\ phase \in {"launched", "subscribed", "running", "quit"}
    /\ r_ \in Positive /\ z_ \in Positive
    /\ last_r_ \in Int /\ last_z_ \in Int
    /\ loops_since_last_transmission_ \in Nat
    /\ connected \in BOOLEAN /\ run_complete_ \in BOOLEAN
    /\ position \in Points \cup {<<>>}
    /\ previous_stats_ \in Nat
    /\ in_water \subseteq [number : Nat, age : Nat]
    /\ transmitted \in Seq(Transmission)
    /\ rx_stats \in Seq(Points \X Nat)

\* The statistics are published one slot behind the transmissions, for the point
\* that last_r_ and last_z_ have kept.
OneSlotBehind ==
    /\ N = 0 => last_r_ = -1 /\ last_z_ = -1 /\ ~run_complete_
    /\ N > 0 => /\ last_r_ \in Positive /\ last_z_ \in Positive
                /\ transmitted[N].point = <<last_r_, last_z_>>
    /\ Len(rx_stats) = IF N = 0 THEN 0 ELSE IF phase = "quit" THEN N ELSE N - 1
    /\ \A i \in 1..Len(rx_stats) : rx_stats[i][1] = transmitted[i].point
    /\ phase = "quit" => N > 0 /\ run_complete_

\* Only the last transmission is in the water, since as long as the slot; what has
\* been received is of that one.
OneInWater ==
    /\ \A t \in in_water : /\ t.number = N
                           /\ t.age = loops_since_last_transmission_ - 1
    /\ previous_stats_ \in {0, N}
    /\ \A i \in 1..Len(rx_stats) : rx_stats[i][2] \in {0, i}

\* r_ and z_ are the next point of the grid until the grid has been visited.
OnGrid ==
    /\ r_ = RMin + (N % Columns) * DR
    /\ z_ = ZMin + (N \div Columns) * DZ
    /\ \A i \in 1..N : transmitted[i].point = GridPoint(i)
    /\ N \div Columns <= Rows
    /\ run_complete_ <=> N \div Columns = Rows
    /\ run_complete_ => N % Columns = 0

\* The manager is told the next point before the middle of the slot is over.
Told ==
    /\ connected => phase \in {"running", "quit"}
    /\ /\ connected /\ ~run_complete_
       /\ N = 0 \/ 2 * loops_since_last_transmission_ > SlotSeconds * LoopHz
       => position = <<r_, z_>>
    /\ \A i \in 1..N : transmitted[i].connected => transmitted[i].position = transmitted[i].point

-----------------------------------------------------------------------------
\* The steps that are not loop() or a reception.
Quiet ==
    \/ \E m \in {"tx", "rx"} : Announce(m) \/ SubscribeTransmit(m)
    \/ Subscribe \/ Connect \/ Disconnect \/ DriverReady
    \/ UNCHANGED vars

(* A step outside loop() and the reception leaves slot, grid, statistics   *)
(* and transmissions alone; only Connect and Disconnect touch connection   *)
(* and position.                                                           *)
LEMMA QuietStep ==
    ASSUME Quiet, TypeInv
    PROVE  /\ UNCHANGED <<loops_since_last_transmission_, r_, z_, last_r_, last_z_,
                          run_complete_, previous_stats_, in_water, transmitted, rx_stats>>
           /\ phase' \in {"launched", "subscribed", "running", "quit"}
           /\ phase' = "quit" <=> phase = "quit"
           /\ phase \in {"running", "quit"} => phase' \in {"running", "quit"}
           /\ \/ connected' = connected /\ position' = position
              \/ connected' = FALSE /\ position' = position
              \/ phase' = "running" /\ connected' = TRUE /\ position' = <<r_, z_>>
BY DEF Quiet, TypeInv, Announce, SubscribeTransmit, Subscribe, Connect, Disconnect,
       DriverReady, vars, setup, grid

(* The steps of the specification are those of the three kinds.            *)
LEMMA StepKinds ==
    [Next]_vars => Quiet \/ loop \/ \E t \in in_water : ReceiveData(t)
BY DEF Next, Quiet

(* What publishing the statistics does at the end of a slot.               *)
LEMMA Published ==
    ASSUME TypeInv, OneSlotBehind, PublishStats
    PROVE  /\ N = 0 => UNCHANGED <<rx_stats, previous_stats_>>
           /\ N > 0 => /\ rx_stats' = Append(rx_stats, <<<<last_r_, last_z_>>, previous_stats_>>)
                       /\ <<<<last_r_, last_z_>>, previous_stats_>> \in Points \X Nat
                       /\ previous_stats_' = 0
           /\ N \in Nat
<1>1. N \in Nat
  BY DEF TypeInv, N
<1>2. CASE N = 0
  BY <1>1, <1>2 DEF OneSlotBehind, PublishStats
<1>3. CASE N > 0
  <2>1. last_r_ \in Positive /\ last_z_ \in Positive /\ previous_stats_ \in Nat
    BY <1>3 DEF OneSlotBehind, TypeInv
  <2>2. last_r_ > 0 /\ last_z_ > 0
    BY <2>1 DEF Positive
  <2>3. <<<<last_r_, last_z_>>, previous_stats_>> \in Points \X Nat
    BY <2>1 DEF Points
  <2> QED BY <1>1, <1>3, <2>2, <2>3 DEF PublishStats
<1> QED
  BY <1>1, <1>2, <1>3

(* What transmitting does: one more transmission, from the next point.     *)
LEMMA Transmitted ==
    ASSUME TypeInv, Transmit
    PROVE  LET tr == [point |-> <<r_, z_>>, position |-> position, connected |-> connected]
           IN  /\ tr \in Transmission
               /\ transmitted' \in Seq(Transmission)
               /\ N' = N + 1 /\ N \in Nat
               /\ \A i \in 1..N : transmitted'[i] = transmitted[i]
               /\ transmitted'[N + 1] = tr
<1> DEFINE tr == [point |-> <<r_, z_>>, position |-> position, connected |-> connected]
<1>1. tr \in Transmission
  BY DEF TypeInv, Transmission, Points
<1>2. transmitted \in Seq(Transmission) /\ transmitted' = Append(transmitted, tr)
  BY DEF TypeInv, Transmit
<1> HIDE DEF tr
<1>3. /\ transmitted' \in Seq(Transmission)
      /\ Len(transmitted') = Len(transmitted) + 1 /\ Len(transmitted) \in Nat
      /\ \A i \in 1..Len(transmitted) : transmitted'[i] = transmitted[i]
      /\ transmitted'[Len(transmitted) + 1] = tr
  BY <1>1, <1>2, AppendProperties
<1> QED
  BY <1>1, <1>3 DEF N, tr

(* The ages of what is in the water.                                       *)
LEMMA Ages ==
    ASSUME in_water \subseteq [number : Nat, age : Nat]
    PROVE  /\ Older \subseteq [number : Nat, age : Nat]
           /\ \A u \in Older : \E t \in in_water : u.number = t.number /\ u.age = t.age + 1
<1> SUFFICES ASSUME NEW t \in in_water
             PROVE  LET u == [t EXCEPT !.age = @ + 1]
                    IN  u \in [number : Nat, age : Nat] /\ u.number = t.number /\ u.age = t.age + 1
  BY DEF Older
<1>1. t \in [number : Nat, age : Nat]
  OBVIOUS
<1> QED
  BY <1>1

(* Advancing leaves r_ and z_ positive.                                    *)
LEMMA Advanced ==
    ASSUME TypeInv, Advance
    PROVE  /\ r_' \in Positive /\ z_' \in Positive /\ run_complete_' \in BOOLEAN
           /\ last_r_' = r_ /\ last_z_' = z_
<1>1. RMin \in Positive /\ DR \in Positive /\ DZ \in Positive
  BY GridAssumption DEF Positive
<1>2. r_ \in Positive /\ z_ \in Positive /\ run_complete_ \in BOOLEAN
  BY DEF TypeInv
<1>3. r_ + DR \in Positive /\ z_ + DZ \in Positive
  BY <1>1, <1>2 DEF Positive
<1> QED
  BY <1>1, <1>2, <1>3 DEF Advance

(* Every step keeps the types.                                             *)
LEMMA NextType ==
    ASSUME TypeInv, OneSlotBehind, [Next]_vars
    PROVE  TypeInv'
<1>1. CASE Quiet
  <2>1. position' \in {position, <<r_, z_>>} /\ connected' \in {connected, TRUE, FALSE}
    BY <1>1, QuietStep
  <2>2. <<r_, z_>> \in Points /\ position \in Points \cup {<<>>} /\ connected \in BOOLEAN
    BY DEF TypeInv, Points
  <2>3. position' \in Points \cup {<<>>} /\ connected' \in BOOLEAN
    BY <2>1, <2>2
  <2> QED BY <1>1, <2>3, QuietStep DEF TypeInv
<1>2. ASSUME NEW t \in in_water, ReceiveData(t) PROVE TypeInv'
  <2>1. t.number \in Nat
    BY DEF TypeInv
  <2>2. previous_stats_' \in Nat /\ in_water' \subseteq [number : Nat, age : Nat]
    BY <1>2, <2>1 DEF ReceiveData, TypeInv
  <2> QED BY <1>2, <2>2 DEF ReceiveData, TypeInv, setup, grid
<1>3. ASSUME LoopWaits \/ LoopMoves PROVE TypeInv'
  <2>1. /\ loops_since_last_transmission_' = loops_since_last_transmission_ + 1
        /\ in_water' = Older
        /\ position' \in {<<r_, z_>>, position}
        /\ UNCHANGED <<setup, connected, grid, previous_stats_, transmitted, rx_stats>>
    BY <1>3 DEF LoopWaits, LoopMoves
  <2>2. in_water' \subseteq [number : Nat, age : Nat]
    BY <2>1, Ages DEF TypeInv
  <2>3. position' \in Points \cup {<<>>} /\ loops_since_last_transmission_' \in Nat
    BY <2>1 DEF TypeInv, Points
  <2> QED BY <2>1, <2>2, <2>3 DEF TypeInv, setup, grid
<1>4. ASSUME PublishStats
      PROVE  rx_stats' \in Seq(Points \X Nat) /\ previous_stats_' \in Nat
  <2>1. rx_stats \in Seq(Points \X Nat) /\ previous_stats_ \in Nat
    BY DEF TypeInv
  <2>2. CASE N = 0
    BY <1>4, <2>1, <2>2, Published
  <2>3. CASE N > 0
    <3> DEFINE e == <<<<last_r_, last_z_>>, previous_stats_>>
    <3>1. rx_stats' = Append(rx_stats, e) /\ e \in Points \X Nat /\ previous_stats_' = 0
      BY <1>4, <2>3, Published
    <3> HIDE DEF e
    <3> QED BY <2>1, <3>1, AppendProperties
  <2> QED BY <1>4, <2>2, <2>3, Published
<1>5. ASSUME LoopTransmits PROVE TypeInv'
  <2>1. /\ PublishStats /\ Transmit /\ Advance
        /\ loops_since_last_transmission_' = 1
        /\ UNCHANGED <<setup, connected, position>>
    BY <1>5 DEF LoopTransmits
  <2>2. rx_stats' \in Seq(Points \X Nat) /\ previous_stats_' \in Nat
    BY <1>4, <2>1
  <2>3. transmitted' \in Seq(Transmission)
    BY <2>1, Transmitted
  <2>4. in_water' \subseteq [number : Nat, age : Nat]
    <3>1. Older \subseteq [number : Nat, age : Nat]
      BY Ages DEF TypeInv
    <3>2. [number |-> Len(transmitted) + 1, age |-> 0] \in [number : Nat, age : Nat]
      BY DEF TypeInv
    <3> QED BY <2>1, <3>1, <3>2 DEF Transmit
  <2>5. /\ r_' \in Positive /\ z_' \in Positive /\ run_complete_' \in BOOLEAN
        /\ last_r_' \in Int /\ last_z_' \in Int
    BY <2>1, Advanced DEF TypeInv, Positive
  <2> QED BY <2>1, <2>2, <2>3, <2>4, <2>5 DEF TypeInv, setup
<1>6. ASSUME LoopQuits PROVE TypeInv'
  <2>1. /\ PublishStats /\ phase' = "quit"
        /\ UNCHANGED <<connected, position, loops_since_last_transmission_, grid, in_water,
                       transmitted>>
    BY <1>6 DEF LoopQuits
  <2>2. rx_stats' \in Seq(Points \X Nat) /\ previous_stats_' \in Nat
    BY <1>4, <2>1
  <2> QED BY <2>1, <2>2 DEF TypeInv, grid
<1> QED
  BY <1>1, <1>2, <1>3, <1>5, <1>6, StepKinds DEF loop

(* Every step keeps the published points one slot behind the transmissions. *)
LEMMA NextBehind ==
    ASSUME TypeInv, OneSlotBehind, [Next]_vars
    PROVE  OneSlotBehind'
<1>0. /\ N \in Nat /\ Len(rx_stats) \in Nat
      /\ transmitted \in Seq(Transmission) /\ rx_stats \in Seq(Points \X Nat)
  BY DEF TypeInv, N
<1>1. ASSUME UNCHANGED <<last_r_, last_z_, run_complete_, transmitted, rx_stats>>,
             phase' = "quit" <=> phase = "quit"
      PROVE  OneSlotBehind'
  BY <1>1 DEF OneSlotBehind, N
<1>2. CASE Quiet
  BY <1>1, <1>2, QuietStep
<1>3. ASSUME NEW t \in in_water, ReceiveData(t) PROVE OneSlotBehind'
  BY <1>1, <1>3 DEF ReceiveData, setup, grid
<1>4. ASSUME LoopWaits \/ LoopMoves PROVE OneSlotBehind'
  BY <1>1, <1>4 DEF LoopWaits, LoopMoves, setup, grid
<1> DEFINE e == <<<<last_r_, last_z_>>, previous_stats_>>
<1>5. ASSUME PublishStats, N > 0
      PROVE  /\ Len(rx_stats') = Len(rx_stats) + 1
             /\ \A i \in 1..Len(rx_stats) : rx_stats'[i] = rx_stats[i]
             /\ rx_stats'[Len(rx_stats) + 1][1] = <<last_r_, last_z_>>
  <2>1. rx_stats' = Append(rx_stats, e) /\ e \in Points \X Nat
    BY <1>5, Published
  <2>2. e[1] = <<last_r_, last_z_>>
    OBVIOUS
  <2> HIDE DEF e
  <2>3. /\ Len(rx_stats') = Len(rx_stats) + 1
        /\ \A i \in 1..Len(rx_stats) : rx_stats'[i] = rx_stats[i]
        /\ rx_stats'[Len(rx_stats) + 1] = e
    BY <1>0, <2>1, AppendProperties
  <2> QED BY <2>2, <2>3
<1>6. ASSUME LoopTransmits PROVE OneSlotBehind'
  <2>1. /\ PublishStats /\ Transmit /\ Advance /\ UNCHANGED phase /\ phase = "running"
    BY <1>6 DEF LoopTransmits, Called, setup
  <2>2. /\ N' = N + 1
        /\ \A i \in 1..N : transmitted'[i] = transmitted[i]
        /\ transmitted'[N + 1].point = <<r_, z_>>
    BY <2>1, Transmitted
  <2>3. last_r_' = r_ /\ last_z_' = z_ /\ r_ \in Positive /\ z_ \in Positive
    BY <2>1, Advanced DEF TypeInv
  <2>4. Len(rx_stats') = N
    <3>1. CASE N = 0
      BY <2>1, <3>1, Published DEF OneSlotBehind
    <3>2. CASE N > 0
      BY <1>0, <1>5, <2>1, <3>2 DEF OneSlotBehind
    <3> QED BY <1>0, <3>1, <3>2
  <2>5. \A i \in 1..Len(rx_stats') : rx_stats'[i][1] = transmitted'[i].point
    <3> SUFFICES ASSUME NEW i \in 1..N PROVE rx_stats'[i][1] = transmitted[i].point
      BY <2>2, <2>4
    <3>1. N > 0 /\ Len(rx_stats) = N - 1
      BY <1>0, <2>1 DEF OneSlotBehind
    <3>2. CASE i = N
      <4>1. rx_stats'[Len(rx_stats) + 1][1] = <<last_r_, last_z_>>
        BY <1>5, <2>1, <3>1
      <4>2. Len(rx_stats) + 1 = i
        BY <1>0, <3>1, <3>2
      <4>3. transmitted[N].point = <<last_r_, last_z_>>
        BY <3>1 DEF OneSlotBehind
      <4> QED BY <3>2, <4>1, <4>2, <4>3
    <3>3. CASE i \in 1..(N - 1)
      BY <1>5, <2>1, <3>1, <3>3 DEF OneSlotBehind
    <3> QED BY <1>0, <3>2, <3>3
  <2> QED BY <1>0, <2>1, <2>2, <2>3, <2>4, <2>5 DEF OneSlotBehind
<1>7. ASSUME LoopQuits PROVE OneSlotBehind'
  <2>1. /\ PublishStats /\ phase' = "quit" /\ phase = "running" /\ run_complete_
        /\ UNCHANGED <<last_r_, last_z_, run_complete_, transmitted>>
    BY <1>7 DEF LoopQuits, Called, grid
  <2>2. N > 0 /\ N' = N /\ Len(rx_stats) = N - 1
    BY <1>0, <2>1 DEF OneSlotBehind, N
  <2>3. Len(rx_stats') = N
    BY <1>0, <1>5, <2>1, <2>2
  <2>4. \A i \in 1..Len(rx_stats') : rx_stats'[i][1] = transmitted'[i].point
    <3> SUFFICES ASSUME NEW i \in 1..N PROVE rx_stats'[i][1] = transmitted[i].point
      BY <2>1, <2>3
    <3>1. CASE i = N
      <4>1. rx_stats'[Len(rx_stats) + 1][1] = <<last_r_, last_z_>>
        BY <1>5, <2>1, <2>2
      <4>2. Len(rx_stats) + 1 = i
        BY <1>0, <2>2, <3>1
      <4>3. transmitted[N].point = <<last_r_, last_z_>>
        BY <2>2 DEF OneSlotBehind
      <4> QED BY <3>1, <4>1, <4>2, <4>3
    <3>2. CASE i \in 1..(N - 1)
      BY <1>5, <2>1, <2>2, <3>2 DEF OneSlotBehind
    <3> QED BY <1>0, <3>1, <3>2
  <2> QED BY <1>0, <2>1, <2>2, <2>3, <2>4 DEF OneSlotBehind
<1> QED
  BY <1>2, <1>3, <1>4, <1>6, <1>7, StepKinds DEF loop

(* At the start nothing has been transmitted.                              *)
LEMMA InitBehind == Init => TypeInv /\ OneSlotBehind
<1> SUFFICES ASSUME Init PROVE TypeInv /\ OneSlotBehind
  OBVIOUS
<1>1. Len(<<>>) = 0
  OBVIOUS
<1>2. TypeInv
  <2>1. RMin \in Positive /\ ZMin \in Positive
    BY GridAssumption DEF Positive
  <2>2. <<>> \in Seq(Transmission) /\ <<>> \in Seq(Points \X Nat)
    OBVIOUS
  <2>3. /\ transmitted \in Seq(Transmission) /\ rx_stats \in Seq(Points \X Nat)
        /\ in_water \subseteq [number : Nat, age : Nat] /\ position \in Points \cup {<<>>}
    BY <2>2, Zenon DEF Init
  <2>4. last_r_ \in Int /\ last_z_ \in Int
    BY DEF Init
  <2>5. /\ phase \in {"launched", "subscribed", "running", "quit"}
        /\ r_ \in Positive /\ z_ \in Positive
        /\ loops_since_last_transmission_ \in Nat /\ previous_stats_ \in Nat
        /\ connected \in BOOLEAN /\ run_complete_ \in BOOLEAN
    BY <2>1 DEF Init
  <2> QED BY <2>3, <2>4, <2>5, Zenon DEF TypeInv
<1>3. OneSlotBehind
  BY <1>1 DEF Init, OneSlotBehind, N
<1> QED
  BY <1>2, <1>3

(* Types and the slot behind hold in every reachable state.                *)
LEMMA BehindHolds == Spec => [](TypeInv /\ OneSlotBehind)
BY InitBehind, NextType, NextBehind, PTL DEF Spec

-----------------------------------------------------------------------------
(* If statistics come within the slot, every step keeps those received     *)
(* those of the last transmission.                                         *)
LEMMA NextInWater ==
    ASSUME MaxLatency < SlotLength, TypeInv, OneSlotBehind, OneInWater, [Next]_vars
    PROVE  OneInWater'
<1> DEFINE loops == loops_since_last_transmission_
<1>0. /\ N \in Nat /\ Len(rx_stats) \in Nat /\ loops \in Nat /\ previous_stats_ \in Nat
      /\ rx_stats \in Seq(Points \X Nat) /\ in_water \subseteq [number : Nat, age : Nat]
      /\ MaxLatency \in Nat /\ SlotLength \in Nat
  BY GridAssumption, SMTT(30) DEF TypeInv, N, SlotLength
<1>1. CASE Quiet
  BY <1>1, QuietStep DEF OneInWater, N
<1>2. ASSUME NEW t \in in_water, ReceiveData(t) PROVE OneInWater'
  <2>1. t.number = N
    BY DEF OneInWater
  <2>2. /\ in_water' \subseteq in_water
        /\ previous_stats_' \in {t.number, previous_stats_}
        /\ UNCHANGED <<loops_since_last_transmission_, transmitted, rx_stats>>
    BY <1>2 DEF ReceiveData
  <2> QED BY <2>1, <2>2 DEF OneInWater, N
<1>3. ASSUME LoopWaits \/ LoopMoves PROVE OneInWater'
  <2>1. /\ loops_since_last_transmission_' = loops + 1
        /\ in_water' = Older
        /\ UNCHANGED <<previous_stats_, transmitted, rx_stats>>
    BY <1>3 DEF LoopWaits, LoopMoves
  <2>2. \A u \in Older : u.number = N /\ u.age = loops
    <3> SUFFICES ASSUME NEW u \in Older PROVE u.number = N /\ u.age = loops
      OBVIOUS
    <3>1. PICK t \in in_water : u.number = t.number /\ u.age = t.age + 1
      BY <1>0, Ages
    <3>2. t.number = N /\ t.age = loops - 1
      BY DEF OneInWater
    <3> QED BY <1>0, <3>1, <3>2
  <2>3. N' = N
    BY <2>1 DEF N
  <2>4. \A u \in in_water' : u.number = N' /\ u.age = loops_since_last_transmission_' - 1
    BY <1>0, <2>1, <2>2, <2>3
  <2> QED BY <2>1, <2>3, <2>4 DEF OneInWater
<1>4. ASSUME Called, AtSlotEnd(loops_since_last_transmission_) PROVE in_water = {}
  <2> SUFFICES ASSUME NEW t \in in_water PROVE FALSE
    OBVIOUS
  <2>1. t.age = SlotLength - 1
    BY <1>4 DEF OneInWater, AtSlotEnd, SlotLength
  <2>2. t.age < MaxLatency
    BY <1>4 DEF Called
  <2> QED BY <1>0, <2>1, <2>2
<1> DEFINE e == <<<<last_r_, last_z_>>, previous_stats_>>
<1>5. ASSUME PublishStats, N > 0, phase = "running"
      PROVE  /\ Len(rx_stats') = N
             /\ \A i \in 1..Len(rx_stats') : rx_stats'[i][2] \in {0, i}
  <2>1. rx_stats' = Append(rx_stats, e) /\ e \in Points \X Nat
    BY <1>5, Published
  <2>2. e[2] \in {0, N}
    BY DEF OneInWater
  <2> HIDE DEF e
  <2>3. /\ Len(rx_stats') = Len(rx_stats) + 1
        /\ \A i \in 1..Len(rx_stats) : rx_stats'[i] = rx_stats[i]
        /\ rx_stats'[Len(rx_stats) + 1] = e
    BY <1>0, <2>1, AppendProperties
  <2>4. Len(rx_stats) = N - 1
    BY <1>0, <1>5 DEF OneSlotBehind
  <2>5. ASSUME NEW i \in 1..N PROVE rx_stats'[i][2] \in {0, i}
    <3>1. CASE i = N
      BY <1>0, <2>2, <2>3, <2>4, <3>1
    <3>2. CASE i \in 1..(N - 1)
      BY <2>3, <2>4, <3>2 DEF OneInWater
    <3> QED BY <1>0, <3>1, <3>2
  <2> QED BY <1>0, <2>3, <2>4, <2>5
<1>6. ASSUME LoopTransmits PROVE OneInWater'
  <2>1. /\ PublishStats /\ Transmit /\ phase = "running" /\ Called
        /\ AtSlotEnd(loops_since_last_transmission_)
        /\ loops_since_last_transmission_' = 1
    BY <1>6 DEF LoopTransmits, Called
  <2>2. N' = N + 1
    BY <2>1, Transmitted
  <2>3. previous_stats_' = 0
    <3>1. CASE N = 0
      BY <2>1, <3>1, Published DEF OneInWater
    <3>2. CASE N > 0
      BY <2>1, <3>2, Published
    <3> QED BY <1>0, <3>1, <3>2
  <2>4. \A i \in 1..Len(rx_stats') : rx_stats'[i][2] \in {0, i}
    <3>1. CASE N = 0
      BY <2>1, <3>1, Published DEF OneInWater
    <3>2. CASE N > 0
      BY <1>5, <2>1, <3>2
    <3> QED BY <1>0, <3>1, <3>2
  <2>5. \A t \in in_water' : t.number = N' /\ t.age = loops_since_last_transmission_' - 1
    <3>1. Older = {}
      BY <1>4, <2>1 DEF Older
    <3>2. in_water' \subseteq {[number |-> N + 1, age |-> 0]}
      BY <2>1, <3>1 DEF Transmit, N
    <3> QED BY <1>0, <2>1, <2>2, <3>2
  <2> QED BY <2>3, <2>4, <2>5 DEF OneInWater
<1>7. ASSUME LoopQuits PROVE OneInWater'
  <2>1. /\ PublishStats /\ phase = "running" /\ run_complete_
        /\ UNCHANGED <<loops_since_last_transmission_, in_water, transmitted>>
    BY <1>7 DEF LoopQuits, Called
  <2>2. N > 0 /\ N' = N
    BY <1>0, <2>1 DEF OneSlotBehind, N
  <2>3. previous_stats_' = 0
    BY <2>1, <2>2, Published
  <2> QED BY <1>5, <2>1, <2>2, <2>3 DEF OneInWater
<1> QED
  BY <1>1, <1>2, <1>3, <1>6, <1>7, StepKinds DEF loop

(* As long as statistics come within the slot they belong to, what is      *)
(* published for a point was received from the transmission made there, or *)
(* is nothing: previous_stats_ never holds what an earlier point has left. *)
THEOREM StatsOfThePoint ==
    ASSUME MaxLatency < SlotLength
    PROVE  Spec => []StatsBelongToPoint
<1>1. Init => OneInWater
  BY DEF Init, OneInWater
<1>2. TypeInv /\ OneSlotBehind /\ OneInWater /\ [Next]_vars => OneInWater'
  BY NextInWater
<1>3. TypeInv /\ OneSlotBehind /\ OneInWater => StatsBelongToPoint
  <2> SUFFICES ASSUME OneSlotBehind, OneInWater, NEW i \in 1..Len(rx_stats),
                      rx_stats[i][2] # 0
               PROVE  transmitted[rx_stats[i][2]].point = rx_stats[i][1]
    BY DEF StatsBelongToPoint
  <2>1. rx_stats[i][2] = i
    BY DEF OneInWater
  <2> QED BY <2>1 DEF OneSlotBehind
<1> QED
  BY <1>1, <1>2, <1>3, BehindHolds, PTL DEF Spec
-----------------------------------------------------------------------------
(* Quotient and remainder.                                                 *)
LEMMA DivMod ==
    ASSUME NEW n \in Nat, NEW c \in Positive
    PROVE  n \div c \in Nat /\ n % c \in 0..(c - 1) /\ n % c = n - c * (n \div c)
<1>1. n \in Int /\ c \in Int /\ c > 0
  BY DEF Positive
<1>2. n % c = n - c * (n \div c)
  BY <1>1, Z3
<1>3. n \div c \in Nat /\ n % c \in 0..(c - 1)
  BY <1>1
<1> QED
  BY <1>2, <1>3, Zenon

(* A product with a larger factor is larger by at least the other one.     *)
LEMMA TimesMonotone ==
    ASSUME NEW c \in Nat, NEW a \in Nat, NEW b \in Nat, a < b
    PROVE  c * a + c <= c * b
<1>1. PICK d \in Nat : b = a + 1 + d
  <2>1. b - a - 1 \in Nat /\ b = a + 1 + (b - a - 1)
    OBVIOUS
  <2> QED BY <2>1
<1>2. c * b = c * a + c + c * d
  BY <1>1, Z3
<1>3. c * d \in Nat /\ c * a \in Nat
  OBVIOUS
<1> QED
  BY <1>2, <1>3

(* Quotient and remainder are unique.                                      *)
LEMMA DivModUnique ==
    ASSUME NEW c \in Positive, NEW w \in Nat, NEW k \in 0..(c - 1), NEW n \in Nat,
           n = c * w + k
    PROVE  n \div c = w /\ n % c = k
<1> DEFINE q == n \div c
           m == n % c
<1>0. q \in Nat /\ m \in 0..(c - 1) /\ m = n - c * q
  BY DivMod
<1> HIDE DEF q, m
<1>1. q \in Nat /\ m \in 0..(c - 1) /\ n = c * q + m /\ c \in Nat
  BY <1>0 DEF Positive
<1>2. c * q \in Nat /\ c * w \in Nat
  BY <1>1
<1>3. ~(q < w)
  BY <1>1, <1>2, TimesMonotone
<1>4. ~(w < q)
  BY <1>1, <1>2, TimesMonotone
<1>5. q = w
  BY <1>1, <1>3, <1>4
<1>6. m = k
  BY <1>1, <1>2, <1>5
<1> QED
  BY <1>5, <1>6 DEF q, m

(* The next cell of the grid: in the same row, or the first of the next.   *)
LEMMA NextCell ==
    ASSUME NEW n \in Nat, NEW c \in Positive
    PROVE  IF (n % c) + 1 < c
           THEN (n + 1) % c = (n % c) + 1 /\ (n + 1) \div c = n \div c
           ELSE (n + 1) % c = 0 /\ (n + 1) \div c = (n \div c) + 1
<1> DEFINE q == n \div c
           m == n % c
<1>0. q \in Nat /\ m \in 0..(c - 1) /\ m = n - c * q
  BY DivMod
<1> HIDE DEF q, m
<1>1. q \in Nat /\ m \in 0..(c - 1) /\ n = c * q + m /\ c \in Nat /\ c > 0
  BY <1>0 DEF Positive
<1>2. CASE m + 1 < c
  <2>1. m + 1 \in 0..(c - 1) /\ n + 1 = c * q + (m + 1)
    BY <1>1, <1>2
  <2>2. (n + 1) \div c = q /\ (n + 1) % c = m + 1
    BY <1>1, <2>1, DivModUnique
  <2> QED BY <1>2, <2>2 DEF q, m
<1>3. CASE ~(m + 1 < c)
  <2>1. m + 1 = c
    BY <1>1, <1>3
  <2>2. c * (q + 1) = c * q + c /\ q + 1 \in Nat
    BY <1>1, Z3
  <2>3. n + 1 = c * (q + 1) + 0 /\ 0 \in 0..(c - 1)
    BY <1>1, <2>1, <2>2
  <2>4. (n + 1) \div c = q + 1 /\ (n + 1) % c = 0
    BY <1>1, <2>2, <2>3, DivModUnique
  <2> QED BY <1>3, <2>4 DEF q, m
<1> QED
  BY <1>2, <1>3 DEF q, m

(* A step further along an axis of the grid is past its end exactly when   *)
(* all its positions have been visited.                                    *)
LEMMA AxisEnd ==
    ASSUME NEW lo \in Nat, NEW hi \in Nat, NEW d \in Positive, lo <= hi, NEW k \in Nat
    PROVE  /\ ((hi - lo) \div d) + 1 \in Positive
           /\ lo + k * d + d <= hi <=> k + 1 < ((hi - lo) \div d) + 1
<1> DEFINE len == hi - lo
           q == len \div d
           m == len % d
<1>0. len \in Nat /\ d \in Nat /\ d > 0
  BY DEF Positive
<1>Q. q \in Nat /\ m \in 0..(d - 1) /\ m = len - d * q
  BY <1>0, DivMod
<1> HIDE DEF q, m
<1>1. q \in Nat /\ m \in 0..(d - 1) /\ len = d * q + m
  BY <1>0, <1>Q
<1>2. k * d = d * k /\ d * k \in Nat /\ d * q \in Nat
  BY <1>0, <1>1
<1>3. CASE k < q
  <2>1. d * k + d <= d * q
    BY <1>0, <1>1, <1>3, TimesMonotone
  <2> QED BY <1>0, <1>1, <1>2, <1>3, <2>1 DEF q, Positive
<1>4. CASE k = q
  BY <1>0, <1>1, <1>2, <1>4 DEF q, Positive
<1>5. CASE q < k
  <2>1. d * q + d <= d * k
    BY <1>0, <1>1, <1>5, TimesMonotone
  <2> QED BY <1>0, <1>1, <1>2, <1>5, <2>1 DEF q, Positive
<1> QED
  BY <1>1, <1>3, <1>4, <1>5

-----------------------------------------------------------------------------
(* One more transmission takes r_ and z_ to the next point, and the run is *)
(* complete after the last.                                                *)
LEMMA AdvanceOnGrid ==
    ASSUME RMin <= RMax, ZMin <= ZMax, TypeInv, OnGrid, ~run_complete_, Advance, N' = N + 1
    PROVE  /\ r_' = RMin + (N' % Columns) * DR
           /\ z_' = ZMin + (N' \div Columns) * DZ
           /\ N' \div Columns <= Rows
           /\ run_complete_' <=> N' \div Columns = Rows
           /\ run_complete_' => N' % Columns = 0
<1> DEFINE c == N % Columns
           w == N \div Columns
<1>0. /\ N \in Nat
      /\ RMin \in Nat /\ RMax \in Nat /\ DR \in Positive
      /\ ZMin \in Nat /\ ZMax \in Nat /\ DZ \in Positive
  BY GridAssumption DEF TypeInv, N, Positive
<1>1. Columns \in Positive /\ Rows \in Positive
  BY <1>0, AxisEnd DEF Columns, Rows
<1>2. c \in Nat /\ w \in Nat /\ c + 1 <= Columns
  BY <1>0, <1>1, DivMod DEF Positive
<1>3. IF c + 1 < Columns THEN N' % Columns = c + 1 /\ N' \div Columns = w
      ELSE N' % Columns = 0 /\ N' \div Columns = w + 1
  BY <1>0, <1>1, NextCell
<1>4. r_ = RMin + c * DR /\ z_ = ZMin + w * DZ /\ w <= Rows /\ w # Rows
  BY DEF OnGrid
<1> HIDE DEF c, w
<1>5. RMin + c * DR + DR <= RMax <=> c + 1 < Columns
  BY <1>0, <1>2, AxisEnd DEF Columns
<1>6. ZMin + w * DZ + DZ <= ZMax <=> w + 1 < Rows
  BY <1>0, <1>2, AxisEnd DEF Rows
<1>7. (c + 1) * DR = c * DR + DR /\ (w + 1) * DZ = w * DZ + DZ
  BY <1>0, <1>2, Z3 DEF Positive
<1>8. c * DR \in Nat /\ w * DZ \in Nat /\ DR \in Nat /\ DZ \in Nat
  BY <1>0, <1>2 DEF Positive
<1>9. w + 1 <= Rows /\ Rows \in Nat /\ Columns \in Nat
  BY <1>1, <1>2, <1>4 DEF Positive
<1>10. CASE c + 1 < Columns
  <2>1. r_' = r_ + DR /\ z_' = z_ /\ run_complete_' = run_complete_
    BY <1>4, <1>5, <1>10 DEF Advance
  <2>2. r_' = RMin + (c + 1) * DR
    BY <1>0, <1>4, <1>7, <1>8, <2>1
  <2> QED BY <1>3, <1>4, <1>10, <2>1, <2>2
<1>11. CASE ~(c + 1 < Columns)
  <2>1. /\ r_' = RMin /\ z_' = z_ + DZ
        /\ run_complete_' <=> z_ + DZ > ZMax
    BY <1>4, <1>5, <1>11 DEF Advance
  <2>2. z_' = ZMin + (w + 1) * DZ
    BY <1>0, <1>4, <1>7, <1>8, <2>1
  <2>3. RMin = RMin + 0 * DR
    BY <1>0, <1>8
  <2>4. run_complete_' <=> ~(w + 1 < Rows)
    BY <1>0, <1>4, <1>6, <1>8, <2>1
  <2>5. run_complete_' <=> w + 1 = Rows
    BY <1>2, <1>9, <2>4
  <2> QED BY <1>3, <1>9, <1>11, <2>1, <2>2, <2>3, <2>5
<1> QED
  BY <1>10, <1>11

(* Every step keeps the transmissions on the grid.                         *)
LEMMA NextOnGrid ==
    ASSUME RMin <= RMax, ZMin <= ZMax, TypeInv, OneSlotBehind, OnGrid, [Next]_vars
    PROVE  OnGrid'
<1>1. ASSUME UNCHANGED <<r_, z_, run_complete_, transmitted>> PROVE OnGrid'
  BY <1>1 DEF OnGrid, N
<1>2. CASE Quiet
  BY <1>1, <1>2, QuietStep
<1>3. ASSUME NEW t \in in_water, ReceiveData(t) PROVE OnGrid'
  BY <1>1, <1>3 DEF ReceiveData, grid
<1>4. ASSUME LoopWaits \/ LoopMoves \/ LoopQuits PROVE OnGrid'
  BY <1>1, <1>4 DEF LoopWaits, LoopMoves, LoopQuits, grid
<1>5. ASSUME LoopTransmits PROVE OnGrid'
  <2>1. Transmit /\ Advance /\ ~run_complete_
    BY <1>5 DEF LoopTransmits
  <2>2. /\ N' = N + 1 /\ N \in Nat
        /\ \A i \in 1..N : transmitted'[i] = transmitted[i]
        /\ transmitted'[N + 1].point = <<r_, z_>>
    BY <2>1, Transmitted
  <2>3. <<r_, z_>> = GridPoint(N + 1)
    <3>1. (N + 1) - 1 = N
      BY <2>2
    <3> QED BY <3>1 DEF OnGrid, GridPoint
  <2>4. \A i \in 1..N' : transmitted'[i].point = GridPoint(i)
    <3> SUFFICES ASSUME NEW i \in 1..(N + 1) PROVE transmitted'[i].point = GridPoint(i)
      BY <2>2
    <3>1. CASE i = N + 1
      BY <2>2, <2>3, <3>1
    <3>2. CASE i \in 1..N
      BY <2>2, <3>2 DEF OnGrid
    <3> QED BY <2>2, <3>1, <3>2
  <2>5. /\ r_' = RMin + (N' % Columns) * DR
        /\ z_' = ZMin + (N' \div Columns) * DZ
        /\ N' \div Columns <= Rows
        /\ run_complete_' <=> N' \div Columns = Rows
        /\ run_complete_' => N' % Columns = 0
    BY <2>1, <2>2, AdvanceOnGrid
  <2> QED BY <2>4, <2>5 DEF OnGrid
<1> QED
  BY <1>2, <1>3, <1>4, <1>5, StepKinds DEF loop

(* If the middle of a slot is a call of loop(), every step keeps the       *)
(* manager told in time.                                                   *)
LEMMA NextTold ==
    ASSUME NEW half \in Nat, SlotSeconds * LoopHz = 2 * half,
           TypeInv, OneSlotBehind, Told, [Next]_vars
    PROVE  Told'
<1> DEFINE loops == loops_since_last_transmission_
<1>0. /\ N \in Nat /\ loops \in Nat /\ half > 0
      /\ connected \in BOOLEAN /\ run_complete_ \in BOOLEAN
  <2>1. SlotSeconds * LoopHz > 0
    BY GridAssumption
  <2> QED BY <2>1 DEF TypeInv, N
<1>1. CASE Quiet
  <2>1. /\ UNCHANGED <<loops_since_last_transmission_, r_, z_, run_complete_, transmitted>>
        /\ phase \in {"running", "quit"} => phase' \in {"running", "quit"}
        /\ \/ connected' = connected /\ position' = position
           \/ connected' = FALSE /\ position' = position
           \/ phase' = "running" /\ connected' = TRUE /\ position' = <<r_, z_>>
    BY <1>1, QuietStep
  <2> QED BY <2>1 DEF Told, N
<1>2. ASSUME NEW t \in in_water, ReceiveData(t) PROVE Told'
  BY <1>2 DEF ReceiveData, Told, N, setup, grid
<1>3. ASSUME LoopWaits PROVE Told'
  <2>1. /\ loops_since_last_transmission_' = loops + 1
        /\ AtHalfSlot(loops_since_last_transmission_) => run_complete_
        /\ UNCHANGED <<phase, connected, position, r_, z_, run_complete_, transmitted>>
    BY <1>3 DEF LoopWaits, setup, grid
  <2>2. ~run_complete_ => 2 * loops # 2 * half
    BY <2>1 DEF AtHalfSlot
  <2>3. ~run_complete_ /\ 2 * (loops + 1) > 2 * half => 2 * loops > 2 * half
    BY <1>0, <2>2
  <2> QED BY <2>1, <2>3 DEF Told, N
<1>4. ASSUME LoopMoves PROVE Told'
  <2>1. /\ position' = IF connected THEN <<r_, z_>> ELSE position
        /\ UNCHANGED <<phase, connected, r_, z_, run_complete_, transmitted>>
    BY <1>4 DEF LoopMoves, setup, grid
  <2> QED BY <2>1 DEF Told, N
<1>5. ASSUME LoopTransmits PROVE Told'
  <2>1. /\ Transmit /\ Advance /\ ~run_complete_ /\ Called
        /\ loops = 2 * SlotSeconds * LoopHz
        /\ loops_since_last_transmission_' = 1
        /\ UNCHANGED <<phase, connected, position>>
    BY <1>5 DEF LoopTransmits, AtSlotEnd, setup
  <2>2. /\ N' = N + 1
        /\ \A i \in 1..N : transmitted'[i] = transmitted[i]
        /\ transmitted'[N + 1] = [point |-> <<r_, z_>>, position |-> position,
                                  connected |-> connected]
    BY <2>1, Transmitted
  <2>3. 2 * loops > SlotSeconds * LoopHz
    <3>1. 2 * SlotSeconds * LoopHz = 2 * (SlotSeconds * LoopHz)
      BY GridAssumption
    <3> QED BY <1>0, <2>1, <3>1
  <2>4. connected => position = <<r_, z_>>
    BY <2>1, <2>3 DEF Told
  <2>5. ASSUME NEW i \in 1..(N + 1)
        PROVE  transmitted'[i].connected => transmitted'[i].position = transmitted'[i].point
    <3>1. CASE i = N + 1
      BY <2>2, <2>4, <3>1
    <3>2. CASE i \in 1..N
      BY <2>2, <3>2 DEF Told
    <3> QED BY <1>0, <3>1, <3>2
  <2>6. ~(N' = 0) /\ ~(2 * loops_since_last_transmission_' > SlotSeconds * LoopHz)
    BY <1>0, <2>1, <2>2
  <2>7. connected' => phase' \in {"running", "quit"}
    BY <2>1 DEF Told
  <2> QED BY <2>2, <2>5, <2>6, <2>7 DEF Told
<1>6. ASSUME LoopQuits PROVE Told'
  <2>1. /\ phase' = "quit"
        /\ UNCHANGED <<loops_since_last_transmission_, connected, position, r_, z_,
                       run_complete_, transmitted>>
    BY <1>6 DEF LoopQuits, grid
  <2> QED BY <2>1 DEF Told, N
<1> QED
  BY <1>1, <1>2, <1>3, <1>4, <1>5, <1>6, StepKinds DEF loop

(* What the invariants say together.                                       *)
LEMMA GridSuffices ==
    ASSUME RMin <= RMax, ZMin <= ZMax, TypeInv, OneSlotBehind, OnGrid, Told
    PROVE  GridCovered
<1>0. /\ N \in Nat /\ Len(rx_stats) \in Nat
      /\ RMin \in Nat /\ RMax \in Nat /\ DR \in Positive
      /\ ZMin \in Nat /\ ZMax \in Nat /\ DZ \in Positive
  BY GridAssumption DEF TypeInv, N, Positive
<1>1. Columns \in Positive /\ Rows \in Positive
  BY <1>0, AxisEnd DEF Columns, Rows
<1>2. Columns \in Nat /\ Rows \in Nat
  BY <1>1 DEF Positive
<1> DEFINE c == N % Columns
           w == N \div Columns
<1>3. w \in Nat /\ c \in 0..(Columns - 1) /\ c = N - Columns * w
  BY <1>0, <1>1, DivMod
<1>4. w <= Rows /\ (run_complete_ => w = Rows /\ c = 0) /\ (w = Rows => c = 0)
  BY DEF OnGrid
<1> HIDE DEF c, w
<1>5. Columns * w \in Nat /\ Columns * Rows \in Nat
  BY <1>2, <1>3
<1>6. N <= Columns * Rows
  <2>1. CASE w = Rows
    BY <1>0, <1>2, <1>3, <1>4, <1>5, <2>1
  <2>2. CASE w < Rows
    <3>1. Columns * w + Columns <= Columns * Rows
      BY <1>2, <1>3, <2>2, TimesMonotone
    <3> QED BY <1>0, <1>2, <1>3, <1>5, <3>1
  <2> QED BY <1>2, <1>3, <1>4, <2>1, <2>2
<1>7. run_complete_ => N = Columns * Rows
  BY <1>0, <1>2, <1>3, <1>4, <1>5
<1>8. \A i \in 1..N : /\ transmitted[i].point = GridPoint(i)
                      /\ transmitted[i].connected => transmitted[i].position = GridPoint(i)
  BY DEF OnGrid, Told
<1>9. Len(rx_stats) \in {N - 1, N} \cup {0} /\ \A i \in 1..Len(rx_stats) : i \in 1..N
  BY <1>0 DEF OneSlotBehind
<1>10. \A i \in 1..Len(rx_stats) : rx_stats[i][1] = GridPoint(i)
  BY <1>8, <1>9 DEF OneSlotBehind
<1>11. phase = "quit" => run_complete_ /\ Len(rx_stats) = N
  BY <1>0 DEF OneSlotBehind
<1> QED
  BY <1>6, <1>7, <1>8, <1>9, <1>10, <1>11 DEF GridCovered, N

(* On every grid that is not empty, with a slot whose middle is a call of  *)
(* loop() (which is called 10 times a second), the transmissions visit     *)
(* every point once, range by range and depth by depth, from where the     *)
(* manager has been told the receiver is, and the statistics follow.       *)
THEOREM WholeGridVisited ==
    ASSUME RMin <= RMax, ZMin <= ZMax, NEW half \in Nat, SlotSeconds * LoopHz = 2 * half
    PROVE  Spec => []GridCovered
<1>1. Init => OnGrid /\ Told
  <2> SUFFICES ASSUME Init PROVE OnGrid /\ Told
    OBVIOUS
  <2>0. /\ RMin \in Nat /\ RMax \in Nat /\ DR \in Positive
        /\ ZMin \in Nat /\ ZMax \in Nat /\ DZ \in Positive
    BY GridAssumption DEF Positive
  <2>1. Columns \in Positive /\ Rows \in Positive
    BY <2>0, AxisEnd DEF Columns, Rows
  <2>2. Columns \in Nat /\ Rows \in Nat /\ Columns > 0 /\ Rows > 0
    BY <2>1 DEF Positive
  <2>3. Columns * 0 = 0 /\ 0 * DR = 0 /\ 0 * DZ = 0
    BY <2>0, <2>2 DEF Positive
  <2>4. 0 \div Columns = 0 /\ 0 % Columns = 0
    BY <2>1, <2>2, <2>3, DivModUnique
  <2>5. N = 0 /\ run_complete_ = FALSE /\ connected = FALSE /\ r_ = RMin /\ z_ = ZMin
    BY DEF Init, N
  <2>6. 1..N = {}
    BY <2>5
  <2>7. Told
    BY <2>5, <2>6 DEF Told
  <2>8. OnGrid
    BY <2>0, <2>2, <2>3, <2>4, <2>5, <2>6 DEF OnGrid
  <2> QED BY <2>7, <2>8
<1>2. TypeInv /\ OneSlotBehind /\ OnGrid /\ Told /\ [Next]_vars => OnGrid' /\ Told'
  BY NextOnGrid, NextTold
<1>3. TypeInv /\ OneSlotBehind /\ OnGrid /\ Told => GridCovered
  BY GridSuffices
<1> QED
  BY <1>1, <1>2, <1>3, BehindHolds, PTL DEF Spec
=============================================================================
