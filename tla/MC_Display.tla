----------------------------- MODULE MC_Display -----------------------------
(***************************************************************************)
(* Two sessions and two modems in two environments, each with its gateway. *)
(***************************************************************************)
EXTENDS Display

TwoPairs == <<[modem_tcp_port |-> 62000, environment |-> 0],
              [modem_tcp_port |-> 62001, environment |-> 1]>>

SomeReports == {[kind |-> "PACKET_START", modem |-> 1],
                [kind |-> "nav", port |-> 62000],
                [kind |-> "stats", tx |-> 62000, rx |-> 62001]}
=============================================================================
