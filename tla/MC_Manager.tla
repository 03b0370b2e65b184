---------------------------- MODULE MC_Manager ----------------------------
(* Two vehicles, 1 on host "a" and 2 on host "b", in two environments; two  *)
(* endpoints on "a", one on "b".                                            *)
EXTENDS Manager

MCEndpoints == {<<"a", 1>>, <<"a", 2>>, <<"b", 1>>}

Bound(e, lo, hi) == [environment |-> e, min |-> lo, max |-> hi]
Pair(p, a, e) == [port |-> p, address |-> a, environment |-> e]
MCConfigs ==
    {[env_bounds |-> <<Bound(10, 0, 4), Bound(20, 3, 9)>>,
      sim_env_pair |-> <<Pair(1, "a", 10), Pair(2, "b", 20)>>],
     [env_bounds |-> <<Bound(10, 0, 4)>>,
      sim_env_pair |-> <<Pair(1, "a", 10), Pair(2, "b", 20)>>]}

Nav(p, x) == [port |-> p, position |-> x, complete |-> TRUE]
Req(navs, s) == [type |-> "NetSimManagerRequest", nav |-> navs, stats |-> s]
MCLines ==
    {Req(<<Nav(1, 4), Nav(3, 3), Nav(1, 3)>>, TRUE),
     Req(<<[port |-> 1, position |-> 1, complete |-> FALSE], Nav(1, 2)>>, FALSE),
     Req(<<Nav(2, 9), Nav(2, 2)>>, FALSE),
     [type |-> "other", nav |-> <<>>, stats |-> FALSE]}
===========================================================================
