---------------------------- MODULE MC_IBellhop ----------------------------
(* A profile of two samples with an EOF each; the vehicles "auv" and "tgt",   *)
(* named in either case.  Depths in half metres.  The second request of "b"  *)
(* has columns whose depths do not agree.                                    *)
EXTENDS IBellhop

S(d, c) == [depth |-> d, cp |-> c, eof |-> <<>>]
E(d, c, e) == [depth |-> d, cp |-> c, eof |-> <<e>>]
Col(samples, b) == [sample |-> samples, eof_coef |-> <<>>, bathymetry |-> b]

MCColumns == <<[sample |-> <<E(4, 6, 1), E(0, 5, 1)>>, eof_coef |-> <<1>>, bathymetry |-> 4]>>

MCLower == "AUV" :> "auv" @@ "auv" :> "auv" @@ "TGT" :> "tgt" @@ "tgt" :> "tgt"

MCSspUpdates ==
    {[depth |-> <<4, 2, 2>>, c |-> <<7, 3, 8>>],
     [depth |-> <<8, 0, 6>>, c |-> <<2, 0, 9>>],
     [depth |-> <<0, 4>>, c |-> <<9, 3>>],
     [depth |-> <<2, 6>>, c |-> <<7>>]}

MCReports == {[name |-> "TGT", fields |-> [y |-> 3, time |-> 0]]}
MCNavUpdates == {[var |-> "y", value |-> 1], [var |-> "depth", value |-> 2]}

R(who, action, cols, type, shd) ==
    [requestor |-> who, action |-> action, columns |-> cols, type |-> type,
     read_shd |-> shd, ownship |-> "AUV", contact |-> "TGT",
     auto_receiver_ranges |-> FALSE, auto_source_depth |-> FALSE,
     look_ahead_seconds |-> 2, number_in_depth |-> 1, number_in_range |-> 1,
     range |-> 5, delta |-> 1, source_depth |-> 1]

MCRequests ==
    {R("a", "MERGE_SAMPLES", <<Col(<<S(2, 4), S(4, 1)>>, 0)>>, "COHERENT_PRESSURE", TRUE),
     R("b", "OVERWRITE", <<Col(<<S(0, 4), S(3, 5), S(4, 6)>>, 4),
                           Col(<<S(0, 3), S(2, 2)>>, 2)>>, "INCOHERENT_PRESSURE", TRUE),
     R("b", "OVERWRITE", <<Col(<<S(0, 4), S(3, 5), S(4, 6)>>, 4),
                           Col(<<S(0, 3), S(4, 2), S(6, 1)>>, 2)>>, "RAYS", FALSE),
     R("b", "MERGE_WATER_COLUMNS", <<Col(<<S(0, 3), S(2, 4)>>, 6)>>, "RAYS", TRUE),
     [R("a", "MERGE_SAMPLES", <<>>, "ARRIVAL_TIMES", FALSE)
        EXCEPT !.auto_receiver_ranges = TRUE, !.auto_source_depth = TRUE],
     [R("a", "MERGE_SAMPLES", <<>>, "RAYS", FALSE)
        EXCEPT !.number_in_depth = 3, !.number_in_range = 3]}
===========================================================================
