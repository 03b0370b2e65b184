------------------------------ MODULE BellhopEnv ------------------------------
(***************************************************************************)
(* The environment of a ray trace, netsim.bellhop.protobuf.Environment,    *)
(* and what Environment::output_env (acousticstoolbox/environment.cpp)     *)
(* writes of it for bellhop.exe.                                           *)
(*                                                                         *)
(* Of an environment only the water columns are told apart: a column is    *)
(* its sound speed samples, the coefficients of its EOFs and its           *)
(* bathymetry.  Depths are natural numbers, Metre of them to the metre;    *)
(* the surface, the bottom and the beams are copied from one into the      *)
(* other and left out, and so is the layout of the files.                  *)
(***************************************************************************)
EXTENDS Integers, Sequences, SequencesExt

CONSTANT Metre
ASSUME MetreAssumption == Metre \in Nat \ {0}

\* The sound speed of a sample with the first m EOFs of its column added.
SspWith(s, coef, m) ==
    s.cp + MapThenSumSet(LAMBDA j : s.eof[j] * coef[j], 1..Min({m, Len(coef)}))
Ssp(s, coef) == SspWith(s, coef, Len(s.eof))

SspMap_FirstWins(col) ==
    [d \in {col.sample[i].depth : i \in DOMAIN col.sample} |->
        Ssp(col.sample[Min({i \in DOMAIN col.sample : col.sample[i].depth = d})],
            col.eof_coef)]

\* depth_ssp_map: of several samples with the same depth the last one counts.
SspMap(col) ==
    [d \in {col.sample[i].depth : i \in DOMAIN col.sample} |->
        Ssp(col.sample[Max({i \in DOMAIN col.sample : col.sample[i].depth = d})],
            col.eof_coef)]

\* The map's keys in its order.
Depths(col) == SetToSortSeq(DOMAIN SspMap(col), <)

\* k_bathy_max: the first of the columns with the greatest bathymetry.
KBathyMax(cols) ==
    Min({k \in DOMAIN cols : \A j \in DOMAIN cols : cols[j].bathymetry <= cols[k].bathymetry})

\* deepest_ssp_dep: the deepest column's depths, cut off to whole metres.
DeepestSspDep(cols) ==
    LET d == Depths(cols[KBathyMax(cols)]) IN [i \in DOMAIN d |-> d[i] \div Metre]

\* Every depth of a column but its deepest is compared with the grid's.
OffGrid(cols, k) ==
    LET d == Depths(cols[k])
        grid == DeepestSspDep(cols)
    IN  \E i \in 1..(Len(d) - 1) : i <= Len(grid) /\ d[i] \div Metre # grid[i]

\* A column with more depths than the grid indexes deepest_ssp_dep and its row
\* past their ends, unless the loop has thrown before.
GridOverrun(cols) ==
    /\ Len(cols) > 1
    /\ \E k \in DOMAIN cols :
          /\ Len(Depths(cols[k])) > Len(DeepestSspDep(cols))
          /\ \A j \in 1..k : ~OffGrid(cols, j)

\* "SSP grid must have same depths for all ranges"
GridThrows(cols) ==
    /\ Len(cols) > 1
    /\ \E k \in DOMAIN cols : OffGrid(cols, k)
    /\ ~GridOverrun(cols)

\* rd_ssp_mat[k]: as long as the deepest column has samples, filled up with the
\* column's deepest value.
Row(cols, k) ==
    LET d == Depths(cols[k])
        m == SspMap(cols[k])
    IN  [i \in 1..Len(cols[KBathyMax(cols)].sample) |->
            IF i <= Len(d) THEN m[d[i]] ELSE m[d[Len(d)]]]

\* What the .env and .ssp files hold.
EnvFile(cols) ==
    [ssp |-> SspMap(cols[KBathyMax(cols)]),
     grid |-> IF Len(cols) > 1 THEN [k \in DOMAIN cols |-> Row(cols, k)] ELSE <<>>]
=============================================================================
