------------------------------ MODULE Averages ------------------------------
(***************************************************************************)
(* The average over several distances (src/src/tof.c), as crane_task and   *)
(* stop_task use it.                                                       *)
(***************************************************************************)
EXTENDS Integers, Sequences, FiniteSets, Functions

\* tof_get_average_distance over the distances tof_get_distance returned:
\* zeros are counted, not added; a -1 is added.  C divides towards zero.
Average(r) ==
  LET none == Cardinality({i \in DOMAIN r : r[i] = 0})
      sum  == FoldFunction(+, 0, r)
      n    == Len(r) - none
  IN  IF none > Len(r) \div 2 THEN 0
      ELSE IF sum >= 0 THEN sum \div n ELSE -((-sum) \div n)
=============================================================================
