----------------------------- MODULE MCApproach -----------------------------
(* Values for the constants of Approach: nothing in sight, the cube, and    *)
(* something behind the track; two retries instead of twenty.  A step is    *)
(* the way in 100 ms, so crane_task drives on for two.                      *)
EXTENDS Approach

(* tof_get_average_distance without failed readings: 0 if most readings saw *)
(* nothing, otherwise between the nearest and the farthest.                 *)
ASSUME \A r \in [1..3 -> 0..4] :
  LET seen == {i \in 1..3 : r[i] # 0} IN
  IF Cardinality(seen) < 2 THEN Average(r) = 0
  ELSE \E i, j \in seen : r[i] <= Average(r) /\ Average(r) <= r[j]
=============================================================================
