--------------------------- MODULE MCObstacleScan ----------------------------
(* Readings for TLC: behind the calibrated zero, at the threshold, above. *)
EXTENDS ObstacleScan

MCProximity == {-7, OBSTACLE_THRESHOLD, OBSTACLE_THRESHOLD + 1}
=============================================================================
