-------------------------- MODULE MCSpawnReservation --------------------------
(* Model values for the spawn reservation. *)
EXTENDS SpawnReservation

CONSTANTS c1, c2, c3, w1

=============================================================================
