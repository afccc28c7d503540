------------------------------ MODULE MCCannon ------------------------------
(* Cannon with the constants of MCCannon_race.cfg. *)
EXTENDS Cannon
=============================================================================
