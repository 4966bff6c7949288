---------------------- MODULE MCScheduleMaterialization ----------------------
(* A small instance of ScheduleMaterialization for TLC: two dates of two     *)
(* ticks, a schedule that may start in either of them.                       *)
EXTENDS ScheduleMaterialization

Moments == {0, 1}
=============================================================================
