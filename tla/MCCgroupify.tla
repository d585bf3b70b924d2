---------------------------- MODULE MCCgroupify ----------------------------
(* Three pids, of which one is a process of the unit at the start. *)
EXTENDS Cgroupify

CONSTANTS p1, p2, p3

ThreePids == {p1, p2, p3}
One       == {{p1}}
=============================================================================
