---------------------------- MODULE MCSystemDaemon ----------------------------
(* Two users, each with a session on a seat of the user's own. *)
EXTENDS SystemDaemon

CONSTANTS alice, bob, seat0, seat1, a0, b1

MCUsers    == {alice, bob}
MCSeats    == {seat0, seat1}
MCSessions == {a0, b1}
MCOwner    == [s \in MCSessions |-> IF s = a0 THEN alice ELSE bob]
MCSeatOf   == [s \in MCSessions |-> IF s = a0 THEN seat0 ELSE seat1]

(* Alice is there, bob may come, and neither has a user daemon yet. *)
AliceInit ==
  /\ session = [s \in MCSessions |-> IF s = a0 THEN "active" ELSE "online"]
  /\ sysGraphical = {}
  /\ SystemInit

AliceFirst == AliceInit /\ [][SystemNext]_systemVars /\ SystemFairness
===============================================================================
