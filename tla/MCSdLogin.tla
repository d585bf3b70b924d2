---------------------------- MODULE MCSdLogin ----------------------------
(* Two graphical seats and one that is not; alice has a session on each    *)
(* graphical seat, bob one on the first, carol one on the text seat.       *)
EXTENDS SdLogin

CONSTANTS alice, bob, carol, seat0, seat1, tty, a0, a1, b0, c9

MCUsers    == {alice, bob, carol}
MCSeats    == {seat0, seat1, tty}
MCGraphicalSeats == {seat0, seat1}
MCSessions == {a0, a1, b0, c9}
MCOwner    == [s \in MCSessions |-> CASE s \in {a0, a1} -> alice
                                      [] s = b0 -> bob
                                      [] s = c9 -> carol]
MCSeatOf   == [s \in MCSessions |-> CASE s \in {a0, b0} -> seat0
                                      [] s = a1 -> seat1
                                      [] s = c9 -> tty]
=============================================================================
