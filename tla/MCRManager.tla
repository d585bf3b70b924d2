---------------------------- MODULE MCRManager ----------------------------
(* Two or three users; two active ones reach the limit of user.slice. *)
EXTENDS RManager, TLC

CONSTANTS alice, bob, carol

OneUser    == {alice}
TwoUsers   == {alice, bob}
ThreeUsers == {alice, bob, carol}
Symmetry   == Permutations(Users)
=============================================================================
