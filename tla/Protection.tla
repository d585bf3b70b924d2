----------------------------- MODULE Protection -----------------------------
(***************************************************************************)
(* What the system daemon promises, without saying how: the users who sit  *)
(* at the machine have their slices protected.                             *)
(*                                                                         *)
(* The daemon learns of a user late and acts later still, so a slice may   *)
(* become protected when its user has left already.  "owed" are the users  *)
(* somebody still remembers as being there: a user is remembered while     *)
(* seated, may be forgotten once away, and is not protected out of the     *)
(* blue after that.                                                        *)
(***************************************************************************)
CONSTANT Users

VARIABLES
  seated,    \* users with an active graphical session
  protected, \* users whose slice is protected
  owed       \* users whose slice may still become protected

vars == <<seated, protected, owed>>

Init ==
  /\ seated \in SUBSET Users
  /\ protected = {}
  /\ owed = seated

(* Users are forgotten only when they have left. *)
Remember == owed' \in {O \in SUBSET (owed \cup seated') : seated' \subseteq O}

SeatsChange ==
  /\ seated' \in SUBSET Users
  /\ Remember
  /\ UNCHANGED protected

Protect(u) ==
  /\ u \in owed
  /\ protected' = protected \cup {u}
  /\ UNCHANGED seated
  /\ Remember

Release(u) ==
  /\ protected' = protected \ {u}
  /\ UNCHANGED seated
  /\ Remember

Next == SeatsChange \/ \E u \in Users : Protect(u) \/ Release(u)

Spec == Init /\ [][Next]_vars
=============================================================================
