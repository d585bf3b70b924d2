----------------------------- MODULE ManagerData -----------------------------
(***************************************************************************)
(* What RManager leaves out of the manager's data: its lists of users are  *)
(* sorted arrays of uids that are searched, and the amounts come from a    *)
(* file.                                                                   *)
(***************************************************************************)
EXTENDS RManager, UidOrder, ManagerConfig

CONSTANTS
  UidOf,  \* the users' uids
  Files   \* what uresourced.conf may say

ASSUME DataAssumption ==
  /\ \E k \in Uids : UidOf \in [Users -> InRange(k)]
  /\ \A u, v \in Users : UidOf[u] = UidOf[v] => u = v
  /\ \A file \in Files : IsManagerFile(file)

Found == [S \in SUBSET Users |->
            {u \in Users : BinarySearch(Sorted({UidOf[v] : v \in S}), UidOf[u])}]

(***************************************************************************)
(* The searches of updat_user_allocations find the users that are in a     *)
(* list and no others - which is why RManager can take the arrays for sets *)
(* - as long as all uids are less than 2^31 apart: the manager's lists,    *)
(* and any list in any such range of uids.                                 *)
(***************************************************************************)
SearchIsMembership ==
  /\ \A list \in {graphical_users, all_users, login_graphical, login_all} :
       Found[list] = list
  /\ FindsMembers

Documented == [n \in 0..Cardinality(Users) |-> \A file \in Files : AsDocumented(file, n)]

(***************************************************************************)
(* Whatever the file has: with as many users as are graphical now          *)
(* user.slice is given what the file's comments say.                       *)
(***************************************************************************)
ShareAsDocumented == Documented[Cardinality(login_graphical)]
=============================================================================
