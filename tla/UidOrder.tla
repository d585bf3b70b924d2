------------------------------ MODULE UidOrder ------------------------------
(***************************************************************************)
(* uid_cmp of src/utils.c, by which the daemon's lists of users are sorted *)
(* (r-sd-login.c) and searched (r-manager.c).  It takes the difference of  *)
(* two unsigned 32 bit numbers for a signed one, so it is an order only    *)
(* among uids that are less than 2^31 apart.                               *)
(***************************************************************************)
EXTENDS Integers, Sequences, FiniteSetsExt

CONSTANT Half   \* 2^31

ASSUME HalfAssumption == Half \in Nat \ {0}

Word == 2 * Half
Uids == 0..(Word - 1)

(* Mutant: the difference passes through a narrower integer. *)
uid_cmp_narrow(a, b) == ((a - b + (Half \div 2)) % Half) - (Half \div 2)

(* The difference modulo 2^32, read as a signed number. *)
uid_cmp(a, b) == LET d == a - b IN
  IF d >= Half THEN d - Word ELSE IF d < -Half THEN d + Word ELSE d

(* A user is put behind those that compare smaller. *)
Insert(u, array) ==
  LET before == Cardinality({i \in 1..Len(array) : uid_cmp(array[i], u) < 0})
  IN SubSeq(array, 1, before) \o <<u>> \o SubSeq(array, before + 1, Len(array))

(* The array of these users, once g_array_sort has been through it. *)
Sorted(S) == FoldSet(Insert, <<>>, S)

(***************************************************************************)
(* g_array_binary_search, GLib's, on such an array.                        *)
(***************************************************************************)
BinarySearch(array, target) ==
  LET N == Len(array)
      find[half \in (1..(N + 1)) \X (0..N)] ==
        LET l == half[1]
            r == half[2]
            middle == l + (r - l) \div 2
            val == uid_cmp(array[middle], target)
        IN /\ l <= r
           /\ \/ val = 0
              \/ val < 0 /\ find[<<middle + 1, r>>]
              \/ val > 0 /\ find[<<l, middle - 1>>]
  IN find[<<1, N>>]

InRange(k) == {u \in Uids : k <= u /\ u < k + Half}

(* The searches among uids less than 2^31 apart find the users in the array. *)
FindsMembers ==
  \A k \in Uids : \A S \in SUBSET InRange(k) : \A u \in InRange(k) :
    BinarySearch(Sorted(S), u) <=> u \in S
=============================================================================
