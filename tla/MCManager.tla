----------------------------- MODULE MCManager -----------------------------
(* Two users, uids of four bits, and files with amounts of six bits.       *)
EXTENDS MCRManager, ManagerData

TwoUids == [u \in TwoUsers |-> IF u = alice THEN 1 ELSE Half]

Numbers == {-1, 0, 1, 3, 4, 5, 7, 31, 40}
Entries == [number : Numbers, unit : Suffixes]
TwoKeyFiles ==
  UNION {[keys -> Entries] : keys \in {K \in SUBSET ConfigKeys : Cardinality(K) <= 2}}
=============================================================================
