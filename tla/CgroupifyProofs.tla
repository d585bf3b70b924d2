-------------------------- MODULE CgroupifyProofs --------------------------
(***************************************************************************)
(* cgroupify loses neither a subgroup nor an event source, and no fork or  *)
(* exit makes it fail, for any number of processes, any buffer and any     *)
(* number of forks and watches that cannot be had.                         *)
(***************************************************************************)
EXTENDS Cgroupify, FiniteSetTheorems, TLAPS

(* A buffer of cgroup.procs holds distinct processes of the group, and is  *)
(* empty only if the group is.                                             *)
LEMMA ListingsType ==
  ASSUME NEW g, NEW list \in Listings(g)
  PROVE  /\ list \in Seq(Pids)
         /\ \A i \in 1..Len(list) : where[list[i]] = g
         /\ \A i, j \in 1..Len(list) : list[i] = list[j] => i = j
         /\ list = <<>> => ~Populated(g)
<1> DEFINE n == Fitting(Cardinality(InGroup(g)))
<1>1. InGroup(g) \subseteq Pids /\ IsFiniteSet(InGroup(g))
  BY FS_Subset, CgroupifyAssumption DEF InGroup
<1>2. Cardinality(InGroup(g)) \in Nat
  BY <1>1, FS_CardinalityType
<1>3. n \in Nat /\ (n = 0 => Cardinality(InGroup(g)) = 0)
  BY <1>2, CgroupifyAssumption DEF Fitting
<1> HIDE DEF n
<1>4. list \in [1..n -> InGroup(g)]
  BY DEF Listings, n
<1>5. list \in Seq(InGroup(g)) /\ Len(list) = n /\ DOMAIN list = 1..n
  BY <1>3, <1>4
<1>6. list \in Seq(Pids)
  BY <1>1, <1>3, <1>4
<1>7. ASSUME NEW i \in 1..Len(list)
      PROVE  where[list[i]] = g
  BY <1>4, <1>5, <1>7 DEF InGroup
<1>8. \A i, j \in 1..Len(list) : list[i] = list[j] => i = j
  BY <1>5 DEF Listings
<1>9. ASSUME list = <<>>
      PROVE  ~Populated(g)
  <2>1. n = 0
    BY <1>5, <1>9, <1>3
  <2>2. InGroup(g) = {}
    BY <2>1, <1>3, <1>1, FS_EmptySet
  <2>3. QED
    BY <2>2 DEF InGroup, Populated
<1>10. QED
  BY <1>6, <1>7, <1>8, <1>9

LEMMA InitType == Init => TypeOK
<1> SUFFICES ASSUME Init
             PROVE  TypeOK
  OBVIOUS
<1>1. used \subseteq Pids
  BY CgroupifyAssumption DEF Init
<1>2. where \in [Pids -> Groups \cup {gone}]
  BY DEF Init, Groups
<1>3. forks \in 0..MaxForks /\ failures \in 0..MaxFailures
  BY CgroupifyAssumption DEF Init
<1>4. todo \in Seq(Pids)
  <2>1. <<>> \in Seq(Pids)
    OBVIOUS
  <2>2. QED
    BY <2>1 DEF Init
<1>5. /\ used \in SUBSET Pids /\ reused \in SUBSET used
      /\ dirs \in SUBSET Pids /\ unitUp \in BOOLEAN
      /\ watch \in SUBSET Pids /\ pending \in SUBSET watch
  BY <1>1 DEF Init
<1>6. /\ pc = "open" /\ sub \in Groups /\ found \in BOOLEAN /\ cur \in Groups
      /\ failed \in BOOLEAN /\ clashed \in BOOLEAN /\ namelist \in SUBSET Pids
  BY DEF Init, Groups
<1>7. QED
  BY <1>2, <1>3, <1>4, <1>5, <1>6 DEF TypeOK

LEMMA StepType == TypeOK /\ [Next]_vars => TypeOK'
<1> SUFFICES ASSUME TypeOK, [Next]_vars
             PROVE  TypeOK'
  OBVIOUS
<1> USE DEF TypeOK, Groups, kernelVars, eventVars, passVars, moveVars, counters
<1>1. ASSUME NEW p \in Pids, NEW child \in Pids, Fork(p, child)
      PROVE  TypeOK'
  <2>1. forks' \in 0..MaxForks
    BY <1>1, CgroupifyAssumption DEF Fork
  <2>2. QED
    BY <1>1, <2>1 DEF Fork
<1>2. ASSUME NEW p \in Pids, Exit(p)
      PROVE  TypeOK'
  BY <1>2 DEF Exit, Modified
<1>3. CASE UnitRemoved
  BY <1>3 DEF UnitRemoved, Modified
<1>4. CASE OpenProcs
  BY <1>4 DEF OpenProcs, Returned
<1>5. CASE ReadProcs
  <2>1. todo' \in Seq(Pids) /\ found' \in BOOLEAN
    BY <1>5, ListingsType DEF ReadProcs
  <2>2. QED
    BY <1>5, <2>1 DEF ReadProcs
<1>6. CASE EndOfRound
  BY <1>6 DEF EndOfRound, Returned
<1>7. CASE SkipOwner
  BY <1>7 DEF SkipOwner
<1>8. CASE MkdirAt
  <2>1. Head(todo) \in Pids /\ todo' \in Seq(Pids)
    BY <1>8 DEF MkdirAt
  <2>2. QED
    BY <1>8, <2>1 DEF MkdirAt, Returned
<1>9. CASE AddInotify
  <2>1. failures' \in 0..MaxFailures
    BY <1>9, CgroupifyAssumption DEF AddInotify
  <2>2. watch' \in SUBSET Pids /\ pending' \in SUBSET watch'
    BY <1>9, CgroupifyAssumption DEF AddInotify
  <2>3. QED
    BY <1>9, <2>1, <2>2 DEF AddInotify
<1>10. CASE WriteProcs
  BY <1>10 DEF WriteProcs, Modified
<1>11. CASE UnlinkAt
  BY <1>11 DEF UnlinkAt, DisableUnref, Returned
<1>12. CASE EnableMemory
  BY <1>12 DEF EnableMemory
<1>13. CASE NextSubgroup
  BY <1>13 DEF NextSubgroup
<1>14. CASE Rmdir
  BY <1>14 DEF Rmdir, DisableUnref
<1>15. CASE TimerFires
  BY <1>15 DEF TimerFires
<1>16. ASSUME NEW d \in Pids, SubgroupInotifyCb(d)
       PROVE  TypeOK'
  BY <1>16 DEF SubgroupInotifyCb
<1>17. CASE UNCHANGED vars
  BY <1>17 DEF vars
<1>18. QED
  BY <1>1, <1>2, <1>3, <1>4, <1>5, <1>6, <1>7, <1>8, <1>9, <1>10, <1>11,
     <1>12, <1>13, <1>14, <1>15, <1>16, <1>17 DEF Next, Step, Kernel

(* Every variable of cgroupify keeps its type. *)
THEOREM TypeCorrect == Spec => []TypeOK
<1>1. Init => TypeOK
  BY InitType
<1>2. TypeOK /\ [Next]_vars => TypeOK'
  BY StepType
<1>3. QED
  BY <1>1, <1>2, PTL DEF Spec

-----------------------------------------------------------------------------
(***************************************************************************)
(* NoLeak says nothing about the subgroup in hand, so it needs what each   *)
(* system call leaves behind for the next one.  A subgroup in the making   *)
(* is empty, whoever forks or exits, so that unlinkat will remove it; one  *)
(* that may hold a process is watched.  And a process is only in subgroups *)
(* that exist.                                                             *)
(***************************************************************************)
Placed == \A p \in Pids : where[p] \in Pids => where[p] \in dirs

Making == pc \in {"watch", "write"} \/ (pc = "unlink" /\ failed)
Made   == pc \in {"write", "rmdir"} \/ (pc = "unlink" /\ ~failed)

InHand ==
  /\ Making \/ Made => cur \in Pids
  /\ Making => ~Populated(cur)
  /\ Made => cur \in watch

LeakInv == TypeOK /\ NoLeak /\ Placed /\ InHand

(* What the kernel does between two system calls. *)
LEMMA ForkLeak ==
  ASSUME LeakInv, NEW p \in Pids, NEW child \in Pids, Fork(p, child)
  PROVE  NoLeak' /\ Placed' /\ InHand'
<1> USE DEF kernelVars, eventVars, passVars, moveVars
<1>1. /\ where' = [where EXCEPT ![child] = where[p]]
      /\ where[p] # gone /\ where[child] = gone
      /\ UNCHANGED <<dirs, watch, pending, pc, cur, failed>>
  BY DEF Fork, Alive
<1>2. where \in [Pids -> Groups \cup {gone}]
  BY DEF LeakInv, TypeOK
<1>3. \A g \in Groups : Populated(g)' <=> Populated(g)
  BY <1>1, <1>2, CgroupifyAssumption DEF Populated, Groups
<1>4. cur \in Groups /\ Pids \subseteq Groups
  BY DEF LeakInv, TypeOK, Groups
<1>5. NoLeak'
  BY <1>1, <1>3, <1>4 DEF LeakInv, NoLeak, Busy
<1>6. Placed'
  BY <1>1, <1>2 DEF LeakInv, Placed
<1>7. InHand'
  BY <1>1, <1>3, <1>4 DEF LeakInv, InHand, Making, Made
<1>8. QED
  BY <1>5, <1>6, <1>7

LEMMA ExitLeak ==
  ASSUME LeakInv, NEW p \in Pids, Exit(p)
  PROVE  NoLeak' /\ Placed' /\ InHand'
<1> USE DEF kernelVars, eventVars, passVars, moveVars
<1>1. /\ where' = [where EXCEPT ![p] = gone]
      /\ UNCHANGED <<dirs, watch, pc, cur, failed>>
      /\ pending \subseteq pending'
      /\ \A g \in watch : Populated(g) /\ ~Populated(g)' => g \in pending'
  BY CgroupifyAssumption DEF Exit, Modified, Populated, LeakInv, TypeOK, Groups
<1>2. where \in [Pids -> Groups \cup {gone}] /\ cur \in Groups
  BY DEF LeakInv, TypeOK
<1>3. \A g \in Groups : Populated(g)' => Populated(g)
  BY <1>1, <1>2, CgroupifyAssumption DEF Populated, Groups
<1>4. NoLeak'
  BY <1>1, <1>3 DEF LeakInv, NoLeak, Busy
<1>5. Placed'
  BY <1>1, <1>2, CgroupifyAssumption DEF LeakInv, Placed
<1>6. InHand'
  BY <1>1, <1>2, <1>3 DEF LeakInv, InHand, Making, Made
<1>7. QED
  BY <1>4, <1>5, <1>6

LEMMA UnitRemovedLeak ==
  ASSUME LeakInv, UnitRemoved
  PROVE  NoLeak' /\ Placed' /\ InHand'
<1> USE DEF kernelVars, eventVars, passVars, moveVars
<1>1. /\ \A p \in Pids : where'[p] = gone
      /\ dirs' = {} /\ pending' = pending \cup (dirs \cap watch)
      /\ UNCHANGED <<where, watch, pc, cur, failed>>
  BY DEF UnitRemoved, Modified, Alive
<1>2. NoLeak'
  BY <1>1 DEF LeakInv, NoLeak, Busy
<1>3. Placed'
  BY <1>1, CgroupifyAssumption DEF Placed
<1>4. InHand'
  BY <1>1 DEF LeakInv, InHand, Making, Made, Populated
<1>5. QED
  BY <1>2, <1>3, <1>4

(* The system calls of cgroupify that leave cgroups and event sources alone. *)
LEMMA OtherLeak ==
  ASSUME LeakInv,
         OpenProcs \/ ReadProcs \/ EndOfRound \/ SkipOwner \/ EnableMemory
           \/ TimerFires \/ NextSubgroup
  PROVE  NoLeak' /\ Placed' /\ InHand'
<1>1. /\ UNCHANGED <<where, dirs, watch, pending, cur, failed>>
      /\ pc \notin {"watch", "write", "unlink", "rmdir"}
      /\ pc' \notin {"watch", "write", "unlink", "rmdir"}
  BY DEF OpenProcs, ReadProcs, EndOfRound, SkipOwner, EnableMemory, TimerFires,
         NextSubgroup, Returned, kernelVars, eventVars, passVars, moveVars
<1>2. QED
  BY <1>1 DEF LeakInv, NoLeak, Busy, Placed, InHand, Making, Made, Populated

LEMMA MkdirAtLeak ==
  ASSUME LeakInv, MkdirAt
  PROVE  NoLeak' /\ Placed' /\ InHand'
<1>1. CASE unitUp /\ Head(todo) \notin dirs
  <2>1. /\ UNCHANGED <<where, watch, pending>>
        /\ dirs' = dirs \cup {Head(todo)} /\ cur' = Head(todo)
        /\ pc = "mkdir" /\ pc' = "watch" /\ failed' = FALSE
    BY <1>1 DEF MkdirAt, eventVars
  <2>2. Head(todo) \in Pids
    BY DEF MkdirAt, LeakInv, TypeOK
  <2>3. ~Populated(Head(todo))
    BY <1>1, <2>2 DEF LeakInv, Placed, Populated
  <2>4. NoLeak' /\ Placed'
    BY <2>1 DEF LeakInv, NoLeak, Busy, Placed, Populated
  <2>5. InHand'
    BY <2>1, <2>2, <2>3 DEF InHand, Making, Made, Populated
  <2>6. QED
    BY <2>4, <2>5
<1>2. CASE ~(unitUp /\ Head(todo) \notin dirs)
  <2>1. /\ UNCHANGED <<where, dirs, watch, pending, cur, failed>>
        /\ pc = "mkdir" /\ pc' \notin {"watch", "write", "unlink", "rmdir"}
    BY <1>2 DEF MkdirAt, Returned, eventVars
  <2>2. QED
    BY <2>1 DEF LeakInv, NoLeak, Busy, Placed, InHand, Making, Made, Populated
<1>3. QED
  BY <1>1, <1>2

LEMMA AddInotifyLeak ==
  ASSUME LeakInv, AddInotify
  PROVE  NoLeak' /\ Placed' /\ InHand'
<1> USE DEF kernelVars
<1>1. /\ UNCHANGED <<where, dirs, pending, cur>>
      /\ pc = "watch" /\ cur \in Pids /\ ~Populated(cur)
  BY DEF AddInotify, LeakInv, InHand, Making
<1>2. \/ pc' = "write" /\ watch' = watch \cup {cur}
      \/ pc' = "unlink" /\ failed' /\ watch' = watch
  BY DEF AddInotify
<1>3. NoLeak' /\ Placed'
  BY <1>1, <1>2 DEF LeakInv, NoLeak, Busy, Placed, Populated
<1>4. InHand'
  BY <1>1, <1>2 DEF InHand, Making, Made, Populated
<1>5. QED
  BY <1>3, <1>4

LEMMA WriteProcsLeak ==
  ASSUME LeakInv, WriteProcs
  PROVE  NoLeak' /\ Placed' /\ InHand'
<1>1. /\ UNCHANGED <<dirs, watch, cur>>
      /\ pc = "write" /\ pc' = "unlink" /\ failed' = (cur \notin dirs)
      /\ cur \in Pids /\ cur \in watch /\ ~Populated(cur)
  BY DEF WriteProcs, LeakInv, InHand, Making, Made
<1>2. CASE cur \in dirs /\ Alive(cur)
  <2>1. /\ where' = [where EXCEPT ![cur] = cur]
        /\ pending \subseteq pending'
        /\ \A g \in watch : Populated(g) /\ ~Populated(g)' => g \in pending'
    BY <1>1, <1>2 DEF WriteProcs, Modified, Populated, LeakInv, TypeOK, Groups
  <2>2. \A g \in Groups \ {cur} : Populated(g)' => Populated(g)
    BY <1>1, <2>1 DEF Populated, LeakInv, TypeOK
  <2>3. NoLeak'
    BY <1>1, <2>1, <2>2 DEF LeakInv, NoLeak, Busy
  <2>4. Placed'
    BY <1>1, <1>2, <2>1 DEF LeakInv, Placed, TypeOK
  <2>5. InHand'
    BY <1>1, <1>2 DEF InHand, Making, Made
  <2>6. QED
    BY <2>3, <2>4, <2>5
<1>3. CASE ~(cur \in dirs /\ Alive(cur))
  <2>1. UNCHANGED <<where, pending>>
    BY <1>3 DEF WriteProcs
  <2>2. NoLeak' /\ Placed'
    BY <1>1, <2>1 DEF LeakInv, NoLeak, Busy, Placed, Populated
  <2>3. InHand'
    BY <1>1, <2>1 DEF InHand, Making, Made, Populated
  <2>4. QED
    BY <2>2, <2>3
<1>4. QED
  BY <1>2, <1>3

(* unlinkat and rmdir both reap a subgroup that is empty. *)
LEMMA ReapLeak ==
  ASSUME LeakInv, UnlinkAt \/ Rmdir
  PROVE  NoLeak' /\ Placed' /\ InHand'
<1>1. /\ UNCHANGED <<where, cur, failed>>
      /\ Making \/ Made
      /\ pc' \notin {"watch", "write", "unlink", "rmdir"}
      /\ pc \in {"unlink", "rmdir"}
  BY DEF UnlinkAt, Rmdir, Returned, Making, Made, moveVars
<1>2. cur \in Pids /\ (Populated(cur) => cur \in watch)
  BY <1>1 DEF LeakInv, InHand
<1>3. CASE Populated(cur)
  <2>1. UNCHANGED <<dirs, watch, pending>>
    BY <1>3 DEF UnlinkAt, Rmdir, eventVars
  <2>2. cur \in dirs
    BY <1>2, <1>3 DEF LeakInv, Placed, Populated
  <2>3. NoLeak'
    BY <1>1, <1>2, <1>3, <2>1, <2>2 DEF LeakInv, NoLeak, Busy, Populated
  <2>4. QED
    BY <1>1, <2>1, <2>3 DEF LeakInv, Placed, InHand, Making, Made
<1>4. CASE ~Populated(cur)
  <2>1. /\ dirs' = dirs \ {cur}
        /\ watch' = watch \ {cur} /\ pending' = pending \ {cur}
    BY <1>4 DEF UnlinkAt, Rmdir, DisableUnref
  <2>2. NoLeak'
    BY <1>1, <2>1 DEF LeakInv, NoLeak, Busy, Populated
  <2>3. Placed'
    BY <1>1, <1>2, <1>4, <2>1 DEF LeakInv, Placed, Populated
  <2>4. QED
    BY <1>1, <2>2, <2>3 DEF InHand, Making, Made
<1>5. QED
  BY <1>3, <1>4

LEMMA CallbackLeak ==
  ASSUME LeakInv, NEW d \in Pids, SubgroupInotifyCb(d)
  PROVE  NoLeak' /\ Placed' /\ InHand'
<1>1. /\ UNCHANGED <<where, dirs, watch>>
      /\ d \in pending /\ pending' = pending \ {d} /\ cur' = d
      /\ pc = "idle" /\ pc' = "rmdir"
  BY DEF SubgroupInotifyCb, kernelVars
<1>2. d \in watch
  BY <1>1 DEF LeakInv, TypeOK
<1>3. NoLeak' /\ Placed'
  BY <1>1 DEF LeakInv, NoLeak, Busy, Placed, Populated
<1>4. InHand'
  BY <1>1, <1>2 DEF InHand, Making, Made
<1>5. QED
  BY <1>3, <1>4

LEMMA LeakInvInductive == LeakInv /\ [Next]_vars => LeakInv'
<1> SUFFICES ASSUME LeakInv, [Next]_vars
             PROVE  LeakInv'
  OBVIOUS
<1>1. TypeOK'
  BY StepType DEF LeakInv
<1>2. ASSUME Next
      PROVE  NoLeak' /\ Placed' /\ InHand'
  BY <1>2, ForkLeak, ExitLeak, UnitRemovedLeak, OtherLeak, MkdirAtLeak,
     AddInotifyLeak, WriteProcsLeak, ReapLeak, CallbackLeak
     DEF Next, Step, Kernel
<1>3. ASSUME UNCHANGED vars
      PROVE  NoLeak' /\ Placed' /\ InHand'
  BY <1>3 DEF LeakInv, NoLeak, Busy, Placed, InHand, Making, Made, Populated,
              vars, kernelVars, eventVars, moveVars
<1>4. QED
  BY <1>1, <1>2, <1>3 DEF LeakInv

LEMMA LeakInvInit == Init => LeakInv
<1> SUFFICES ASSUME Init
             PROVE  LeakInv
  OBVIOUS
<1>1. TypeOK
  BY InitType
<1>2. NoLeak /\ InHand
  BY DEF Init, NoLeak, InHand, Making, Made
<1>3. Placed
  BY CgroupifyAssumption DEF Init, Placed
<1>4. QED
  BY <1>1, <1>2, <1>3 DEF LeakInv

(***************************************************************************)
(* No subgroup is forgotten and no event source leaks, in whatever way     *)
(* forks, exits and the end of the unit come between the system calls.     *)
(***************************************************************************)
THEOREM NothingLeaks == Spec => []NoLeak
<1>1. Init => LeakInv
  BY LeakInvInit
<1>2. LeakInv /\ [Next]_vars => LeakInv'
  BY LeakInvInductive
<1>3. LeakInv => NoLeak
  BY DEF LeakInv
<1>4. QED
  BY <1>1, <1>2, <1>3, PTL DEF Spec

-----------------------------------------------------------------------------
(***************************************************************************)
(* Why nothing fails.  A pid given out once that has a subgroup is in it,  *)
(* or gone, so no other group's cgroup.procs lists it, and mkdirat does    *)
(* not meet it again: NameInv.  The rest follows the first pass: its last  *)
(* round found the root empty, and nobody can come back to it.             *)
(***************************************************************************)
Handling == pc \in {"mkdir", "watch", "write", "unlink"}

Past ==
  /\ dirs \subseteq used
  /\ \A p \in Pids : Alive(p) => p \in used
  /\ Handling => \A i \in 1..Len(todo) : todo[i] \in used

Own(p) == where[p] \in {p, gone}

Named ==
  \A p \in Pids \ reused : p \in dirs =>
    /\ Own(p) \/ (Making /\ p = cur)
    /\ Handling /\ p # sub => \A i \in 1..Len(todo) : todo[i] # p

Distinct == \A i, j \in 1..Len(todo) : todo[i] = todo[j] => i = j

NameInv == LeakInv /\ Past /\ Named /\ Distinct

(* The kernel: a pid that is given out again is reused. *)
LEMMA KernelNames ==
  ASSUME NameInv, Kernel
  PROVE  Past' /\ Named' /\ Distinct'
<1> USE DEF kernelVars, eventVars, passVars, moveVars
<1>1. where \in [Pids -> Groups \cup {gone}]
  BY DEF NameInv, LeakInv, TypeOK
<1>2. UNCHANGED <<pc, sub, todo, cur, failed>>
  BY DEF Kernel, Fork, Exit, UnitRemoved
<1>3. ASSUME NEW p \in Pids, NEW child \in Pids, Fork(p, child)
      PROVE  Past' /\ Named'
  <2>1. /\ where' = [where EXCEPT ![child] = where[p]]
        /\ used' = used \cup {child} /\ reused' = reused \cup ({child} \cap used)
        /\ dirs' = dirs
    BY <1>3 DEF Fork
  <2>2. Past'
    BY <1>1, <1>2, <2>1 DEF NameInv, Past, Alive, Handling
  <2>3. Named'
    BY <1>1, <1>2, <2>1 DEF NameInv, Past, Named, Own, Making, Handling
  <2>4. QED
    BY <2>2, <2>3
<1>4. ASSUME NEW p \in Pids, Exit(p)
      PROVE  Past' /\ Named'
  <2>1. where' = [where EXCEPT ![p] = gone] /\ UNCHANGED <<used, reused, dirs>>
    BY <1>4 DEF Exit
  <2>2. QED
    BY <1>1, <1>2, <2>1 DEF NameInv, Past, Named, Alive, Own, Making, Handling
<1>5. ASSUME UnitRemoved
      PROVE  Past' /\ Named'
  <2>1. dirs' = {} /\ UNCHANGED <<where, used, reused>>
    BY <1>5 DEF UnitRemoved
  <2>2. QED
    BY <1>2, <2>1 DEF NameInv, Past, Named, Alive, Handling
<1>6. Distinct'
  BY <1>2 DEF NameInv, Distinct
<1>7. QED
  BY <1>3, <1>4, <1>5, <1>6 DEF Kernel

LEMMA ReadProcsNames ==
  ASSUME NameInv, ReadProcs
  PROVE  Past' /\ Named' /\ Distinct'
<1>1. UNCHANGED <<where, used, reused, dirs, sub, cur, failed>> /\ pc = "read"
  BY DEF ReadProcs, kernelVars, moveVars
<1>2. sub # gone
  BY CgroupifyAssumption DEF NameInv, LeakInv, TypeOK, Groups
<1>3. CASE pc' = "mkdir"
  <2>1. todo' \in Listings(sub)
    BY <1>3 DEF ReadProcs
  <2>2. /\ todo' \in Seq(Pids)
        /\ \A i \in 1..Len(todo') : where[todo'[i]] = sub
        /\ Distinct'
    BY <2>1, ListingsType DEF Distinct
  <2>3. \A i \in 1..Len(todo') : todo'[i] \in Pids
    BY <2>2
  <2>4. Past'
    BY <1>1, <1>2, <2>2, <2>3 DEF NameInv, Past, Alive
  <2>5. Named'
    BY <1>1, <1>2, <1>3, <2>2, <2>3 DEF NameInv, Named, Own, Making
  <2>6. QED
    BY <2>2, <2>4, <2>5
<1>4. CASE pc' = "failed"
  BY <1>1, <1>4 DEF ReadProcs, NameInv, Past, Named, Distinct, Alive, Own,
                    Making, Handling
<1>5. QED
  BY <1>3, <1>4 DEF ReadProcs

LEMMA TailOf ==
  ASSUME NEW s \in Seq(Pids), s # <<>>
  PROVE  /\ Len(Tail(s)) = Len(s) - 1
         /\ \A i \in 1..Len(Tail(s)) : i + 1 \in 1..Len(s) /\ Tail(s)[i] = s[i + 1]
         /\ Head(s) = s[1] /\ 1 \in 1..Len(s)
OBVIOUS

LEMMA SkipOwnerNames ==
  ASSUME NameInv, SkipOwner
  PROVE  Past' /\ Named' /\ Distinct'
<1>1. /\ UNCHANGED <<where, used, reused, dirs, pc, sub, cur, failed>>
      /\ todo' = Tail(todo) /\ todo # <<>> /\ todo \in Seq(Pids)
  BY DEF SkipOwner, kernelVars, moveVars, NameInv, LeakInv, TypeOK
<1>2. Past' /\ Named'
  BY <1>1, TailOf DEF NameInv, Past, Named, Alive, Own, Making, Handling
<1>3. Distinct'
  BY <1>1, TailOf DEF NameInv, Distinct
<1>4. QED
  BY <1>2, <1>3

LEMMA MkdirAtNames ==
  ASSUME NameInv, MkdirAt
  PROVE  Past' /\ Named' /\ Distinct'
<1>1. /\ UNCHANGED <<where, used, reused, sub>> /\ pc = "mkdir"
      /\ todo' = Tail(todo) /\ todo # <<>> /\ todo \in Seq(Pids)
  BY DEF MkdirAt, NameInv, LeakInv, TypeOK
<1>2. Distinct'
  BY <1>1, TailOf DEF NameInv, Distinct
<1>3. ~Making /\ Handling
  BY <1>1 DEF Making, Handling
<1>4. /\ Head(todo) \in used
      /\ \A i \in 1..Len(todo') : todo'[i] \in used /\ todo'[i] # Head(todo)
  BY <1>1, <1>3, TailOf DEF NameInv, Past, Distinct
<1>5. \/ dirs' = dirs \cup {Head(todo)} /\ cur' = Head(todo) /\ Making'
      \/ UNCHANGED dirs
  BY DEF MkdirAt, Making
<1>6. Past'
  BY <1>1, <1>4, <1>5 DEF NameInv, Past, Alive
<1>7. \A p \in Pids \ reused : p \in dirs =>
        Own(p) /\ (p # sub => \A i \in 1..Len(todo') : todo'[i] # p)
  BY <1>1, <1>3, TailOf DEF NameInv, Named
<1>8. Named'
  BY <1>1, <1>4, <1>5, <1>7 DEF Named, Own
<1>9. QED
  BY <1>2, <1>6, <1>8

LEMMA WriteProcsNames ==
  ASSUME NameInv, WriteProcs
  PROVE  Past' /\ Named' /\ Distinct'
<1>1. /\ UNCHANGED <<used, reused, dirs, sub, todo, cur>>
      /\ pc = "write" /\ pc' = "unlink" /\ failed' = (cur \notin dirs)
      /\ \/ where' = [where EXCEPT ![cur] = cur] /\ Alive(cur)
         \/ UNCHANGED where /\ (cur \in dirs => ~Alive(cur))
  BY DEF WriteProcs, passVars
<1>2. where \in [Pids -> Groups \cup {gone}] /\ cur \in Pids
  BY <1>1 DEF NameInv, LeakInv, TypeOK, InHand, Making
<1>3. Past'
  BY <1>1, <1>2 DEF NameInv, Past, Alive, Handling
<1>4. Named'
  BY <1>1, <1>2 DEF NameInv, Named, Alive, Own, Making, Handling
<1>5. Distinct'
  BY <1>1 DEF NameInv, Distinct
<1>6. QED
  BY <1>3, <1>4, <1>5

LEMMA ReapNames ==
  ASSUME NameInv, UnlinkAt \/ Rmdir
  PROVE  Past' /\ Named' /\ Distinct'
<1>1. /\ UNCHANGED <<where, used, reused, sub, todo, cur, failed>>
      /\ ~Making' /\ (Handling' => Handling)
      /\ dirs' = IF Populated(cur) THEN dirs ELSE dirs \ {cur}
  BY DEF UnlinkAt, Rmdir, Returned, Making, Handling, passVars, moveVars
<1>2. Making => ~Populated(cur)
  BY DEF NameInv, LeakInv, InHand
<1>3. Past' /\ Named'
  BY <1>1, <1>2 DEF NameInv, Past, Named, Alive, Own
<1>4. Distinct'
  BY <1>1 DEF NameInv, Distinct
<1>5. QED
  BY <1>3, <1>4

LEMMA OtherNames ==
  ASSUME NameInv,
         OpenProcs \/ EndOfRound \/ AddInotify \/ EnableMemory \/ TimerFires
           \/ NextSubgroup \/ \E d \in Pids : SubgroupInotifyCb(d)
  PROVE  Past' /\ Named' /\ Distinct'
<1>1. /\ UNCHANGED <<where, used, reused, dirs, todo>>
      /\ (Handling' => Handling /\ UNCHANGED sub)
      /\ (Making => Making' /\ UNCHANGED cur)
  BY DEF OpenProcs, EndOfRound, AddInotify, EnableMemory, TimerFires,
         NextSubgroup, SubgroupInotifyCb, Returned, Making, Handling,
         kernelVars, passVars, moveVars
<1>2. QED
  BY <1>1 DEF NameInv, Past, Named, Distinct, Alive, Own

LEMMA NameInvInductive == NameInv /\ [Next]_vars => NameInv'
<1> SUFFICES ASSUME NameInv, [Next]_vars
             PROVE  NameInv'
  OBVIOUS
<1>1. LeakInv'
  BY LeakInvInductive DEF NameInv
<1>2. ASSUME Next
      PROVE  Past' /\ Named' /\ Distinct'
  BY <1>2, KernelNames, ReadProcsNames, SkipOwnerNames, MkdirAtNames,
     WriteProcsNames, ReapNames, OtherNames DEF Next, Step
<1>3. ASSUME UNCHANGED vars
      PROVE  Past' /\ Named' /\ Distinct'
  BY <1>3 DEF NameInv, Past, Named, Distinct, Alive, Own, Making, Handling,
              vars, kernelVars, passVars, moveVars
<1>4. QED
  BY <1>1, <1>2, <1>3 DEF NameInv

LEMMA NameInvInit == Init => NameInv
<1> SUFFICES ASSUME Init
             PROVE  NameInv
  OBVIOUS
<1>1. LeakInv
  BY LeakInvInit
<1>2. Past /\ Named /\ Distinct
  BY CgroupifyAssumption DEF Init, Past, Named, Distinct, Alive, Handling
<1>3. QED
  BY <1>1, <1>2 DEF NameInv

(* What the passes know of the cgroups: Returned(FALSE) of the first one,  *)
(* an exit(1) and a root that is not empty need an excuse.                 *)
Excused == ~unitUp \/ failures > 0

PassInv ==
  /\ pc \in {"watch", "write", "unlink"} => found
  /\ pc = "read" => ~unitUp \/ sub \in dirs \cup {root}
  /\ pc \in {"watch", "write"} => ~unitUp \/ cur \in dirs
  /\ pc = "unlink" /\ failed => Excused
  /\ pc = "mkdir" /\ sub = root /\ ~found /\ todo = <<>> => ~Populated(root)
  /\ pc = "enable" => ~Populated(root)

FailInv == NameInv /\ PassInv /\ NeverFails

LEMMA KernelPass ==
  ASSUME FailInv, Kernel
  PROVE  PassInv' /\ NeverFails'
<1> USE DEF kernelVars, eventVars, passVars, moveVars
<1>1. /\ UNCHANGED <<pc, sub, todo, found, cur, failed, clashed, failures>>
      /\ UNCHANGED <<dirs, unitUp>> \/ ~unitUp'
  BY DEF Kernel, Fork, Exit, UnitRemoved, counters
<1>2. ~Populated(root) => ~Populated(root)'
  <2>1. where \in [Pids -> Groups \cup {gone}] /\ gone # root
    BY CgroupifyAssumption DEF FailInv, NameInv, LeakInv, TypeOK
  <2>2. ASSUME NEW p \in Pids, NEW child \in Pids, Fork(p, child)
        PROVE  Populated(root)' => Populated(root)
    BY <2>1, <2>2 DEF Fork, Populated
  <2>3. ASSUME NEW p \in Pids, Exit(p)
        PROVE  Populated(root)' => Populated(root)
    BY <2>1, <2>3 DEF Exit, Populated
  <2>4. UnitRemoved => UNCHANGED where
    BY DEF UnitRemoved
  <2>5. QED
    BY <2>2, <2>3, <2>4 DEF Kernel, Populated
<1>3. QED
  BY <1>1, <1>2 DEF FailInv, PassInv, NeverFails, Excused

LEMMA ReadProcsPass ==
  ASSUME FailInv, ReadProcs
  PROVE  PassInv' /\ NeverFails'
<1>1. /\ UNCHANGED <<where, dirs, unitUp, sub, clashed, failures>> /\ pc = "read"
      /\ \/ pc' = "mkdir" /\ todo' \in Listings(sub)
         \/ pc' = "failed" /\ ~(unitUp /\ sub \in dirs \cup {root})
  BY DEF ReadProcs, kernelVars, moveVars, counters
<1>2. pc' = "mkdir" /\ todo' = <<>> => ~Populated(sub)
  BY <1>1, ListingsType
<1>3. PassInv'
  BY <1>1, <1>2 DEF PassInv, Populated
<1>4. NeverFails'
  BY <1>1 DEF FailInv, PassInv, NeverFails
<1>5. QED
  BY <1>3, <1>4

LEMMA EndOfRoundPass ==
  ASSUME FailInv, EndOfRound
  PROVE  PassInv' /\ NeverFails'
BY DEF EndOfRound, Returned, FailInv, PassInv, NeverFails, Populated, kernelVars,
       passVars, moveVars, counters

LEMMA MkdirAtPass ==
  ASSUME FailInv, MkdirAt
  PROVE  PassInv' /\ NeverFails'
<1>1. /\ UNCHANGED <<where, unitUp, sub, failures>> /\ found' = TRUE
      /\ pc = "mkdir" /\ todo # <<>> /\ todo \in Seq(Pids) /\ Head(todo) # sub
  BY DEF MkdirAt, counters, FailInv, NameInv, LeakInv, TypeOK
<1>2. CASE unitUp /\ Head(todo) \notin dirs
  <2>1. pc' = "watch" /\ cur' \in dirs'
    BY <1>2 DEF MkdirAt
  <2>2. QED
    BY <1>1, <2>1 DEF PassInv, NeverFails
<1>3. CASE ~(unitUp /\ Head(todo) \notin dirs)
  <2>1. /\ pc' \in {"next", "failed"}
        /\ clashed' = (clashed \/ (unitUp /\ Head(todo) \in reused))
    BY <1>3 DEF MkdirAt, Returned
  <2>2. Head(todo) \in Pids /\ (Head(todo) \in dirs => Head(todo) \in reused)
    <3>1. Head(todo) \in Pids /\ 1 \in 1..Len(todo) /\ todo[1] = Head(todo)
      BY <1>1, TailOf
    <3>2. QED
      BY <1>1, <3>1 DEF FailInv, NameInv, Named, Handling
  <2>3. QED
    BY <1>1, <1>3, <2>1, <2>2 DEF PassInv, NeverFails
<1>4. QED
  BY <1>2, <1>3

LEMMA AddInotifyPass ==
  ASSUME FailInv, AddInotify
  PROVE  PassInv' /\ NeverFails'
<1>1. /\ UNCHANGED <<where, dirs, unitUp, found, cur>>
      /\ pc = "watch" /\ failures \in Nat
  BY DEF AddInotify, kernelVars, passVars, FailInv, NameInv, LeakInv, TypeOK
<1>2. \/ pc' = "write"
      \/ pc' = "unlink" /\ (cur \in dirs => failures' = failures + 1)
  BY DEF AddInotify
<1>3. QED
  BY <1>1, <1>2 DEF FailInv, PassInv, NeverFails, Excused

LEMMA WriteProcsPass ==
  ASSUME FailInv, WriteProcs
  PROVE  PassInv' /\ NeverFails'
<1>1. /\ UNCHANGED <<dirs, unitUp, found, cur>>
      /\ pc = "write" /\ pc' = "unlink" /\ failed' = (cur \notin dirs)
  BY DEF WriteProcs, passVars
<1>2. QED
  BY <1>1 DEF FailInv, PassInv, NeverFails, Excused

LEMMA UnlinkAtPass ==
  ASSUME FailInv, UnlinkAt
  PROVE  PassInv' /\ NeverFails'
<1>1. /\ UNCHANGED <<where, unitUp, found, clashed, failures>> /\ pc = "unlink"
      /\ \/ pc' = "mkdir" \/ pc' = "next"
         \/ pc' = "failed" /\ failed
  BY DEF UnlinkAt, Returned, passVars, moveVars, counters
<1>2. QED
  BY <1>1 DEF FailInv, PassInv, NeverFails, Excused

LEMMA OtherPass ==
  ASSUME FailInv,
         OpenProcs \/ SkipOwner \/ EnableMemory \/ TimerFires \/ NextSubgroup
           \/ Rmdir \/ \E d \in Pids : SubgroupInotifyCb(d)
  PROVE  PassInv' /\ NeverFails'
<1>1. CASE OpenProcs
  BY <1>1 DEF OpenProcs, Returned, FailInv, PassInv, NeverFails, kernelVars,
              passVars, moveVars, counters
<1>2. CASE SkipOwner
  <2>1. sub # root /\ pc = "mkdir" /\ UNCHANGED <<pc, sub>>
    BY <1>2, TailOf, CgroupifyAssumption
       DEF SkipOwner, FailInv, NameInv, LeakInv, TypeOK
  <2>2. QED
    BY <2>1 DEF PassInv, NeverFails
<1>3. CASE EnableMemory
  BY <1>3 DEF EnableMemory, FailInv, PassInv, NeverFails, kernelVars, passVars,
              moveVars, counters
<1>4. CASE TimerFires \/ NextSubgroup \/ Rmdir
            \/ \E d \in Pids : SubgroupInotifyCb(d)
  <2>1. pc' \in {"next", "exited", "open", "idle", "rmdir"}
    BY <1>4 DEF TimerFires, NextSubgroup, Rmdir, SubgroupInotifyCb
  <2>2. QED
    BY <2>1 DEF PassInv, NeverFails
<1>5. QED
  BY <1>1, <1>2, <1>3, <1>4

LEMMA FailInvInductive == FailInv /\ [Next]_vars => FailInv'
<1> SUFFICES ASSUME FailInv, [Next]_vars
             PROVE  FailInv'
  OBVIOUS
<1>1. NameInv'
  BY NameInvInductive DEF FailInv
<1>2. ASSUME Next
      PROVE  PassInv' /\ NeverFails'
  BY <1>2, KernelPass, ReadProcsPass, EndOfRoundPass, MkdirAtPass,
     AddInotifyPass, WriteProcsPass, UnlinkAtPass, OtherPass DEF Next, Step
<1>3. ASSUME UNCHANGED vars
      PROVE  PassInv' /\ NeverFails'
  BY <1>3 DEF FailInv, PassInv, NeverFails, Excused, Populated, vars,
              kernelVars, passVars, moveVars, counters
<1>4. QED
  BY <1>1, <1>2, <1>3 DEF FailInv

(***************************************************************************)
(* cgroupify gives up only when the unit goes, a watch cannot be had, or   *)
(* mkdirat meets a subgroup of a pid that was given out again.             *)
(***************************************************************************)
THEOREM NothingFails == Spec => []NeverFails
<1>1. Init => FailInv
  <2>1. Init => NameInv
    BY NameInvInit
  <2>2. Init => PassInv /\ NeverFails
    BY DEF Init, PassInv, NeverFails
  <2>3. QED
    BY <2>1, <2>2 DEF FailInv
<1>2. FailInv /\ [Next]_vars => FailInv'
  BY FailInvInductive
<1>3. FailInv => NeverFails
  BY DEF FailInv
<1>4. QED
  BY <1>1, <1>2, <1>3, PTL DEF Spec
=============================================================================
