--------------------------- MODULE RManagerProofs ---------------------------
(***************************************************************************)
(* The manager's account of what it waits for is right, for any set of     *)
(* users and any number of logins, refusals, crashes and starts: it never  *)
(* leaves r_manager_flush while an answer is still to come.                *)
(***************************************************************************)
EXTENDS RManager, FiniteSetTheorems, TLAPS

LEMMA MemoryForType ==
  ASSUME NEW n \in Nat
  PROVE  MemoryFor(n) \in Nat
<1>1. ActiveMemory \in Nat /\ MaxUsersMemory \in Nat
  BY ManagerAssumption
<1>2. n * ActiveMemory \in Nat
  BY <1>1
<1>3. QED
  BY <1>1, <1>2 DEF MemoryFor, MIN

LEMMA CardinalityType ==
  ASSUME NEW S \in SUBSET Users
  PROVE  Cardinality(S) \in Nat
<1>1. IsFiniteSet(Users)
  BY ManagerAssumption
<1>2. IsFiniteSet(S)
  BY <1>1, FS_Subset
<1>3. QED
  BY <1>2, FS_CardinalityType

LEMMA ShareType ==
  ASSUME NEW n \in Nat
  PROVE  SetUserSliceResources(n) \in SUBSET Call
BY MemoryForType DEF SetUserSliceResources, Call, SliceCall

LEMMA SetAllType ==
  ASSUME NEW S \in SUBSET Users, NEW active \in BOOLEAN
  PROVE  SetAll(S, active) \in SUBSET Call
<1> SUFFICES ASSUME NEW u \in S
             PROVE  SetUserResources(u, active) \subseteq Call
  BY DEF SetAll
<1>1. QED
  BY DEF SetUserResources, Call, UserCall, Allocation

LEMMA BatchType ==
  ASSUME NEW S \in SUBSET Call
  PROVE  Batch(S) \in Seq(SUBSET Call)
<1> DEFINE Group == SUBSET Call
<1>1. S \in Group
  OBVIOUS
<1> HIDE DEF Group
<1>2. Batch(S) \in Seq(Group)
  BY <1>1 DEF Batch
<1>3. QED
  BY <1>2 DEF Group

LEMMA ConcatType ==
  \A s, t \in Seq(SUBSET Call) : s \o t \in Seq(SUBSET Call)
<1> DEFINE Group == SUBSET Call
<1> HIDE DEF Group
<1>1. \A s, t \in Seq(Group) : s \o t \in Seq(Group)
  OBVIOUS
<1>2. QED
  BY <1>1 DEF Group

LEMMA StopCallsType ==
  ASSUME ListsTypeOK
  PROVE  StopCalls \in Seq(SUBSET Call)
<1> DEFINE Group  == SUBSET Call
           revoke == SetAll(all_users, FALSE)
           zero   == SetUserSliceResources(0)
<1>1. revoke \in Group /\ zero \in Group
  BY SetAllType, ShareType DEF ListsTypeOK
<1>2. Batch(revoke) \in Seq(Group)
  BY <1>1, BatchType
<1> HIDE DEF Group, revoke, zero
<1>3. <<zero>> \in Seq(Group)
  BY <1>1
<1>4. Batch(revoke) \o <<zero>> \in Seq(Group)
  BY <1>2, <1>3
<1>5. QED
  BY <1>4 DEF StopCalls, Group, revoke, zero

(* updat_user_allocations keeps the types, and counts each call it makes. *)
LEMMA UpdateType ==
  ASSUME ListsTypeOK, QueueTypeOK,
         NEW all \in SUBSET Users, NEW graphical \in SUBSET Users,
         NEW force \in BOOLEAN,
         UpdatUserAllocations(all, graphical, force)
  PROVE  /\ QueueTypeOK'
         /\ graphical_users' \in SUBSET Users
         /\ all_users' \in SUBSET Users
         /\ \E n \in Nat : Made(n)
<1> DEFINE now     == Cardinality(graphical)
           revoked == Revoked(graphical)
           unknown == Unknown(all, graphical)
           granted == Granted(graphical, force)
           up      == Raise(now)
           down    == Lower(now)
<1>1. /\ graphical_users \in SUBSET Users
      /\ all_users \in SUBSET Users
      /\ calls \in Seq(SUBSET Call)
  BY DEF ListsTypeOK, QueueTypeOK
<1>2. /\ revoked \in SUBSET Users
      /\ unknown \in SUBSET Users
      /\ granted \in SUBSET Users
  BY <1>1 DEF Revoked, Unknown, Granted
<1>3. now \in Nat
  BY CardinalityType
<1>4. up \in SUBSET Call /\ down \in SUBSET Call
  BY <1>3, ShareType DEF Raise, Lower
<1>5. /\ SetAll(revoked, FALSE) \in SUBSET Call
      /\ SetAll(unknown, FALSE) \in SUBSET Call
      /\ SetAll(granted, TRUE) \in SUBSET Call
  BY <1>2, SetAllType
<1>6. calls' = calls \o (Batch(up) \o Batch(SetAll(revoked, FALSE))
                          \o Batch(SetAll(unknown, FALSE))
                          \o Batch(SetAll(granted, TRUE)) \o Batch(down))
  BY DEF UpdatUserAllocations, NewCalls
<1>7. calls' \in Seq(SUBSET Call)
  <2>1. /\ Batch(up) \in Seq(SUBSET Call)
        /\ Batch(down) \in Seq(SUBSET Call)
        /\ Batch(SetAll(revoked, FALSE)) \in Seq(SUBSET Call)
        /\ Batch(SetAll(unknown, FALSE)) \in Seq(SUBSET Call)
        /\ Batch(SetAll(granted, TRUE)) \in Seq(SUBSET Call)
    BY <1>4, <1>5, BatchType
  <2> DEFINE Groups == Seq(SUBSET Call)
  <2>2. \A s, t \in Groups : s \o t \in Groups
    BY ConcatType
  <2>3. calls \in Groups
    BY <1>1
  <2> HIDE DEF Groups, revoked, unknown, granted, up, down, now
  <2>4. calls' \in Groups
    BY <1>6, <2>1, <2>2, <2>3, Zenon DEF Groups
  <2>5. QED
    BY <2>4 DEF Groups
<1>8. \E n \in Nat : Made(n)
  <2>1. /\ Cardinality(revoked) \in Nat
        /\ Cardinality(unknown) \in Nat
        /\ Cardinality(granted) \in Nat
    BY <1>2, CardinalityType
  <2>2. Cardinality(up) \in Nat /\ Cardinality(down) \in Nat
    <3>1. \A n \in Nat : IsFiniteSet(SetUserSliceResources(n))
      BY FS_Singleton DEF SetUserSliceResources
    <3>2. IsFiniteSet(up) /\ IsFiniteSet(down)
      BY <1>3, <3>1, FS_EmptySet DEF Raise, Lower
    <3>3. QED
      BY <3>2, FS_CardinalityType
  <2>3. Made(NumberOfCalls(all, graphical, force))
    BY DEF UpdatUserAllocations
  <2>4. NumberOfCalls(all, graphical, force) \in Nat
    BY <2>1, <2>2 DEF NumberOfCalls
  <2>5. QED
    BY <2>3, <2>4
<1>9. QED
  BY <1>7, <1>8 DEF UpdatUserAllocations, QueueTypeOK

-----------------------------------------------------------------------------
LEMMA InitType == Init => TypeOK
<1> SUFFICES ASSUME Init PROVE TypeOK
  OBVIOUS
<1>1. LoopTypeOK /\ AccountTypeOK
  <2>1. LoopTypeOK
    BY Zenon DEF Init, LoopTypeOK
  <2>2. AccountTypeOK
    BY DEF Init, AccountTypeOK
  <2>3. QED
    BY <2>1, <2>2
<1>2. ListsTypeOK
  BY DEF Init, ListsTypeOK, LoginLists
<1>3. QueueTypeOK
  BY DEF Init, QueueTypeOK
<1>4. SystemdTypeOK
  BY DEF Init, SystemdTypeOK, Allocation
<1>5. UsersTypeOK
  BY DEF Init, UsersTypeOK
<1>6. CountersTypeOK
  BY ManagerAssumption DEF Init, CountersTypeOK
<1>7. QED
  BY <1>1, <1>2, <1>3, <1>4, <1>5, <1>6 DEF TypeOK

(* The main loop and the bus. *)
LEMMA LoopStep == TypeOK /\ [Next]_vars => LoopTypeOK'
<1> SUFFICES ASSUME LoopTypeOK, [Next]_vars
             PROVE  LoopTypeOK'
  BY DEF TypeOK
<1> USE DEF busVars
<1>1. CASE BusAcquired
  BY <1>1, Zenon DEF BusAcquired, LoopTypeOK
<1>2. CASE BusGrantsName
  BY <1>2, Zenon DEF BusGrantsName, LoopTypeOK
<1>3. CASE NameAcquired
  BY <1>3, Zenon DEF NameAcquired, LoopTypeOK
<1>4. ASSUME NEW u \in Users, HandleDbusMethodCall(u)
      PROVE  LoopTypeOK'
  BY <1>4, Zenon DEF HandleDbusMethodCall, LoopTypeOK
<1>5. CASE SetUnitResourcesCb
  BY <1>5, Zenon DEF SetUnitResourcesCb, LoopTypeOK
<1>6. CASE DecreasePendingCalls
  BY <1>6, Zenon DEF DecreasePendingCalls, LoopTypeOK
<1>7. CASE RManagerStop
  BY <1>7, Zenon DEF RManagerStop, LoopTypeOK
<1>8. CASE RManagerFlushed
  BY <1>8, Zenon DEF RManagerFlushed, LoopTypeOK
<1>9. CASE LoginChanged
  BY <1>9, Zenon DEF LoginChanged, ActiveUsersChanged, LoopTypeOK
<1>10. CASE QuitMainloop
  BY <1>10, Zenon DEF QuitMainloop, LoopTypeOK
<1>11. CASE Crash
  BY <1>11, Zenon DEF Crash, LoopTypeOK
<1>12. CASE Start
  BY <1>12, Zenon DEF Start, LoopTypeOK
<1>13. CASE Systemd
  BY <1>13, Zenon DEF Systemd, SetUnitProperties, Refuse, LoopTypeOK
<1>14. CASE UserDaemon
  BY <1>14, Zenon DEF UserDaemon, UserDaemonStarts, UserDaemonStops,
               IdleSystemDaemonUpdate, UserStep, LoopTypeOK
<1>15. CASE UNCHANGED vars
  BY <1>15, Zenon DEF vars, LoopTypeOK
<1>16. QED
  BY <1>1, <1>2, <1>3, <1>4, <1>5, <1>6, <1>7, <1>8, <1>9, <1>10, <1>11,
     <1>12, <1>13, <1>14, <1>15 DEF Next, Daemon

(* The counts of r_manager_flush stay integers, though no part of TypeOK
   keeps pending_calls from being negative: that is the balance, below. *)
LEMMA AccountStep == TypeOK /\ [Next]_vars => AccountTypeOK'
<1> SUFFICES ASSUME AccountTypeOK, ListsTypeOK, QueueTypeOK, [Next]_vars
             PROVE  AccountTypeOK'
  BY DEF TypeOK
<1> USE DEF loginVars, busVars, accountVars
<1>1. CASE BusAcquired
  <2>1. /\ awaiting' = awaiting /\ unanswered' = unanswered
        /\ \/ pending_calls' = pending_calls + 1 /\ notifies' = notifies
           \/ pending_calls' = pending_calls /\ notifies' = notifies + 1
    BY <1>1, Zenon DEF BusAcquired
  <2>2. QED
    BY <2>1 DEF AccountTypeOK
<1>2. CASE BusGrantsName
  BY <1>2 DEF BusGrantsName, AccountTypeOK
<1>3. CASE NameAcquired
  <2>1. login_all \in SUBSET Users /\ login_graphical \in SUBSET Users
    BY DEF ListsTypeOK
  <2>2. PICK n \in Nat : Made(n)
    BY <1>3, <2>1, UpdateType DEF NameAcquired
  <2>3. QED
    BY <1>3, <2>2 DEF NameAcquired, Made, AccountTypeOK
<1>4. ASSUME NEW u \in Users, HandleDbusMethodCall(u)
      PROVE  AccountTypeOK'
  <2>1. login_all \in SUBSET Users /\ login_graphical \in SUBSET Users
    BY DEF ListsTypeOK
  <2>2. PICK n \in Nat : Made(n)
    BY <1>4, <2>1, UpdateType DEF HandleDbusMethodCall
  <2>3. QED
    BY <1>4, <2>2 DEF HandleDbusMethodCall, Made, AccountTypeOK
<1>5. CASE SetUnitResourcesCb
  BY <1>5 DEF SetUnitResourcesCb, AccountTypeOK
<1>6. CASE DecreasePendingCalls
  BY <1>6 DEF DecreasePendingCalls, AccountTypeOK
<1>7. CASE RManagerStop
  <2>1. Cardinality(all_users) \in Nat
    BY CardinalityType DEF ListsTypeOK
  <2> DEFINE made  == 2 * Cardinality(all_users) + 1
             freed == ONE(dbus_obj) + ONE(bus_name)
  <2>2. made \in Nat
    BY <2>1
  <2>3. freed \in Nat
    BY DEF ONE
  <2>4. /\ pending_calls' = pending_calls + made
        /\ \/ awaiting' = awaiting + made /\ unanswered' = unanswered
           \/ awaiting' = awaiting /\ unanswered' = unanswered + made
    BY <1>7, Zenon DEF RManagerStop
  <2>5. notifies' = notifies + (ONE(dbus_obj) + ONE(bus_name))
    BY <1>7, Zenon DEF RManagerStop, Destroyed, ONE
  <2> HIDE DEF made
  <2>6. QED
    BY <2>2, <2>3, <2>4, <2>5 DEF AccountTypeOK, ONE
<1>8. CASE RManagerFlushed
  BY <1>8 DEF RManagerFlushed, AccountTypeOK
<1>9. CASE LoginChanged
  <2>1. PICK l \in LoginLists : ActiveUsersChanged(l.all, l.graphical)
    BY <1>9 DEF LoginChanged
  <2>2. l.all \in SUBSET Users /\ l.graphical \in SUBSET Users
    BY DEF LoginLists
  <2>3. CASE UpdatUserAllocations(l.all, l.graphical, FALSE)
    <3>1. PICK n \in Nat : Made(n)
      BY <2>2, <2>3, UpdateType
    <3>2. QED
      BY <2>1, <3>1 DEF ActiveUsersChanged, Made, AccountTypeOK
  <2>4. CASE UNCHANGED <<pending_calls, awaiting>>
    BY <2>1, <2>4 DEF ActiveUsersChanged, AccountTypeOK
  <2>5. QED
    BY <2>1, <2>3, <2>4 DEF ActiveUsersChanged
<1>10. CASE QuitMainloop
  BY <1>10 DEF QuitMainloop, AccountTypeOK
<1>11. CASE Crash
  BY <1>11 DEF Crash, AccountTypeOK
<1>12. CASE Start
  BY <1>12 DEF Start, AccountTypeOK
<1>13. CASE Systemd
  BY <1>13 DEF Systemd, SetUnitProperties, Refuse, AccountTypeOK
<1>14. CASE UserDaemon
  BY <1>14 DEF UserDaemon, UserDaemonStarts, UserDaemonStops,
               IdleSystemDaemonUpdate, UserStep, AccountTypeOK
<1>15. CASE UNCHANGED vars
  BY <1>15 DEF vars, AccountTypeOK
<1>16. QED
  BY <1>1, <1>2, <1>3, <1>4, <1>5, <1>6, <1>7, <1>8, <1>9, <1>10, <1>11,
     <1>12, <1>13, <1>14, <1>15 DEF Next, Daemon

(* The lists of users, of the manager and of the login monitor. *)
LEMMA ListsStep == TypeOK /\ [Next]_vars => ListsTypeOK'
<1> SUFFICES ASSUME ListsTypeOK, QueueTypeOK, [Next]_vars
             PROVE  ListsTypeOK'
  BY DEF TypeOK
<1> USE DEF loginVars, knownVars
<1>1. CASE BusAcquired
  BY <1>1 DEF BusAcquired, ListsTypeOK
<1>2. CASE BusGrantsName
  BY <1>2 DEF BusGrantsName, ListsTypeOK
<1>3. CASE NameAcquired
  <2>1. login_all \in SUBSET Users /\ login_graphical \in SUBSET Users
    BY DEF ListsTypeOK
  <2>2. QED
    BY <1>3, <2>1, UpdateType DEF NameAcquired, ListsTypeOK
<1>4. ASSUME NEW u \in Users, HandleDbusMethodCall(u)
      PROVE  ListsTypeOK'
  <2>1. login_all \in SUBSET Users /\ login_graphical \in SUBSET Users
    BY DEF ListsTypeOK
  <2>2. QED
    BY <1>4, <2>1, UpdateType DEF HandleDbusMethodCall, ListsTypeOK
<1>5. CASE SetUnitResourcesCb
  BY <1>5 DEF SetUnitResourcesCb, ListsTypeOK
<1>6. CASE DecreasePendingCalls
  BY <1>6 DEF DecreasePendingCalls, ListsTypeOK
<1>7. CASE RManagerStop
  BY <1>7 DEF RManagerStop, ListsTypeOK
<1>8. CASE RManagerFlushed
  BY <1>8 DEF RManagerFlushed, ListsTypeOK
<1>9. CASE LoginChanged
  <2>1. PICK l \in LoginLists : ActiveUsersChanged(l.all, l.graphical)
    BY <1>9 DEF LoginChanged
  <2>2. l.all \in SUBSET Users /\ l.graphical \in SUBSET Users
    BY DEF LoginLists
  <2>3. CASE UpdatUserAllocations(l.all, l.graphical, FALSE)
    BY <2>1, <2>2, <2>3, UpdateType DEF ActiveUsersChanged, ListsTypeOK
  <2>4. CASE UNCHANGED <<knownVars, calls>>
    BY <2>1, <2>2, <2>4 DEF ActiveUsersChanged, ListsTypeOK
  <2>5. QED
    BY <2>1, <2>3, <2>4 DEF ActiveUsersChanged
<1>10. CASE QuitMainloop
  BY <1>10 DEF QuitMainloop, ListsTypeOK
<1>11. CASE Crash
  BY <1>11 DEF Crash, ListsTypeOK
<1>12. CASE Start
  BY <1>12 DEF Start, ListsTypeOK, LoginLists
<1>13. CASE Systemd
  BY <1>13 DEF Systemd, SetUnitProperties, Refuse, ListsTypeOK
<1>14. CASE UserDaemon
  BY <1>14 DEF UserDaemon, UserDaemonStarts, UserDaemonStops, IdleSystemDaemonUpdate, UserStep,
     ListsTypeOK
<1>15. CASE UNCHANGED vars
  BY <1>15 DEF vars, ListsTypeOK
<1>16. QED
  BY <1>1, <1>2, <1>3, <1>4, <1>5, <1>6, <1>7, <1>8, <1>9, <1>10, <1>11,
     <1>12, <1>13, <1>14, <1>15 DEF Next, Daemon

(* The groups of calls on their way to systemd. *)
LEMMA QueueStep == TypeOK /\ [Next]_vars => QueueTypeOK'
<1> SUFFICES ASSUME ListsTypeOK, QueueTypeOK, [Next]_vars
             PROVE  QueueTypeOK'
  BY DEF TypeOK
<1>1. CASE BusAcquired
  BY <1>1 DEF BusAcquired, QueueTypeOK
<1>2. CASE BusGrantsName
  BY <1>2 DEF BusGrantsName, QueueTypeOK
<1>3. CASE NameAcquired
  <2>1. login_all \in SUBSET Users /\ login_graphical \in SUBSET Users
    BY DEF ListsTypeOK
  <2>2. QED
    BY <1>3, <2>1, UpdateType DEF NameAcquired
<1>4. ASSUME NEW u \in Users, HandleDbusMethodCall(u)
      PROVE  QueueTypeOK'
  <2>1. login_all \in SUBSET Users /\ login_graphical \in SUBSET Users
    BY DEF ListsTypeOK
  <2>2. QED
    BY <1>4, <2>1, UpdateType DEF HandleDbusMethodCall
<1>5. CASE SetUnitResourcesCb
  BY <1>5 DEF SetUnitResourcesCb, QueueTypeOK
<1>6. CASE DecreasePendingCalls
  BY <1>6 DEF DecreasePendingCalls, QueueTypeOK
<1>7. CASE RManagerStop
  <2> DEFINE Queues == Seq(SUBSET Call)
  <2>1. calls' = calls \o StopCalls \/ calls' = calls
    BY <1>7, Zenon DEF RManagerStop
  <2>2. calls \in Queues /\ StopCalls \in Queues
    BY StopCallsType DEF QueueTypeOK
  <2>3. \A s, t \in Queues : s \o t \in Queues
    BY ConcatType
  <2> HIDE DEF Queues
  <2>4. calls' \in Queues
    BY <2>1, <2>2, <2>3
  <2>5. QED
    BY <2>4 DEF Queues, QueueTypeOK
<1>8. CASE RManagerFlushed
  BY <1>8 DEF RManagerFlushed, QueueTypeOK
<1>9. CASE LoginChanged
  <2>1. PICK l \in LoginLists : ActiveUsersChanged(l.all, l.graphical)
    BY <1>9 DEF LoginChanged
  <2>2. l.all \in SUBSET Users /\ l.graphical \in SUBSET Users
    BY DEF LoginLists
  <2>3. CASE UpdatUserAllocations(l.all, l.graphical, FALSE)
    BY <2>1, <2>2, <2>3, UpdateType DEF ActiveUsersChanged
  <2>4. CASE UNCHANGED <<knownVars, calls>>
    BY <2>1, <2>2, <2>4 DEF ActiveUsersChanged, QueueTypeOK
  <2>5. QED
    BY <2>1, <2>3, <2>4 DEF ActiveUsersChanged
<1>10. CASE QuitMainloop
  BY <1>10 DEF QuitMainloop, QueueTypeOK
<1>11. CASE Crash
  BY <1>11 DEF Crash, QueueTypeOK
<1>12. CASE Start
  BY <1>12 DEF Start, QueueTypeOK
<1>13. CASE Systemd
  BY <1>13 DEF Systemd, SetUnitProperties, Refuse, Served, QueueTypeOK
<1>14. CASE UserDaemon
  BY <1>14 DEF UserDaemon, UserDaemonStarts, UserDaemonStops, IdleSystemDaemonUpdate, UserStep,
     QueueTypeOK
<1>15. CASE UNCHANGED vars
  BY <1>15 DEF vars, QueueTypeOK
<1>16. QED
  BY <1>1, <1>2, <1>3, <1>4, <1>5, <1>6, <1>7, <1>8, <1>9, <1>10, <1>11,
     <1>12, <1>13, <1>14, <1>15 DEF Next, Daemon

(* What systemd holds. *)
LEMMA SystemdStep == TypeOK /\ [Next]_vars => SystemdTypeOK'
<1> SUFFICES ASSUME QueueTypeOK, SystemdTypeOK, [Next]_vars
             PROVE  SystemdTypeOK'
  BY DEF TypeOK
<1> USE DEF systemdVars
<1>1. CASE BusAcquired
  BY <1>1 DEF BusAcquired, SystemdTypeOK
<1>2. CASE BusGrantsName
  BY <1>2 DEF BusGrantsName, SystemdTypeOK
<1>3. CASE NameAcquired
  BY <1>3 DEF NameAcquired, SystemdTypeOK
<1>4. ASSUME NEW u \in Users, HandleDbusMethodCall(u)
      PROVE  SystemdTypeOK'
  BY <1>4 DEF HandleDbusMethodCall, SystemdTypeOK
<1>5. CASE SetUnitResourcesCb
  BY <1>5 DEF SetUnitResourcesCb, SystemdTypeOK
<1>6. CASE DecreasePendingCalls
  BY <1>6 DEF DecreasePendingCalls, SystemdTypeOK
<1>7. CASE RManagerStop
  BY <1>7 DEF RManagerStop, SystemdTypeOK
<1>8. CASE RManagerFlushed
  BY <1>8 DEF RManagerFlushed, SystemdTypeOK
<1>9. CASE LoginChanged
  BY <1>9 DEF LoginChanged, ActiveUsersChanged, SystemdTypeOK
<1>10. CASE QuitMainloop
  BY <1>10 DEF QuitMainloop, SystemdTypeOK
<1>11. CASE Crash
  BY <1>11 DEF Crash, SystemdTypeOK
<1>12. CASE Start
  BY <1>12 DEF Start, SystemdTypeOK
<1>13. CASE Systemd
  <2>1. PICK c \in Head(calls) : SetUnitProperties(c) \/ Refuse(c)
    BY <1>13 DEF Systemd
  <2>2. Head(calls) \in SUBSET Call
    <3> DEFINE Group == SUBSET Call
    <3>1. calls \in Seq(Group) /\ calls # <<>>
      BY <1>13 DEF QueueTypeOK, Systemd
    <3> HIDE DEF Group
    <3>2. Head(calls) \in Group
      BY <3>1
    <3>3. QED
      BY <3>2 DEF Group
  <2>3. c \in Call
    BY <2>1, <2>2
  <2>4. Unit(c) \in Units
    BY <2>3 DEF Call, UserCall, SliceCall, Unit, Units
  <2>5. CASE SetUnitProperties(c)
    BY <2>3, <2>4, <2>5
       DEF SetUnitProperties, SystemdTypeOK, Call, UserCall, SliceCall
  <2>6. CASE Refuse(c)
    BY <2>4, <2>6 DEF Refuse, SystemdTypeOK
  <2>7. QED
    BY <2>1, <2>5, <2>6
<1>14. CASE UserDaemon
  BY <1>14 DEF UserDaemon, UserDaemonStarts, UserDaemonStops, IdleSystemDaemonUpdate, UserStep,
     SystemdTypeOK
<1>15. CASE UNCHANGED vars
  BY <1>15 DEF vars, SystemdTypeOK
<1>16. QED
  BY <1>1, <1>2, <1>3, <1>4, <1>5, <1>6, <1>7, <1>8, <1>9, <1>10, <1>11,
     <1>12, <1>13, <1>14, <1>15 DEF Next, Daemon

(* The user daemons. *)
LEMMA UsersStep == TypeOK /\ [Next]_vars => UsersTypeOK'
<1> SUFFICES ASSUME UsersTypeOK, [Next]_vars
             PROVE  UsersTypeOK'
  BY DEF TypeOK
<1> USE DEF userVars
<1>1. CASE BusAcquired
  BY <1>1 DEF BusAcquired, UsersTypeOK
<1>2. CASE BusGrantsName
  BY <1>2 DEF BusGrantsName, UsersTypeOK
<1>3. CASE NameAcquired
  BY <1>3 DEF NameAcquired, UsersTypeOK
<1>4. ASSUME NEW u \in Users, HandleDbusMethodCall(u)
      PROVE  UsersTypeOK'
  BY <1>4 DEF HandleDbusMethodCall, UsersTypeOK
<1>5. CASE SetUnitResourcesCb
  BY <1>5 DEF SetUnitResourcesCb, UsersTypeOK
<1>6. CASE DecreasePendingCalls
  BY <1>6 DEF DecreasePendingCalls, UsersTypeOK
<1>7. CASE RManagerStop
  BY <1>7 DEF RManagerStop, UsersTypeOK
<1>8. CASE RManagerFlushed
  BY <1>8 DEF RManagerFlushed, UsersTypeOK
<1>9. CASE LoginChanged
  BY <1>9 DEF LoginChanged, ActiveUsersChanged, UsersTypeOK
<1>10. CASE QuitMainloop
  BY <1>10 DEF QuitMainloop, UsersTypeOK
<1>11. CASE Crash
  BY <1>11 DEF Crash, UsersTypeOK
<1>12. CASE Start
  BY <1>12 DEF Start, UsersTypeOK
<1>13. CASE Systemd
  BY <1>13 DEF Systemd, SetUnitProperties, Refuse, UsersTypeOK
<1>14. CASE UserDaemon
  BY <1>14 DEF UserDaemon, UserDaemonStarts, UserDaemonStops, IdleSystemDaemonUpdate, UserStep,
     UsersTypeOK
<1>15. CASE UNCHANGED vars
  BY <1>15 DEF vars, UsersTypeOK
<1>16. QED
  BY <1>1, <1>2, <1>3, <1>4, <1>5, <1>6, <1>7, <1>8, <1>9, <1>10, <1>11,
     <1>12, <1>13, <1>14, <1>15 DEF Next, Daemon

(* The counters stay within their bounds. *)
LEMMA CountersStep == TypeOK /\ [Next]_vars => CountersTypeOK'
<1> SUFFICES ASSUME CountersTypeOK, [Next]_vars
             PROVE  CountersTypeOK'
  BY DEF TypeOK
<1> USE DEF counters
<1>0. MaxEvents \in Nat /\ MaxFailures \in Nat /\ MaxCrashes \in Nat
  BY ManagerAssumption
<1>1. CASE BusAcquired
  BY <1>1 DEF BusAcquired, CountersTypeOK
<1>2. CASE BusGrantsName
  BY <1>2 DEF BusGrantsName, CountersTypeOK
<1>3. CASE NameAcquired
  BY <1>3 DEF NameAcquired, CountersTypeOK
<1>4. ASSUME NEW u \in Users, HandleDbusMethodCall(u)
      PROVE  CountersTypeOK'
  BY <1>4 DEF HandleDbusMethodCall, CountersTypeOK
<1>5. CASE SetUnitResourcesCb
  BY <1>5 DEF SetUnitResourcesCb, CountersTypeOK
<1>6. CASE DecreasePendingCalls
  BY <1>6 DEF DecreasePendingCalls, CountersTypeOK
<1>7. CASE RManagerStop
  BY <1>7 DEF RManagerStop, CountersTypeOK
<1>8. CASE RManagerFlushed
  BY <1>8 DEF RManagerFlushed, CountersTypeOK
<1>9. CASE LoginChanged
  BY <1>0, <1>9 DEF LoginChanged, ActiveUsersChanged, CountersTypeOK
<1>10. CASE QuitMainloop
  BY <1>10 DEF QuitMainloop, CountersTypeOK
<1>11. CASE Crash
  BY <1>0, <1>11 DEF Crash, CountersTypeOK
<1>12. CASE Start
  BY <1>12 DEF Start, CountersTypeOK
<1>13. CASE Systemd
  BY <1>0, <1>13 DEF Systemd, SetUnitProperties, Refuse, CountersTypeOK
<1>14. CASE UserDaemon
  BY <1>0, <1>14 DEF UserDaemon, UserDaemonStarts, UserDaemonStops, IdleSystemDaemonUpdate, UserStep,
     CountersTypeOK
<1>15. CASE UNCHANGED vars
  BY <1>15 DEF vars, CountersTypeOK
<1>16. QED
  BY <1>1, <1>2, <1>3, <1>4, <1>5, <1>6, <1>7, <1>8, <1>9, <1>10, <1>11,
     <1>12, <1>13, <1>14, <1>15 DEF Next, Daemon

LEMMA TypeInductive == TypeOK /\ [Next]_vars => TypeOK'
BY LoopStep, AccountStep, ListsStep, QueueStep, SystemdStep, UsersStep,
   CountersStep DEF TypeOK

(* Every variable keeps its type, for any set of users and any bounds. *)
THEOREM TypeCorrect == Spec => []TypeOK
BY InitType, TypeInductive, PTL DEF Spec

-----------------------------------------------------------------------------
(***************************************************************************)
(* The account.  PendingBalance is not inductive as it stands: registering *)
(* the object twice would count it once, so the object must be there only  *)
(* with a connection.  That nothing comes after the exit needs as well     *)
(* that r_manager_stop has given up both the name and the object, so that  *)
(* nothing but answers and notifications is left to wait for.              *)
(***************************************************************************)
ObjectOnBus == dbus_obj => connection

GivenUp == loop \in {"flush", "exited"} => ~dbus_obj /\ ~bus_name

IInv == PendingBalance /\ ObjectOnBus /\ GivenUp /\ NothingAfterExit

LEMMA OneType == ONE(dbus_obj) \in Nat /\ ONE(bus_name) \in Nat
BY DEF ONE

(* n calls made at once change both sides of the account alike. *)
LEMMA MadeBalanced ==
  ASSUME AccountTypeOK, PendingBalance, NEW n \in Nat, Made(n),
         UNCHANGED <<notifies, unanswered, dbus_obj, bus_name>>
  PROVE  PendingBalance'
<1>1. ONE(dbus_obj)' = ONE(dbus_obj) /\ ONE(bus_name)' = ONE(bus_name)
  BY Zenon DEF ONE
<1>2. /\ pending_calls' = pending_calls + n /\ awaiting' = awaiting + n
      /\ notifies' = notifies /\ unanswered' = unanswered
  BY DEF Made
<1>3. QED
  BY OneType, <1>1, <1>2 DEF AccountTypeOK, PendingBalance

LEMMA BalanceStep ==
  TypeOK /\ IInv /\ [Next]_vars => PendingBalance'
<1> SUFFICES ASSUME AccountTypeOK, ListsTypeOK, QueueTypeOK, PendingBalance,
                    ObjectOnBus, [Next]_vars
             PROVE  PendingBalance'
  BY DEF TypeOK, IInv
<1>0. ASSUME UNCHANGED <<accountVars, dbus_obj, bus_name>>
      PROVE  PendingBalance'
  BY <1>0, Zenon DEF PendingBalance, accountVars, ONE
<1> USE DEF busVars
<1>1. CASE BusAcquired
  <2>1. ONE(bus_name) = 1 /\ ONE(dbus_obj) = 0
    BY <1>1, Zenon DEF BusAcquired, ObjectOnBus, ONE
  <2>2. awaiting' = awaiting /\ unanswered' = unanswered
    BY <1>1, Zenon DEF BusAcquired
  <2>3. \/ /\ pending_calls' = pending_calls + 1 /\ notifies' = notifies
           /\ ONE(bus_name)' = 1 /\ ONE(dbus_obj)' = 1
        \/ /\ pending_calls' = pending_calls /\ notifies' = notifies + 1
           /\ ONE(bus_name)' = 0 /\ ONE(dbus_obj)' = 0
    <3>1. CASE dbus_obj' = TRUE /\ pending_calls' = pending_calls + 1
                                /\ UNCHANGED <<bus_name, notifies, loop>>
      <4>1. ONE(bus_name)' = 1 /\ ONE(dbus_obj)' = 1
        BY <1>1, <3>1, Zenon DEF BusAcquired, ONE
      <4>2. QED
        BY <3>1, <4>1, Zenon
    <3>2. CASE bus_name' = FALSE /\ notifies' = notifies + 1
                                /\ UNCHANGED <<dbus_obj, pending_calls>>
      <4>1. ONE(bus_name)' = 0 /\ ONE(dbus_obj)' = 0
        BY <1>1, <3>2, Zenon DEF BusAcquired, ObjectOnBus, ONE
      <4>2. QED
        BY <3>2, <4>1, Zenon
    <3>3. QED
      BY <1>1, <3>1, <3>2, Zenon DEF BusAcquired
  <2>4. QED
    BY <2>1, <2>2, <2>3 DEF AccountTypeOK, PendingBalance
<1>2. CASE BusGrantsName
  BY <1>0, <1>2 DEF BusGrantsName
<1>3. CASE NameAcquired
  <2>1. login_all \in SUBSET Users /\ login_graphical \in SUBSET Users
    BY DEF ListsTypeOK
  <2>2. PICK n \in Nat : Made(n)
    BY <1>3, <2>1, UpdateType DEF NameAcquired
  <2>3. QED
    BY <1>3, <2>2, MadeBalanced DEF NameAcquired
<1>4. ASSUME NEW u \in Users, HandleDbusMethodCall(u)
      PROVE  PendingBalance'
  <2>1. login_all \in SUBSET Users /\ login_graphical \in SUBSET Users
    BY DEF ListsTypeOK
  <2>2. PICK n \in Nat : Made(n)
    BY <1>4, <2>1, UpdateType DEF HandleDbusMethodCall
  <2>3. QED
    BY <1>4, <2>2, MadeBalanced DEF HandleDbusMethodCall
<1>5. CASE SetUnitResourcesCb
  <2>1. ONE(dbus_obj)' = ONE(dbus_obj) /\ ONE(bus_name)' = ONE(bus_name)
    BY <1>5, Zenon DEF SetUnitResourcesCb, ONE
  <2>2. QED
    BY <1>5, <2>1, OneType
       DEF SetUnitResourcesCb, AccountTypeOK, PendingBalance
<1>6. CASE DecreasePendingCalls
  <2>1. ONE(dbus_obj)' = ONE(dbus_obj) /\ ONE(bus_name)' = ONE(bus_name)
    BY <1>6, Zenon DEF DecreasePendingCalls, ONE
  <2>2. QED
    BY <1>6, <2>1, OneType
       DEF DecreasePendingCalls, AccountTypeOK, PendingBalance
<1>7. CASE RManagerStop
  <2> DEFINE made == 2 * Cardinality(all_users) + 1
  <2>1. made \in Nat
    BY CardinalityType DEF ListsTypeOK
  <2>2. /\ pending_calls' = pending_calls + made
        /\ \/ awaiting' = awaiting + made /\ unanswered' = unanswered
           \/ awaiting' = awaiting /\ unanswered' = unanswered + made
    BY <1>7, Zenon DEF RManagerStop
  <2>3. notifies' = notifies + (ONE(dbus_obj) + ONE(bus_name))
    BY <1>7, Zenon DEF RManagerStop, Destroyed, ONE
  <2>4. ONE(dbus_obj)' = 0 /\ ONE(bus_name)' = 0
    BY <1>7, Zenon DEF RManagerStop, ONE
  <2> HIDE DEF made
  <2>5. QED
    BY <2>1, <2>2, <2>3, <2>4, OneType DEF AccountTypeOK, PendingBalance
<1>8. CASE RManagerFlushed
  BY <1>0, <1>8 DEF RManagerFlushed
<1>9. CASE LoginChanged
  <2>1. PICK l \in LoginLists : ActiveUsersChanged(l.all, l.graphical)
    BY <1>9 DEF LoginChanged
  <2>2. l.all \in SUBSET Users /\ l.graphical \in SUBSET Users
    BY DEF LoginLists
  <2>3. CASE UpdatUserAllocations(l.all, l.graphical, FALSE)
    <3>1. PICK n \in Nat : Made(n)
      BY <2>2, <2>3, UpdateType
    <3>2. QED
      BY <2>1, <3>1, MadeBalanced DEF ActiveUsersChanged
  <2>4. CASE UNCHANGED <<pending_calls, awaiting>>
    BY <1>0, <2>1, <2>4 DEF ActiveUsersChanged, accountVars
  <2>5. QED
    BY <2>1, <2>3, <2>4 DEF ActiveUsersChanged
<1>10. CASE QuitMainloop
  BY <1>0, <1>10 DEF QuitMainloop
<1>11. CASE Crash
  BY <1>0, <1>11 DEF Crash
<1>12. CASE Start
  <2>1. ONE(dbus_obj)' = 0 /\ ONE(bus_name)' = 1
    BY <1>12, Zenon DEF Start, ONE
  <2>2. /\ pending_calls' = 1
        /\ awaiting' = 0 /\ notifies' = 0 /\ unanswered' = 0
    BY <1>12 DEF Start
  <2>3. QED
    BY <2>1, <2>2 DEF PendingBalance
<1>13. CASE Systemd
  BY <1>0, <1>13 DEF Systemd, SetUnitProperties, Refuse
<1>14. CASE UserDaemon
  BY <1>0, <1>14 DEF UserDaemon, UserDaemonStarts, UserDaemonStops,
                     IdleSystemDaemonUpdate, UserStep
<1>15. CASE UNCHANGED vars
  BY <1>0, <1>15 DEF vars, accountVars
<1>16. QED
  BY <1>1, <1>2, <1>3, <1>4, <1>5, <1>6, <1>7, <1>8, <1>9, <1>10, <1>11,
     <1>12, <1>13, <1>14, <1>15 DEF Next, Daemon

(* The object and the name follow the connection and the loop. *)
LEMMA BusStep ==
  ObjectOnBus /\ GivenUp /\ [Next]_vars => ObjectOnBus' /\ GivenUp'
<1> SUFFICES ASSUME ObjectOnBus, GivenUp, [Next]_vars
             PROVE  ObjectOnBus' /\ GivenUp'
  OBVIOUS
<1> USE DEF ObjectOnBus, GivenUp, busVars
<1>1. CASE BusAcquired
  BY <1>1, Zenon DEF BusAcquired
<1>2. CASE BusGrantsName
  BY <1>2, Zenon DEF BusGrantsName
<1>3. CASE NameAcquired
  BY <1>3, Zenon DEF NameAcquired
<1>4. ASSUME NEW u \in Users, HandleDbusMethodCall(u)
      PROVE  ObjectOnBus' /\ GivenUp'
  BY <1>4, Zenon DEF HandleDbusMethodCall
<1>5. CASE SetUnitResourcesCb
  BY <1>5, Zenon DEF SetUnitResourcesCb
<1>6. CASE DecreasePendingCalls
  BY <1>6, Zenon DEF DecreasePendingCalls
<1>7. CASE RManagerStop
  BY <1>7, Zenon DEF RManagerStop
<1>8. CASE RManagerFlushed
  BY <1>8, Zenon DEF RManagerFlushed
<1>9. CASE LoginChanged
  BY <1>9 DEF LoginChanged, ActiveUsersChanged
<1>10. CASE QuitMainloop
  BY <1>10, Zenon DEF QuitMainloop
<1>11. CASE Crash
  BY <1>11, Zenon DEF Crash
<1>12. CASE Start
  BY <1>12, Zenon DEF Start
<1>13. CASE Systemd
  BY <1>13 DEF Systemd, SetUnitProperties, Refuse
<1>14. CASE UserDaemon
  BY <1>14 DEF UserDaemon, UserDaemonStarts, UserDaemonStops,
               IdleSystemDaemonUpdate, UserStep
<1>15. CASE UNCHANGED vars
  BY <1>15, Zenon DEF vars
<1>16. QED
  BY <1>1, <1>2, <1>3, <1>4, <1>5, <1>6, <1>7, <1>8, <1>9, <1>10, <1>11,
     <1>12, <1>13, <1>14, <1>15 DEF Next, Daemon

(* Once the loop has exited nothing of the account changes any more. *)
LEMMA ExitStep ==
  TypeOK /\ IInv /\ [Next]_vars => NothingAfterExit'
<1> SUFFICES ASSUME AccountTypeOK, PendingBalance, GivenUp, NothingAfterExit,
                    [Next]_vars, loop' = "exited"
             PROVE  (pending_calls = 0 /\ awaiting = 0 /\ notifies = 0)'
  BY DEF TypeOK, IInv, NothingAfterExit
<1>1. CASE RManagerFlushed
  <2>1. ONE(dbus_obj) = 0 /\ ONE(bus_name) = 0
    BY <1>1, Zenon DEF RManagerFlushed, GivenUp, ONE
  <2>2. pending_calls = 0 /\ awaiting = 0 /\ notifies = 0
    BY <1>1, <2>1 DEF RManagerFlushed, PendingBalance, AccountTypeOK
  <2>3. QED
    BY <1>1, <2>2 DEF RManagerFlushed, accountVars
<1>2. CASE loop = "exited" /\ UNCHANGED accountVars
  BY <1>2 DEF NothingAfterExit, accountVars
<1>3. RManagerFlushed \/ (loop = "exited" /\ UNCHANGED accountVars)
  <2>1. CASE Daemon
    BY <2>1 DEF Daemon, BusAcquired, BusGrantsName, NameAcquired,
                HandleDbusMethodCall, SetUnitResourcesCb,
                DecreasePendingCalls, RManagerStop
  <2>2. CASE LoginChanged \/ QuitMainloop \/ Crash \/ Start
    BY <2>2 DEF LoginChanged, ActiveUsersChanged, QuitMainloop, Crash, Start
  <2>3. ASSUME Systemd \/ UserDaemon \/ UNCHANGED vars
        PROVE  UNCHANGED accountVars /\ loop' = loop
    BY <2>3 DEF Systemd, SetUnitProperties, Refuse, UserDaemon, UserDaemonStarts,
                UserDaemonStops, IdleSystemDaemonUpdate, UserStep, accountVars, vars
  <2>4. QED
    BY <2>1, <2>2, <2>3 DEF Next
<1>4. QED
  BY <1>1, <1>2, <1>3

LEMMA IInvInit == Init => IInv
<1> SUFFICES ASSUME Init PROVE IInv
  OBVIOUS
<1>1. ONE(dbus_obj) = 0 /\ ONE(bus_name) = 1
  BY Zenon DEF Init, ONE
<1>2. PendingBalance
  BY <1>1 DEF Init, PendingBalance
<1>3. ObjectOnBus /\ GivenUp /\ NothingAfterExit
  BY Zenon DEF Init, ObjectOnBus, GivenUp, NothingAfterExit
<1>4. QED
  BY <1>2, <1>3 DEF IInv

LEMMA IInvInductive == TypeOK /\ IInv /\ [Next]_vars => IInv'
BY BalanceStep, BusStep, ExitStep DEF IInv

(* pending_calls counts exactly the answers, the notifications and the     *)
(* registrations that are still to end, whatever their order.              *)
THEOREM Balance == Spec => []PendingBalance
<1>1. IInv => PendingBalance
  BY DEF IInv
<1>2. QED
  BY <1>1, InitType, TypeInductive, IInvInit, IInvInductive, PTL DEF Spec

(* g_assert of r_manager_finalize: r_manager_flush returns only when no    *)
(* callback of GDBus can reach the manager any more.                       *)
THEOREM NothingPendingAfterExit == Spec => []NothingAfterExit
<1>1. IInv => NothingAfterExit
  BY DEF IInv
<1>2. QED
  BY <1>1, InitType, TypeInductive, IInvInit, IInvInductive, PTL DEF Spec

=============================================================================
