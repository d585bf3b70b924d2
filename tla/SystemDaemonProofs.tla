------------------------- MODULE SystemDaemonProofs -------------------------
(***************************************************************************)
(* The system daemon implements Protection, for any users, seats and       *)
(* sessions, however logind changes while it is read and however often the *)
(* bus, the user daemons and systemd come in between: every step maps to a *)
(* step of Protection.                                                     *)
(***************************************************************************)
EXTENDS SystemDaemon, RManagerQueueProofs

Groups(s) == {s[i] : i \in DOMAIN s}

LEMMA GroupsOfConcat ==
  ASSUME NEW G, NEW s \in Seq(G), NEW t \in Seq(G)
  PROVE  Groups(s \o t) \subseteq Groups(s) \cup Groups(t)
<1> SUFFICES ASSUME NEW i \in DOMAIN (s \o t)
             PROVE  (s \o t)[i] \in Groups(s) \cup Groups(t)
  BY DEF Groups
<1>1. CASE i \in 1..Len(s)
  BY <1>1 DEF Groups
<1>2. CASE i \in (Len(s) + 1)..(Len(s) + Len(t))
  <2>1. (s \o t)[i] = t[i - Len(s)] /\ i - Len(s) \in 1..Len(t)
    BY <1>2
  <2>2. QED
    BY <2>1 DEF Groups
<1>3. QED
  BY <1>1, <1>2

LEMMA GroupsOfBatch ==
  ASSUME NEW S
  PROVE  Groups(Batch(S)) \subseteq {S}
BY DEF Groups, Batch

(* The users a group of calls asks to protect. *)
AsksFor(g, u) == \E c \in g : c.kind = "slice" /\ c.uid = u /\ c.alloc = "active"

LEMMA AskedByGroups == Asked = {u \in Users : \E g \in Groups(calls) : AsksFor(g, u)}
BY DEF Asked, Groups, AsksFor

LEMMA SliceAsksForNobody ==
  ASSUME NEW n, NEW u
  PROVE  ~AsksFor(SetUserSliceResources(n), u)
BY DEF AsksFor, SetUserSliceResources

LEMMA SetAllAsksFor ==
  ASSUME NEW S, NEW active \in BOOLEAN, NEW u, AsksFor(SetAll(S, active), u)
  PROVE  active /\ u \in S
<1>1. PICK c \in SetAll(S, active) : c.kind = "slice" /\ c.uid = u /\ c.alloc = "active"
  BY DEF AsksFor
<1>2. PICK v \in S : c \in SetUserResources(v, active)
  BY <1>1 DEF SetAll
<1>3. c = [kind |-> "slice", uid |-> v,
           alloc |-> IF active THEN "active" ELSE "inactive"]
  BY <1>1, <1>2 DEF SetUserResources
<1>4. QED
  BY <1>1, <1>2, <1>3

(* updat_user_allocations asks for the graphical users only. *)
LEMMA UpdateAsks ==
  ASSUME ListsTypeOK, QueueTypeOK,
         NEW all \in SUBSET Users, NEW graphical \in SUBSET Users,
         NEW force \in BOOLEAN,
         UpdatUserAllocations(all, graphical, force)
  PROVE  Asked' \subseteq Asked \cup graphical
<1> DEFINE Group   == SUBSET Call
           raise   == Raise(Cardinality(graphical))
           lower   == Lower(Cardinality(graphical))
           revoked == SetAll(Revoked(graphical), FALSE)
           unknown == SetAll(Unknown(all, graphical), FALSE)
           granted == SetAll(Granted(graphical, force), TRUE)
<1>1. calls \in Seq(Group)
  BY DEF QueueTypeOK
<1>2. /\ raise \in Group /\ lower \in Group
      /\ revoked \in Group /\ unknown \in Group /\ granted \in Group
  <2>1. Cardinality(graphical) \in Nat
    BY CardinalityType
  <2>2. raise \in Group /\ lower \in Group
    BY <2>1, ShareType DEF Raise, Lower
  <2>3. /\ Revoked(graphical) \in SUBSET Users
        /\ Unknown(all, graphical) \in SUBSET Users
        /\ Granted(graphical, force) \in SUBSET Users
    BY DEF ListsTypeOK, Revoked, Unknown, Granted
  <2>4. QED
    BY <2>2, <2>3, SetAllType
<1>3. calls' = calls \o (Batch(raise) \o Batch(revoked) \o Batch(unknown)
                          \o Batch(granted) \o Batch(lower))
  BY DEF UpdatUserAllocations, NewCalls
<1>4. Groups(calls') \subseteq
        Groups(calls) \cup {raise, lower, revoked, unknown, granted}
  <2>1. /\ Batch(raise) \in Seq(Group) /\ Batch(lower) \in Seq(Group)
        /\ Batch(revoked) \in Seq(Group) /\ Batch(unknown) \in Seq(Group)
        /\ Batch(granted) \in Seq(Group)
    BY <1>2, BatchType
  <2>2. /\ Groups(Batch(raise)) \subseteq {raise}
        /\ Groups(Batch(lower)) \subseteq {lower}
        /\ Groups(Batch(revoked)) \subseteq {revoked}
        /\ Groups(Batch(unknown)) \subseteq {unknown}
        /\ Groups(Batch(granted)) \subseteq {granted}
    BY GroupsOfBatch
  <2> DEFINE b1 == Batch(raise)
             b2 == b1 \o Batch(revoked)
             b3 == b2 \o Batch(unknown)
             b4 == b3 \o Batch(granted)
             b5 == b4 \o Batch(lower)
  <2>3. \A x, y \in Seq(Group) : x \o y \in Seq(Group)
    BY ConcatType
  <2>4. b1 \in Seq(Group) /\ b2 \in Seq(Group) /\ b3 \in Seq(Group)
        /\ b4 \in Seq(Group) /\ b5 \in Seq(Group)
    <3> HIDE DEF Group, raise, lower, revoked, unknown, granted
    <3>1. b1 \in Seq(Group)
      BY <2>1
    <3>2. b2 \in Seq(Group)
      BY <3>1, <2>1, <2>3
    <3>3. b3 \in Seq(Group)
      BY <3>2, <2>1, <2>3
    <3>4. b4 \in Seq(Group)
      BY <3>3, <2>1, <2>3
    <3>5. b5 \in Seq(Group)
      BY <3>4, <2>1, <2>3
    <3>6. QED
      BY <3>1, <3>2, <3>3, <3>4, <3>5
  <2> HIDE DEF Group, raise, lower, revoked, unknown, granted
  <2>5. /\ Groups(b2) \subseteq Groups(b1) \cup Groups(Batch(revoked))
        /\ Groups(b3) \subseteq Groups(b2) \cup Groups(Batch(unknown))
        /\ Groups(b4) \subseteq Groups(b3) \cup Groups(Batch(granted))
        /\ Groups(b5) \subseteq Groups(b4) \cup Groups(Batch(lower))
        /\ Groups(calls \o b5) \subseteq Groups(calls) \cup Groups(b5)
    <3>1. \A x, y \in Seq(Group) : Groups(x \o y) \subseteq Groups(x) \cup Groups(y)
      BY GroupsOfConcat
    <3>2. Groups(b2) \subseteq Groups(b1) \cup Groups(Batch(revoked))
      BY <2>1, <2>4, <3>1, Zenon
    <3>3. Groups(b3) \subseteq Groups(b2) \cup Groups(Batch(unknown))
      BY <2>1, <2>4, <3>1, Zenon
    <3>4. Groups(b4) \subseteq Groups(b3) \cup Groups(Batch(granted))
      BY <2>1, <2>4, <3>1, Zenon
    <3>5. Groups(b5) \subseteq Groups(b4) \cup Groups(Batch(lower))
      BY <2>1, <2>4, <3>1, Zenon
    <3>6. Groups(calls \o b5) \subseteq Groups(calls) \cup Groups(b5)
      BY <1>1, <2>4, <3>1, Zenon
    <3>7. QED
      BY <3>2, <3>3, <3>4, <3>5, <3>6
  <2>6. calls' = calls \o b5
    BY <1>3
  <2> HIDE DEF b2, b3, b4, b5
  <2>7. QED
    BY <2>2, <2>5, <2>6
<1>5. ASSUME NEW u \in Users, NEW g \in Groups(calls'), AsksFor(g, u)
      PROVE  u \in Asked \cup graphical
  <2>1. ~AsksFor(raise, u) /\ ~AsksFor(lower, u)
    <3>1. ~AsksFor({}, u)
      BY DEF AsksFor
    <3>2. QED
      BY <3>1, SliceAsksForNobody DEF Raise, Lower
  <2>2. ~AsksFor(revoked, u) /\ ~AsksFor(unknown, u)
    BY SetAllAsksFor
  <2>3. AsksFor(granted, u) => u \in graphical
    <3>1. AsksFor(granted, u) => u \in Granted(graphical, force)
      BY SetAllAsksFor
    <3>2. QED
      BY <3>1 DEF Granted
  <2> HIDE DEF raise, lower, revoked, unknown, granted
  <2>4. QED
    BY <1>4, <1>5, <2>1, <2>2, <2>3, AskedByGroups
<1>6. Asked' = {u \in Users : \E g \in Groups(calls') : AsksFor(g, u)}
  BY DEF Asked, Groups, AsksFor
<1>7. QED
  BY <1>5, <1>6

-----------------------------------------------------------------------------
(***************************************************************************)
(* What the argument rests on: the types of the lists and of the queue,    *)
(* and that a pass looks at sessions on graphical seats only.              *)
(***************************************************************************)
ListsOK ==
  /\ ListsTypeOK /\ QueueTypeOK
  /\ slice \in [Users -> Allocation]
  /\ read_graphical \in SUBSET Users /\ read_all \in SUBSET Users
  /\ known \in SUBSET Users

PassOK == \A s \in sessionsLeft : SeatOf[s] \in CanGraphical

SInv == ListsOK /\ PassOK

Seats_now == Login!GraphicalNow

LEMMA OwnerSeated ==
  ASSUME NEW s \in Sessions, session[s] = "active", SeatOf[s] \in CanGraphical
  PROVE  Owner[s] \in Seats_now /\ Owner[s] \in Users
BY LoginAssumption DEF Seats_now, Login!GraphicalNow

LEMMA SInvInit == SystemInit => SInv
<1> SUFFICES ASSUME SystemInit PROVE SInv
  OBVIOUS
<1>1. ListsTypeOK /\ QueueTypeOK /\ slice \in [Users -> Allocation]
  BY InitType DEF SystemInit, TypeOK, SystemdTypeOK
<1>2. /\ read_graphical \in SUBSET Users /\ read_all \in SUBSET Users
      /\ known \in SUBSET Users /\ PassOK
  BY DEF SystemInit, Login!Init, PassOK
<1>3. QED
  BY <1>1, <1>2 DEF SInv, ListsOK

LEMMA LogindSound == SInv /\ LogindStep => SInv'
<1> SUFFICES ASSUME SInv, LogindStep PROVE SInv'
  OBVIOUS
<1>1. /\ UNCHANGED <<vars, read_graphical, read_all, sessionsLeft>>
      /\ known' \in SUBSET Users
  BY DEF LogindStep, Login!Logind, Login!SessionChanges, Login!UserAppears,
         Login!UserDisappears, Login!LogindStep, Login!loopVars, Login!copyVars,
         SInv, ListsOK
<1>2. QED
  BY <1>1 DEF SInv, ListsOK, PassOK, ListsTypeOK, QueueTypeOK, vars, loginVars,
              knownVars, systemdVars

LEMMA MonitorSound == SInv /\ MonitorStep => SInv'
<1> SUFFICES ASSUME SInv, MonitorStep PROVE SInv'
  OBVIOUS
<1>1. UNCHANGED vars
  BY DEF MonitorStep
<1>2. ListsTypeOK' /\ QueueTypeOK' /\ slice' \in [Users -> Allocation]
  BY <1>1 DEF SInv, ListsOK, ListsTypeOK, QueueTypeOK, vars, loginVars, knownVars,
              systemdVars
<1>3. CASE Login!LogindChanged
  BY <1>2, <1>3 DEF Login!LogindChanged, Login!logindVars, Login!loopVars, Login!copyVars,
                    SInv, ListsOK, PassOK
<1>4. CASE Login!LogindQuiet
  BY <1>2, <1>4 DEF Login!LogindQuiet, Login!logindVars, SInv, ListsOK, PassOK
<1>5. CASE Login!GetSeats
  BY <1>2, <1>5 DEF Login!GetSeats, Login!logindVars, Login!copyVars, SInv, ListsOK, PassOK
<1>6. ASSUME NEW seat \in Seats, Login!VisitSeat(seat)
      PROVE  SInv'
  <2>1. PassOK'
    BY <1>6 DEF Login!VisitSeat, SInv, PassOK
  <2>2. QED
    BY <1>2, <1>6, <2>1 DEF Login!VisitSeat, Login!logindVars, Login!copyVars, SInv, ListsOK
<1>7. ASSUME NEW s \in Sessions, Login!VisitSession(s)
      PROVE  SInv'
  <2>1. Owner[s] \in Users
    BY LoginAssumption
  <2>2. PassOK'
    BY <1>7 DEF Login!VisitSession, SInv, PassOK
  <2>3. QED
    BY <1>2, <1>7, <2>1, <2>2 DEF Login!VisitSession, Login!logindVars, SInv, ListsOK
<1>8. QED
  BY <1>3, <1>4, <1>5, <1>6, <1>7 DEF MonitorStep, Login!ScanNext

(* What the manager does leaves the login monitor's own lists alone. *)
LEMMA ListsKept ==
  ASSUME SInv, ListsTypeOK', QueueTypeOK', slice' \in [Users -> Allocation],
         UNCHANGED <<logindVars, monitorVars>>
  PROVE  SInv'
BY DEF SInv, ListsOK, PassOK, logindVars, monitorVars

LEMMA EmitSound == SInv /\ Emit => SInv'
<1> SUFFICES ASSUME SInv, Emit PROVE SInv'
  OBVIOUS
<1>1. /\ read_graphical' \in SUBSET Users /\ read_all' \in SUBSET Users
      /\ known' = known /\ sessionsLeft' = sessionsLeft
  BY DEF Emit, Login!Emit, Login!GetUids, Login!QuietFails, Login!logindVars, SInv, ListsOK
<1>2. ActiveUsersChanged(read_all', read_graphical')
  BY DEF Emit
<1>3. /\ login_all' \in SUBSET Users /\ login_graphical' \in SUBSET Users
      /\ slice' = slice
  BY <1>1, <1>2 DEF ActiveUsersChanged, systemdVars
<1>4. /\ QueueTypeOK' /\ graphical_users' \in SUBSET Users /\ all_users' \in SUBSET Users
  <2>1. CASE UpdatUserAllocations(read_all', read_graphical', FALSE)
    BY <1>1, <2>1, UpdateType DEF SInv, ListsOK
  <2>2. CASE UNCHANGED <<knownVars, calls>>
    BY <2>2 DEF SInv, ListsOK, ListsTypeOK, QueueTypeOK, knownVars
  <2>3. QED
    BY <1>2, <2>1, <2>2 DEF ActiveUsersChanged
<1>5. QED
  BY <1>1, <1>3, <1>4 DEF SInv, ListsOK, PassOK, ListsTypeOK

LEMMA ManagerSound == SInv /\ ManagerStep => SInv'
<1> SUFFICES ASSUME SInv, ManagerStep PROVE SInv'
  OBVIOUS
<1>1. ListsTypeOK /\ QueueTypeOK /\ slice \in [Users -> Allocation]
      /\ login_all \in SUBSET Users /\ login_graphical \in SUBSET Users
  BY DEF SInv, ListsOK, ListsTypeOK
<1>2. ASSUME UNCHANGED <<loginVars, knownVars, calls, slice>>
      PROVE  SInv'
  <2>1. ListsTypeOK' /\ QueueTypeOK' /\ slice' \in [Users -> Allocation]
    BY <1>1, <1>2 DEF ListsTypeOK, QueueTypeOK, loginVars, knownVars
  <2>2. QED
    BY <2>1, ListsKept DEF ManagerStep
<1>3. ASSUME NEW force \in BOOLEAN,
             UpdatUserAllocations(login_all, login_graphical, force),
             UNCHANGED <<loginVars, slice>>
      PROVE  SInv'
  <2>1. /\ QueueTypeOK' /\ graphical_users' \in SUBSET Users
        /\ all_users' \in SUBSET Users
    BY <1>1, <1>3, UpdateType
  <2>2. ListsTypeOK' /\ slice' \in [Users -> Allocation]
    BY <1>1, <1>3, <2>1 DEF ListsTypeOK, loginVars
  <2>3. QED
    BY <2>1, <2>2, ListsKept DEF ManagerStep
<1>4. CASE BusAcquired \/ BusGrantsName \/ SetUnitResourcesCb
           \/ DecreasePendingCalls \/ QuitMainloop \/ RManagerFlushed
  BY <1>2, <1>4 DEF BusAcquired, BusGrantsName, SetUnitResourcesCb, DecreasePendingCalls,
                    QuitMainloop, RManagerFlushed, systemdVars
<1>5. CASE NameAcquired
  BY <1>3, <1>5 DEF NameAcquired, systemdVars
<1>6. ASSUME NEW u \in Users, HandleDbusMethodCall(u)
      PROVE  SInv'
  BY <1>3, <1>6 DEF HandleDbusMethodCall, systemdVars
<1>7. QED
  BY <1>4, <1>5, <1>6 DEF ManagerStep

LEMMA StopSound == SInv /\ Stop => SInv'
<1> SUFFICES ASSUME SInv, Stop PROVE SInv'
  OBVIOUS
<1>1. QueueTypeOK'
  <2> DEFINE Queues == Seq(SUBSET Call)
  <2>1. calls' = calls \o StopCalls \/ calls' = calls
    BY Zenon DEF Stop, RManagerStop
  <2>2. calls \in Queues /\ StopCalls \in Queues
    BY StopCallsType DEF SInv, ListsOK, QueueTypeOK
  <2>3. \A s, t \in Queues : s \o t \in Queues
    BY ConcatType
  <2> HIDE DEF Queues
  <2>4. calls' \in Queues
    BY <2>1, <2>2, <2>3
  <2>5. QED
    BY <2>4 DEF Queues, QueueTypeOK
<1>2. ListsTypeOK' /\ slice' = slice
  BY DEF Stop, RManagerStop, ListsTypeOK, systemdVars
<1>3. /\ read_graphical' = {} /\ read_all' = {}
      /\ known' = known /\ sessionsLeft' = sessionsLeft
  BY DEF Stop, logindVars
<1>4. QED
  BY <1>1, <1>2, <1>3 DEF SInv, ListsOK, PassOK

LEMMA SystemdSound == SInv /\ SystemdServes => SInv'
<1> SUFFICES ASSUME SInv, SystemdServes PROVE SInv'
  OBVIOUS
<1>1. PICK c \in Head(calls) : calls # <<>> /\ (SetUnitProperties(c) \/ Refuse(c))
  BY DEF SystemdServes, Systemd
<1>2. calls \in Seq(SUBSET Call) /\ c \in Call
  BY <1>1 DEF SInv, ListsOK, QueueTypeOK
<1>3. QueueTypeOK'
  BY <1>1, <1>2 DEF SetUnitProperties, Refuse, Served, QueueTypeOK
<1>4. ListsTypeOK'
  BY <1>1 DEF SetUnitProperties, Refuse, loginVars, knownVars, SInv, ListsOK, ListsTypeOK
<1>5. slice' \in [Users -> Allocation]
  <2>1. c.kind = "slice" => c.uid \in Users /\ c.alloc \in Allocation
    BY <1>2 DEF Call, UserCall, SliceCall
  <2>2. QED
    BY <1>1, <2>1 DEF SetUnitProperties, Refuse, SInv, ListsOK
<1>6. QED
  BY <1>3, <1>4, <1>5, ListsKept DEF SystemdServes

LEMMA UserDaemonSound == SInv /\ UserDaemonStep => SInv'
<1> SUFFICES ASSUME SInv, UserDaemonStep PROVE SInv'
  OBVIOUS
<1>1. UNCHANGED <<loginVars, knownVars, calls, slice>>
  BY DEF UserDaemonStep, UserDaemon, UserDaemonStarts, UserDaemonStops,
         IdleSystemDaemonUpdate, UserStep, systemdVars
<1>2. ListsTypeOK' /\ QueueTypeOK' /\ slice' \in [Users -> Allocation]
  BY <1>1 DEF SInv, ListsOK, ListsTypeOK, QueueTypeOK, loginVars, knownVars
<1>3. QED
  BY <1>2, ListsKept DEF UserDaemonStep

LEMMA SInvInductive == SInv /\ [SystemNext]_systemVars => SInv'
<1>1. SInv /\ UNCHANGED systemVars => SInv'
  BY DEF SInv, ListsOK, PassOK, ListsTypeOK, QueueTypeOK, systemVars, vars, loginVars,
         knownVars, systemdVars, logindVars, monitorVars
<1>2. QED
  BY <1>1, LogindSound, MonitorSound, EmitSound, ManagerSound, StopSound, SystemdSound,
     UserDaemonSound DEF SystemNext

-----------------------------------------------------------------------------
(***************************************************************************)
(* How a step looks from Protection: at most one slice changes, and then   *)
(* nobody comes or goes; who is remembered was remembered or is there.     *)
(***************************************************************************)
Maps ==
  /\ Remembered' \subseteq Remembered \cup Seats_now'
  /\ \/ Holding' = Holding
     \/ /\ Seats_now' = Seats_now
        /\ \E u \in Users : \/ u \in Remembered /\ Holding' = Holding \cup {u}
                            \/ Holding' = Holding \ {u}

LEMMA MapsToStep == Maps => Abstract!Next
<1> SUFFICES ASSUME Maps PROVE Abstract!Next
  OBVIOUS
<1>1. /\ Seats_now' \subseteq Remembered'
      /\ Remembered' \subseteq Remembered \cup Seats_now'
  BY DEF Maps, Remembered, Seats_now
<1>2. Abstract!Remember
  BY <1>1 DEF Abstract!Remember, Seats_now
<1>3. CASE Holding' = Holding
  <2>1. Seats_now' \in SUBSET Users
    BY LoginAssumption DEF Seats_now, Login!GraphicalNow
  <2>2. Abstract!SeatsChange
    BY <1>2, <1>3, <2>1 DEF Abstract!SeatsChange, Seats_now
  <2>3. QED
    BY <2>2 DEF Abstract!Next
<1>4. ASSUME Seats_now' = Seats_now, NEW u \in Users, u \in Remembered,
             Holding' = Holding \cup {u}
      PROVE  Abstract!Next
  BY <1>2, <1>4 DEF Abstract!Next, Abstract!Protect, Seats_now
<1>5. ASSUME Seats_now' = Seats_now, NEW u \in Users, Holding' = Holding \ {u}
      PROVE  Abstract!Next
  BY <1>2, <1>5 DEF Abstract!Next, Abstract!Release, Seats_now
<1>6. QED
  BY <1>3, <1>4, <1>5 DEF Maps

(* A step that serves no call: systemd keeps what it has. *)
LEMMA MapsHeld ==
  ASSUME slice' = slice, session' = session,
         read_graphical' \subseteq Remembered,
         login_graphical' \subseteq Remembered,
         Asked' \subseteq Remembered
  PROVE  Maps
<1>1. Holding' = Holding /\ Seats_now' = Seats_now
  BY DEF Holding, Seats_now, Login!GraphicalNow
<1>2. Remembered' \subseteq Remembered \cup Seats_now'
  BY DEF Remembered, Seats_now
<1>3. QED
  BY <1>1, <1>2 DEF Maps

LEMMA LogindMaps == LogindStep => Maps
<1> SUFFICES ASSUME LogindStep PROVE Maps
  OBVIOUS
<1>1. UNCHANGED <<vars, read_graphical>>
  BY DEF LogindStep, Login!Logind, Login!SessionChanges, Login!UserAppears,
         Login!UserDisappears, Login!LogindStep, Login!copyVars
<1>2. Holding' = Holding /\ Asked' = Asked /\ login_graphical' = login_graphical
  BY <1>1 DEF Holding, Asked, vars, loginVars, systemdVars
<1>3. QED
  BY <1>1, <1>2 DEF Maps, Remembered, Seats_now

LEMMA MonitorMaps == SInv /\ MonitorStep => Maps
<1> SUFFICES ASSUME SInv, MonitorStep PROVE Maps
  OBVIOUS
<1>1. /\ slice' = slice /\ Asked' = Asked /\ login_graphical' = login_graphical
  BY DEF MonitorStep, vars, loginVars, systemdVars, Asked
<1>2. session' = session
  BY DEF MonitorStep, Login!LogindChanged, Login!LogindQuiet, Login!ScanNext,
         Login!GetSeats, Login!VisitSeat, Login!VisitSession, Login!logindVars
<1>3. read_graphical' \subseteq Remembered
  <2>1. ASSUME NEW s \in Sessions, Login!VisitSession(s)
        PROVE  read_graphical' \subseteq Remembered
    <3>1. s \in sessionsLeft /\ SeatOf[s] \in CanGraphical
      BY <2>1 DEF Login!VisitSession, SInv, PassOK
    <3>2. session[s] = "active" => Owner[s] \in Seats_now
      BY <3>1, OwnerSeated
    <3>3. QED
      BY <2>1, <3>2 DEF Login!VisitSession, Remembered, Seats_now
  <2>2. CASE \/ Login!LogindChanged \/ Login!LogindQuiet \/ Login!GetSeats
             \/ \E seat \in Seats : Login!VisitSeat(seat)
    BY <2>2 DEF Login!LogindChanged, Login!LogindQuiet, Login!GetSeats, Login!VisitSeat,
                Login!copyVars, Remembered
  <2>3. QED
    BY <2>1, <2>2 DEF MonitorStep, Login!ScanNext
<1>4. QED
  BY <1>1, <1>2, <1>3, MapsHeld DEF Remembered

LEMMA EmitMaps == SInv /\ Emit => Maps
<1> SUFFICES ASSUME SInv, Emit PROVE Maps
  OBVIOUS
<1>1. /\ read_graphical' \subseteq read_graphical /\ session' = session
      /\ read_all' \in SUBSET Users /\ read_graphical' \in SUBSET Users
  BY DEF Emit, Login!Emit, Login!GetUids, Login!QuietFails, Login!logindVars, SInv, ListsOK
<1>2. ActiveUsersChanged(read_all', read_graphical')
  BY DEF Emit
<1>3. slice' = slice /\ login_graphical' = read_graphical'
  BY <1>2 DEF ActiveUsersChanged, systemdVars
<1>4. Asked' \subseteq Asked \cup read_graphical'
  <2>1. CASE UpdatUserAllocations(read_all', read_graphical', FALSE)
    BY <1>1, <2>1, UpdateAsks DEF SInv, ListsOK
  <2>2. CASE UNCHANGED calls
    BY <2>2 DEF Asked
  <2>3. QED
    BY <1>2, <2>1, <2>2 DEF ActiveUsersChanged
<1>5. QED
  BY <1>1, <1>3, <1>4, MapsHeld DEF Remembered

LEMMA ManagerMaps == SInv /\ ManagerStep => Maps
<1> SUFFICES ASSUME SInv, ManagerStep PROVE Maps
  OBVIOUS
<1>1. /\ ListsTypeOK /\ QueueTypeOK
      /\ login_all \in SUBSET Users /\ login_graphical \in SUBSET Users
      /\ session' = session /\ read_graphical' = read_graphical
  BY DEF SInv, ListsOK, ListsTypeOK, ManagerStep, logindVars, monitorVars
<1>2. ASSUME UNCHANGED <<loginVars, calls, slice>>
      PROVE  Maps
  BY <1>1, <1>2, MapsHeld DEF Asked, Remembered, loginVars
<1>3. ASSUME NEW force \in BOOLEAN,
             UpdatUserAllocations(login_all, login_graphical, force),
             UNCHANGED <<loginVars, slice>>
      PROVE  Maps
  <2>1. Asked' \subseteq Asked \cup login_graphical
    BY <1>1, <1>3, UpdateAsks
  <2>2. QED
    BY <1>1, <1>3, <2>1, MapsHeld DEF Remembered, loginVars
<1>4. CASE BusAcquired \/ BusGrantsName \/ SetUnitResourcesCb
           \/ DecreasePendingCalls \/ QuitMainloop \/ RManagerFlushed
  BY <1>2, <1>4 DEF BusAcquired, BusGrantsName, SetUnitResourcesCb, DecreasePendingCalls,
                    QuitMainloop, RManagerFlushed, systemdVars
<1>5. CASE NameAcquired
  BY <1>3, <1>5 DEF NameAcquired, systemdVars
<1>6. ASSUME NEW u \in Users, HandleDbusMethodCall(u)
      PROVE  Maps
  BY <1>3, <1>6 DEF HandleDbusMethodCall, systemdVars
<1>7. QED
  BY <1>4, <1>5, <1>6 DEF ManagerStep

LEMMA StopMaps == SInv /\ Stop => Maps
<1> SUFFICES ASSUME SInv, Stop PROVE Maps
  OBVIOUS
<1> DEFINE Group  == SUBSET Call
           revoke == SetAll(all_users, FALSE)
           zero   == SetUserSliceResources(0)
<1>1. /\ slice' = slice /\ session' = session
      /\ read_graphical' = {} /\ login_graphical' = {}
  BY DEF Stop, RManagerStop, systemdVars, logindVars
<1>2. Groups(calls') \subseteq Groups(calls) \cup {revoke, zero}
  <2>1. /\ calls \in Seq(Group) /\ StopCalls \in Seq(Group)
        /\ Batch(revoke) \in Seq(Group) /\ <<zero>> \in Seq(Group)
    <3>1. revoke \in Group /\ zero \in Group
      BY SetAllType, ShareType DEF SInv, ListsOK, ListsTypeOK
    <3>2. Batch(revoke) \in Seq(Group)
      BY <3>1, BatchType
    <3>3. calls \in Seq(Group) /\ StopCalls \in Seq(Group)
      BY StopCallsType DEF SInv, ListsOK, QueueTypeOK
    <3> HIDE DEF Group, revoke, zero
    <3>4. QED
      BY <3>1, <3>2, <3>3
  <2>2. Groups(StopCalls) \subseteq Groups(Batch(revoke)) \cup Groups(<<zero>>)
    BY <2>1, GroupsOfConcat DEF StopCalls
  <2>3. Groups(Batch(revoke)) \subseteq {revoke} /\ Groups(<<zero>>) \subseteq {zero}
    <3>1. \A S : Groups(<<S>>) \subseteq {S}
      BY DEF Groups
    <3>2. QED
      BY <3>1, GroupsOfBatch
  <2>4. Groups(calls \o StopCalls) \subseteq Groups(calls) \cup Groups(StopCalls)
    BY <2>1, GroupsOfConcat
  <2>5. calls' = calls \o StopCalls \/ calls' = calls
    BY Zenon DEF Stop, RManagerStop
  <2> HIDE DEF Group, revoke, zero
  <2>6. QED
    BY <2>2, <2>3, <2>4, <2>5
<1>3. \A u : ~AsksFor(revoke, u) /\ ~AsksFor(zero, u)
  BY SetAllAsksFor, SliceAsksForNobody
<1>4. Asked' = {u \in Users : \E g \in Groups(calls') : AsksFor(g, u)}
  BY DEF Asked, Groups, AsksFor
<1>5. Asked' \subseteq Asked
  <2> HIDE DEF revoke, zero
  <2>1. QED
    BY <1>2, <1>3, <1>4, AskedByGroups
<1>6. QED
  BY <1>1, <1>5, MapsHeld DEF Remembered

LEMMA SystemdMaps == SInv /\ SystemdServes => Maps
<1> SUFFICES ASSUME SInv, SystemdServes PROVE Maps
  OBVIOUS
<1>1. PICK c \in Head(calls) : calls # <<>> /\ (SetUnitProperties(c) \/ Refuse(c))
  BY DEF SystemdServes, Systemd
<1>2. calls \in Seq(SUBSET Call) /\ c \in Call /\ slice \in [Users -> Allocation]
  BY <1>1 DEF SInv, ListsOK, QueueTypeOK
<1>3. /\ session' = session /\ read_graphical' = read_graphical
      /\ login_graphical' = login_graphical
  BY <1>1 DEF SystemdServes, logindVars, monitorVars, SetUnitProperties, Refuse, loginVars
<1>4. Asked' \subseteq Asked
  <2>1. Served(c)
    BY <1>1 DEF SetUnitProperties, Refuse
  <2>2. \A i \in DOMAIN calls' : \E j \in DOMAIN calls : calls'[i] \subseteq calls[j]
    BY <1>1, <1>2, <2>1 DEF Served
  <2>3. QED
    BY <2>2 DEF Asked
<1>5. Seats_now' = Seats_now /\ Remembered' \subseteq Remembered \cup Seats_now'
  BY <1>3, <1>4 DEF Seats_now, Login!GraphicalNow, Remembered
<1>6. CASE slice' = slice
  BY <1>5, <1>6 DEF Maps, Holding
<1>7. CASE slice' # slice
  <2>1. c.kind = "slice" /\ slice' = [slice EXCEPT ![c.uid] = c.alloc]
    BY <1>1, <1>7 DEF SetUnitProperties, Refuse
  <2>2. c.uid \in Users
    BY <1>2, <2>1 DEF Call, UserCall, SliceCall
  <2>3. CASE c.alloc = "active"
    <3>1. Holding' = Holding \cup {c.uid}
      BY <1>2, <2>1, <2>2, <2>3 DEF Holding
    <3>2. c.uid \in Remembered
      <4>1. 1 \in DOMAIN calls /\ c \in calls[1]
        BY <1>1, <1>2
      <4>2. QED
        BY <2>1, <2>2, <2>3, <4>1 DEF Asked, Remembered
    <3>3. QED
      BY <1>5, <2>2, <3>1, <3>2 DEF Maps
  <2>4. CASE c.alloc # "active"
    <3>1. Holding' = Holding \ {c.uid}
      BY <1>2, <2>1, <2>2, <2>4 DEF Holding
    <3>2. QED
      BY <1>5, <2>2, <3>1 DEF Maps
  <2>5. QED
    BY <2>3, <2>4
<1>8. QED
  BY <1>6, <1>7

LEMMA UserDaemonMaps == UserDaemonStep => Maps
<1> SUFFICES ASSUME UserDaemonStep PROVE Maps
  OBVIOUS
<1>1. UNCHANGED <<loginVars, calls, slice, session, read_graphical>>
  BY DEF UserDaemonStep, UserDaemon, UserDaemonStarts, UserDaemonStops,
         IdleSystemDaemonUpdate, UserStep, systemdVars, logindVars, monitorVars
<1>2. QED
  BY <1>1, MapsHeld DEF Asked, Remembered, loginVars

LEMMA InitMaps == SystemInit => Abstract!Init
<1> SUFFICES ASSUME SystemInit PROVE Abstract!Init
  OBVIOUS
<1>1. /\ calls = <<>> /\ slice = [u \in Users |-> "none"]
      /\ read_graphical = {} /\ login_graphical = {}
  BY DEF SystemInit, Init, Login!Init
<1>2. Holding = {} /\ Asked = {}
  BY <1>1 DEF Holding, Asked
<1>3. Seats_now \in SUBSET Users
  BY LoginAssumption DEF Seats_now, Login!GraphicalNow
<1>4. QED
  BY <1>1, <1>2, <1>3 DEF Abstract!Init, Remembered, Seats_now

LEMMA StepMaps == SInv /\ [SystemNext]_systemVars => [Abstract!Next]_(Abstract!vars)
<1> SUFFICES ASSUME SInv, [SystemNext]_systemVars
             PROVE  Maps
  BY MapsToStep
<1>1. CASE UNCHANGED systemVars
  <2>1. UNCHANGED <<loginVars, calls, slice, session, read_graphical>>
    BY <1>1 DEF systemVars, vars, systemdVars, logindVars, monitorVars
  <2>2. QED
    BY <2>1, MapsHeld DEF Asked, Remembered, loginVars
<1>2. QED
  BY <1>1, LogindMaps, MonitorMaps, EmitMaps, ManagerMaps, StopMaps, SystemdMaps,
     UserDaemonMaps DEF SystemNext

(***************************************************************************)
(* The daemon of main.c, as SystemDaemon composes it, implements           *)
(* Protection: a slice becomes protected only for a user who sits at the   *)
(* machine or whom a list or a call still remembers from doing so.         *)
(***************************************************************************)
THEOREM Implements == SystemSpec => Protects
<1>1. SystemInit => SInv
  BY SInvInit
<1>2. SInv /\ [SystemNext]_systemVars => SInv'
  BY SInvInductive
<1>3. SystemInit => Abstract!Init
  BY InitMaps
<1>4. SInv /\ [SystemNext]_systemVars => [Abstract!Next]_(Abstract!vars)
  BY StepMaps
<1>5. QED
  BY <1>1, <1>2, <1>3, <1>4, PTL DEF SystemSpec, Protects, Abstract!Spec

-----------------------------------------------------------------------------
(***************************************************************************)
(* From logind's files to systemd.  While the daemon runs, the monitor's   *)
(* copy is right or due to be read again (Copy!IInv), between two passes   *)
(* the manager has that copy, it knows what it last told systemd (Linked), *)
(* and the calls on their way end in what it knows (QueueInv).             *)
(***************************************************************************)
Copy == INSTANCE SdLoginProofs WITH
          graphical_users <- read_graphical, all_users <- read_all

CopyInv == Copy!TypeOK /\ Copy!IInv

Linked ==
  /\ subscribed \/ updateCalls # {} \/ graphical_users # {} => owned
  /\ subscribed => graphical_users = login_graphical /\ all_users = login_all
  /\ pc = "idle" => login_graphical = read_graphical /\ login_all = read_all

StartedOnce == TypeOK /\ crashes = 0 /\ starts = 1

RunInv == loop = "running" => CopyInv /\ Linked /\ QueueInv

RestInv == StartedOnce /\ RunInv

(* The login monitor's part of a step is a step of SdLogin. *)
LEMMA MonitorIsSdLogin == LogindStep \/ MonitorStep \/ Emit => Copy!Next
<1>1. LogindStep => Copy!Logind
  BY DEF LogindStep, Login!Logind, Login!SessionChanges, Login!UserAppears,
         Login!UserDisappears, Login!LogindStep, Login!SessionState, Login!loopVars,
         Login!copyVars, Copy!Logind, Copy!SessionChanges, Copy!UserAppears,
         Copy!UserDisappears, Copy!LogindStep, Copy!SessionState, Copy!loopVars, Copy!copyVars
<1>2. Login!LogindChanged => Copy!LogindChanged
  BY DEF Login!LogindChanged, Login!logindVars, Login!loopVars, Login!copyVars,
         Copy!LogindChanged, Copy!logindVars, Copy!loopVars, Copy!copyVars
<1>3. Login!LogindQuiet => Copy!LogindQuiet
  BY DEF Login!LogindQuiet, Login!logindVars, Copy!LogindQuiet, Copy!logindVars
<1>4. Login!ScanNext => Copy!ScanNext
  BY DEF Login!ScanNext, Login!GetSeats, Login!VisitSeat, Login!VisitSession, Login!ReadFails,
         Login!logindVars, Login!copyVars, Copy!ScanNext, Copy!GetSeats, Copy!VisitSeat,
         Copy!VisitSession, Copy!ReadFails, Copy!logindVars, Copy!copyVars
<1>5. Emit => Copy!Emit
  BY DEF Emit, Login!Emit, Login!GetUids, Login!QuietFails, Login!ReadFails, Login!logindVars,
         Copy!Emit, Copy!GetUids, Copy!QuietFails, Copy!ReadFails, Copy!logindVars
<1>6. QED
  BY <1>1, <1>2, <1>3, <1>4, <1>5 DEF MonitorStep, Copy!Next, Copy!Monitor

LEMMA CopyStep ==
  ASSUME CopyInv, [SystemNext]_systemVars, loop' = "running"
  PROVE  CopyInv'
<1>1. CASE LogindStep \/ MonitorStep \/ Emit
  BY <1>1, MonitorIsSdLogin, LoginAssumption, Copy!TypeInductive, Copy!InvInductive DEF CopyInv
<1>2. CASE UNCHANGED <<logindVars, monitorVars>>
  <2>1. UNCHANGED Copy!vars
    BY <1>2 DEF logindVars, monitorVars, Copy!vars, Copy!logindVars, Copy!loopVars,
                Copy!copyVars
  <2>2. QED
    BY <2>1, LoginAssumption, Copy!TypeInductive, Copy!InvInductive DEF CopyInv
<1>3. CASE Stop
  BY <1>3, Zenon DEF Stop, RManagerStop
<1>4. QED
  BY <1>1, <1>2, <1>3 DEF SystemNext, systemVars, ManagerStep, SystemdServes, UserDaemonStep

(* The manager's part of a step is one of RManager, but for "changed",     *)
(* which the pass counts.                                                  *)
LEMMA OthersAreRManager ==
  ASSUME [SystemNext]_systemVars, ~Emit
  PROVE  [Next]_vars
<1>1. CASE LogindStep \/ MonitorStep \/ UNCHANGED systemVars
  BY <1>1 DEF LogindStep, MonitorStep, systemVars
<1>2. CASE ManagerStep \/ Stop \/ SystemdServes \/ UserDaemonStep
  BY <1>2 DEF ManagerStep, Stop, SystemdServes, UserDaemonStep, Next, Daemon
<1>3. QED
  BY <1>1, <1>2 DEF SystemNext

LEMMA ChangedType ==
  ASSUME TypeOK, NEW all \in SUBSET Users, NEW graphical \in SUBSET Users,
         ActiveUsersChanged(all, graphical), UNCHANGED events
  PROVE  TypeOK'
<1> USE DEF TypeOK
<1>1. UNCHANGED <<loop, busVars, notifies, unanswered, systemdVars, userVars, updateCalls,
                  counters>>
      /\ login_all' = all /\ login_graphical' = graphical
  BY DEF ActiveUsersChanged, counters
<1>2. LoopTypeOK' /\ UsersTypeOK' /\ CountersTypeOK'
  BY <1>1, Zenon DEF LoopTypeOK, UsersTypeOK, CountersTypeOK, busVars, userVars, counters
<1>3. SystemdTypeOK'
  BY <1>1 DEF SystemdTypeOK, systemdVars
<1>4. CASE UpdatUserAllocations(all, graphical, FALSE)
  <2>1. PICK n \in Nat : Made(n)
    BY <1>4, UpdateType
  <2>2. AccountTypeOK'
    BY <1>1, <2>1 DEF Made, AccountTypeOK
  <2>3. ListsTypeOK' /\ QueueTypeOK'
    BY <1>1, <1>4, UpdateType DEF ListsTypeOK
  <2>4. QED
    BY <1>2, <1>3, <2>2, <2>3
<1>5. CASE UNCHANGED <<pending_calls, awaiting, knownVars, calls>>
  BY <1>1, <1>2, <1>3, <1>5 DEF AccountTypeOK, ListsTypeOK, QueueTypeOK, knownVars
<1>6. QED
  BY <1>4, <1>5 DEF ActiveUsersChanged

(* What a pass hands over. *)
LEMMA EmitLists ==
  ASSUME RestInv, Emit
  PROVE  /\ loop = "running" /\ loop' = "running" /\ pc # "idle"
         /\ CopyInv /\ Linked /\ QueueInv
         /\ read_all' \in SUBSET Users /\ read_graphical' \in SUBSET Users
         /\ ActiveUsersChanged(read_all', read_graphical')
<1>1. loop = "running" /\ loop' = "running" /\ ActiveUsersChanged(read_all', read_graphical')
  BY DEF Emit, ActiveUsersChanged
<1>2. CopyInv /\ Linked /\ QueueInv
  BY <1>1 DEF RestInv, RunInv
<1>3. CopyInv'
  BY <1>1, <1>2, CopyStep DEF SystemNext
<1>4. pc # "idle"
  BY DEF Emit, Login!Emit, Login!GetUids, Login!QuietFails
<1>5. QED
  BY <1>1, <1>2, <1>3, <1>4 DEF CopyInv, Copy!TypeOK

LEMMA StartedOnceStep == RestInv /\ [SystemNext]_systemVars => StartedOnce'
<1> SUFFICES ASSUME RestInv, [SystemNext]_systemVars
             PROVE  StartedOnce'
  OBVIOUS
<1>1. TypeOK'
  <2>1. CASE Emit
    BY <2>1, EmitLists, ChangedType DEF RestInv, StartedOnce, Emit
  <2>2. CASE ~Emit
    BY <2>2, OthersAreRManager, TypeInductive DEF RestInv, StartedOnce
  <2>3. QED
    BY <2>1, <2>2
<1>2. crashes' = crashes /\ starts' = starts
  BY DEF SystemNext, LogindStep, MonitorStep, Emit, ActiveUsersChanged, ManagerStep,
         BusAcquired, BusGrantsName, NameAcquired, HandleDbusMethodCall, SetUnitResourcesCb,
         DecreasePendingCalls, QuitMainloop, RManagerFlushed, Stop, RManagerStop,
         SystemdServes, Systemd, SetUnitProperties, Refuse, UserDaemonStep, UserDaemon,
         UserDaemonStarts, UserDaemonStops, IdleSystemDaemonUpdate, UserStep, systemVars, vars,
         counters
<1>3. QED
  BY <1>1, <1>2 DEF RestInv, StartedOnce

(* Nobody starts the daemon again. *)
LEMMA RunsOn == [SystemNext]_systemVars /\ loop' = "running" => loop = "running"
<1>1. RManagerStop \/ RManagerFlushed \/ QuitMainloop => loop' # "running"
  BY Zenon DEF RManagerStop, RManagerFlushed, QuitMainloop
<1>2. QED
  BY <1>1, Zenon
     DEF SystemNext, LogindStep, MonitorStep, Emit, ActiveUsersChanged, ManagerStep,
         BusAcquired, BusGrantsName, NameAcquired, HandleDbusMethodCall, SetUnitResourcesCb,
         DecreasePendingCalls, Stop, SystemdServes, Systemd, SetUnitProperties, Refuse,
         UserDaemonStep, UserDaemon, UserDaemonStarts, UserDaemonStops, IdleSystemDaemonUpdate,
         UserStep, systemVars, vars

(* The lists are handed on from logind's files to the pass, from there to  *)
(* the login monitor, and from there to the manager.                       *)
LEMMA LinkedStep ==
  ASSUME RestInv, Linked, [SystemNext]_systemVars, loop' = "running"
  PROVE  Linked'
<1> USE DEF Linked, loginVars, busVars, knownVars, logindVars, monitorVars
<1>1. CASE LogindStep
  <2>1. UNCHANGED <<pc, read_graphical, read_all>>
    BY <1>1 DEF LogindStep, Login!Logind, Login!SessionChanges, Login!UserAppears,
                Login!UserDisappears, Login!LogindStep, Login!loopVars, Login!copyVars
  <2>2. QED
    BY <1>1, <2>1 DEF LogindStep, vars
<1>2. CASE MonitorStep
  <2>1. pc' # "idle" \/ UNCHANGED <<pc, read_graphical, read_all>>
    BY <1>2 DEF MonitorStep, Login!LogindChanged, Login!LogindQuiet, Login!ScanNext,
                Login!GetSeats, Login!VisitSeat, Login!VisitSession, Login!loopVars,
                Login!copyVars
  <2>2. QED
    BY <1>2, <2>1 DEF MonitorStep, vars
<1>3. CASE Emit
  BY <1>3 DEF Emit, ActiveUsersChanged, UpdatUserAllocations
<1>4. CASE ManagerStep
  <2>1. UNCHANGED <<pc, read_graphical, read_all>>
    BY <1>4 DEF ManagerStep
  <2>2. CASE BusAcquired \/ BusGrantsName \/ SetUnitResourcesCb \/ DecreasePendingCalls
    BY <2>1, <2>2 DEF BusAcquired, BusGrantsName, SetUnitResourcesCb, DecreasePendingCalls
  <2>3. CASE NameAcquired
    BY <2>1, <2>3 DEF NameAcquired, UpdatUserAllocations
  <2>4. ASSUME NEW u \in Users, HandleDbusMethodCall(u)
        PROVE  Linked'
    <3>1. owned
      BY <2>4 DEF HandleDbusMethodCall
    <3>2. QED
      BY <2>1, <2>4, <3>1 DEF HandleDbusMethodCall, UpdatUserAllocations
  <2>5. CASE QuitMainloop \/ RManagerFlushed
    BY <2>5 DEF QuitMainloop, RManagerFlushed
  <2>6. QED
    BY <1>4, <2>2, <2>3, <2>4, <2>5 DEF ManagerStep
<1>5. CASE Stop
  BY <1>5, Zenon DEF Stop, RManagerStop
<1>6. CASE SystemdServes
  BY <1>6 DEF SystemdServes, Systemd, SetUnitProperties, Refuse
<1>7. CASE UserDaemonStep
  BY <1>7 DEF UserDaemonStep, UserDaemon, UserDaemonStarts, UserDaemonStops,
              IdleSystemDaemonUpdate, UserStep
<1>8. CASE UNCHANGED systemVars
  BY <1>8 DEF systemVars, vars
<1>9. QED
  BY <1>1, <1>2, <1>3, <1>4, <1>5, <1>6, <1>7, <1>8 DEF SystemNext

LEMMA RunningFair == StartedOnce /\ loop = "running" => Fair
BY DEF StartedOnce, Fair, StoppedTorn

LEMMA QueueRuns ==
  ASSUME RestInv, StartedOnce', Linked, QueueInv, [SystemNext]_systemVars,
         loop = "running", loop' = "running"
  PROVE  QueueInv'
<1>1. TypeOK /\ TypeOK' /\ Fair /\ crashes' = crashes /\ starts' = starts
  BY RunningFair DEF RestInv, StartedOnce
<1> USE DEF busVars, userVars, counters
<1>2. CASE LogindStep \/ MonitorStep \/ UNCHANGED systemVars
  BY <1>1, <1>2, InvKept DEF LogindStep, MonitorStep, systemVars, vars
<1>3. CASE Emit
  <2>1. CASE UpdatUserAllocations(read_all', read_graphical', FALSE)
    BY <1>1, <1>3, <2>1, EmitLists, UpdateStep DEF ActiveUsersChanged
  <2>2. CASE UNCHANGED <<knownVars, calls>>
    BY <1>1, <1>3, <2>2, EmitLists, InvKept DEF ActiveUsersChanged
  <2>3. QED
    BY <1>3, <2>1, <2>2 DEF Emit, ActiveUsersChanged
<1>4. CASE ManagerStep
  <2>1. login_all \in SUBSET Users /\ login_graphical \in SUBSET Users
    BY <1>1 DEF TypeOK, ListsTypeOK
  <2>2. CASE BusAcquired \/ BusGrantsName
    BY <1>1, <2>2, InvKept DEF BusAcquired, BusGrantsName
  <2>3. CASE SetUnitResourcesCb \/ DecreasePendingCalls
    BY <1>1, <2>3, InvKept DEF SetUnitResourcesCb, DecreasePendingCalls
  <2>4. CASE NameAcquired
    BY <1>1, <2>1, <2>4, UpdateStep DEF NameAcquired
  <2>5. ASSUME NEW u \in Users, HandleDbusMethodCall(u)
        PROVE  QueueInv'
    BY <1>1, <2>1, <2>5, UpdateStep DEF HandleDbusMethodCall
  <2>6. CASE QuitMainloop \/ RManagerFlushed
    BY <2>6 DEF QuitMainloop, RManagerFlushed
  <2>7. QED
    BY <1>4, <2>2, <2>3, <2>4, <2>5, <2>6 DEF ManagerStep
<1>5. CASE Stop
  BY <1>5, Zenon DEF Stop, RManagerStop
<1>6. CASE SystemdServes
  BY <1>1, <1>6, ServeStep DEF SystemdServes
<1>7. CASE UserDaemonStep
  BY <1>1, <1>7, UserDaemonsStep DEF UserDaemonStep, Linked
<1>8. QED
  BY <1>2, <1>3, <1>4, <1>5, <1>6, <1>7 DEF SystemNext

LEMMA RestInit == SystemInit => RestInv
<1> SUFFICES ASSUME SystemInit PROVE RestInv
  OBVIOUS
<1>1. Copy!Init
  BY DEF SystemInit, Login!Init, Login!SessionState, Copy!Init, Copy!SessionState
<1>2. CopyInv
  BY <1>1, LoginAssumption, Copy!InitType, Copy!InvInit DEF CopyInv
<1>3. Linked
  BY DEF SystemInit, Init, Login!Init, Linked
<1>4. StartedOnce
  BY InitType DEF SystemInit, Init, StartedOnce
<1>5. QueueInv
  BY QueueInit DEF SystemInit
<1>6. QED
  BY <1>2, <1>3, <1>4, <1>5 DEF RestInv, RunInv

LEMMA RestInductive == RestInv /\ [SystemNext]_systemVars => RestInv'
<1> SUFFICES ASSUME RestInv, [SystemNext]_systemVars
             PROVE  RestInv'
  OBVIOUS
<1>1. StartedOnce'
  BY StartedOnceStep
<1>2. ASSUME loop' = "running"
      PROVE  CopyInv' /\ Linked' /\ QueueInv'
  <2>1. loop = "running"
    BY <1>2, RunsOn
  <2>2. CopyInv /\ Linked /\ QueueInv
    BY <2>1 DEF RestInv, RunInv
  <2>3. QED
    BY <1>1, <1>2, <2>1, <2>2, CopyStep, LinkedStep, QueueRuns
<1>3. QED
  BY <1>1, <1>2 DEF RestInv, RunInv

LEMMA RestSeated == RestInv => RestIsRight
<1> SUFFICES ASSUME RestInv, AtRest, complete, refused = {}
             PROVE  Seated
  BY DEF RestIsRight
<1>1. TypeOK /\ Fair /\ CopyInv /\ Linked /\ QueueInv /\ loop = "running"
  BY RunningFair DEF RestInv, RunInv, StartedOnce, AtRest
<1>2. read_graphical = Login!GraphicalNow
  BY <1>1 DEF AtRest, CopyInv, Copy!IInv, Copy!NoLostChange, Copy!CopyIsCurrent,
              Copy!GraphicalNow, Login!GraphicalNow
<1>3. graphical_users = Login!GraphicalNow
  BY <1>1, <1>2 DEF AtRest, Linked
<1>4. PICK w : Settled(w) /\ Told(w)
  BY <1>1, QueueEmpty DEF AtRest
<1>5. /\ \A u \in graphical_users : w[SliceUnit(u)] = "active"
      /\ \A u \in Users \ graphical_users : w[SliceUnit(u)] # "active"
      /\ w[UserSlice] = MemoryFor(Cardinality(graphical_users))
  BY <1>1, <1>4 DEF Settled, Fair
<1>6. /\ userSlice = w[UserSlice]
      /\ \A u \in Users : slice[u] = w[SliceUnit(u)]
  BY <1>1, <1>4, ToldNow
<1>7. graphical_users \subseteq Users
  BY <1>1 DEF TypeOK, ListsTypeOK
<1>8. Holding = graphical_users
  BY <1>5, <1>6, <1>7 DEF Holding
<1>9. QED
  BY <1>3, <1>5, <1>6, <1>8 DEF Seated

(***************************************************************************)
(* Whatever logind, systemd, the bus and the user daemons did in between:  *)
(* when nothing is left to do, after a pass that could read everything and *)
(* calls of which none was refused, exactly the users who sit at the       *)
(* machine are protected, with what they add up to in user.slice.          *)
(***************************************************************************)
THEOREM RestsRight == SystemSpec => []RestIsRight
<1>1. SystemInit => RestInv
  BY RestInit
<1>2. RestInv /\ [SystemNext]_systemVars => RestInv'
  BY RestInductive
<1>3. RestInv => RestIsRight
  BY RestSeated
<1>4. QED
  BY <1>1, <1>2, <1>3, PTL DEF SystemSpec
=============================================================================
