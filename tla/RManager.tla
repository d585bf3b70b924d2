------------------------------ MODULE RManager ------------------------------
(***************************************************************************)
(* The manager of the system daemon, src/r-manager.c, with the part of     *)
(* src/main.c that runs and stops it.                                      *)
(*                                                                         *)
(* RManager turns the login monitor's lists of users into memory           *)
(* allocations: it asks systemd, by asynchronous D-Bus calls, to set the   *)
(* resources of user.slice and of each user's user-UID.slice and           *)
(* user@UID.service.  It counts what it still waits for in pending_calls,  *)
(* and leaves only when that count is back to zero.                        *)
(*                                                                         *)
(* Every action of the daemon is one callback of its main loop.  A         *)
(* callback that is dispatched after the loop was told to quit could as    *)
(* well have come before it, so callbacks are modelled while the loop is   *)
(* "running".  The memory of an allocation stands for both MemoryMin and   *)
(* MemoryLow, which the code treats alike; CPU and I/O weights come with   *)
(* the allocation and are not modelled here.                               *)
(***************************************************************************)
EXTENDS Integers, Sequences, FiniteSets

CONSTANTS
  Users,          \* the uids that may log in
  ActiveMemory,   \* active_user.memory_min, what one active user is given
  MaxUsersMemory, \* max_users_memory_min, the most user.slice is given
  AllowTorn,      \* whether a read of logind may list an active user as unknown
  MaxEvents,      \* bound on changes of users and of their user daemons
  MaxFailures,    \* bound on the SetUnitProperties calls systemd refuses
  MaxCrashes,     \* bound on the daemon's crashes
  MaxStarts       \* bound on the daemon's starts

ASSUME ManagerAssumption ==
  /\ IsFiniteSet(Users)
  /\ ActiveMemory \in Nat
  /\ MaxUsersMemory \in Nat
  /\ AllowTorn \in BOOLEAN
  /\ MaxEvents \in Nat
  /\ MaxFailures \in Nat
  /\ MaxCrashes \in Nat
  /\ MaxStarts \in Nat

VARIABLES
  loop,            \* the main loop of main()
  connection,      \* the system bus connection is there
  dbus_obj,        \* the Update object is registered
  bus_name,        \* the bus name is being owned
  owned,           \* the bus: the daemon is the owner of the name
  subscribed,      \* "changed" of the login monitor is connected
  pending_calls,   \* what r_manager_flush waits for
  graphical_users, \* graphical users at the last update
  all_users,       \* all users at the last update
  login_graphical, \* the login monitor's graphical users
  login_all,       \* the login monitor's users
  awaiting,        \* calls that GDBus will still answer
  notifies,        \* destroy notifications that GDBus will still deliver
  unanswered,      \* calls made without a connection: no answer ever
  calls,           \* calls on their way to systemd, oldest group first
  slice,           \* systemd: the allocation of user-UID.slice
  service,         \* systemd: the allocation of user@UID.service
  userSlice,       \* systemd: the memory of user.slice
  refused,         \* the units for which systemd refused the latest call
  sysGraphical,    \* users whose uresourced.service cgroup exists
  poked,           \* users whose user daemon has made its Update call
  updateCalls,     \* Update calls waiting to be handled
  events, failures, crashes, starts   \* counters, bounded by the constants

loginVars   == <<login_graphical, login_all>>
busVars     == <<connection, dbus_obj, bus_name, owned, subscribed>>
accountVars == <<pending_calls, awaiting, notifies, unanswered>>
knownVars   == <<graphical_users, all_users>>
systemdVars == <<slice, service, userSlice, refused>>
userVars    == <<sysGraphical, poked>>
counters    == <<events, failures, crashes, starts>>
vars == <<loop, loginVars, busVars, accountVars, knownVars, calls, systemdVars,
          userVars, updateCalls, counters>>

(* The two RAllocation values of the manager, "none" for what systemd has  *)
(* before it was ever told.                                                *)
Allocation == {"none", "active", "inactive"}

UserCall  == [kind : {"slice", "service"}, uid : Users, alloc : Allocation]
SliceCall == [kind : {"user.slice"}, memory : Nat]
Call      == UserCall \cup SliceCall

(* The unit a call is for. *)
Units   == ({"slice", "service"} \X Users) \cup {<<"user.slice">>}
Unit(c) == IF c.kind = "user.slice" THEN <<c.kind>> ELSE <<c.kind, c.uid>>

MIN(a, b) == IF a < b THEN a ELSE b

(* Mutant: one active user too few is counted. *)
MemoryForFewer(n) == MIN((n - 1) * ActiveMemory, MaxUsersMemory)

(* set_user_slice_resources: what user.slice is given for n active users. *)
MemoryFor(n) == MIN(n * ActiveMemory, MaxUsersMemory)

-----------------------------------------------------------------------------
(***************************************************************************)
(* SetUnitProperties calls.  The calls of one loop of the code concern     *)
(* different units and form a group, whose order does not matter; groups   *)
(* keep their order, since D-Bus delivers the calls of one sender in order *)
(* and systemd serves them one after the other.                            *)
(***************************************************************************)
SetUserSliceResources(n) == {[kind |-> "user.slice", memory |-> MemoryFor(n)]}

SetUserResources(u, active) ==
  {[kind |-> "slice", uid |-> u,
    alloc |-> IF active THEN "active" ELSE "inactive"],
   [kind |-> "service", uid |-> u,
    alloc |-> IF active /\ u \in sysGraphical THEN "active" ELSE "inactive"]}

SetAll(S, active) == UNION {SetUserResources(u, active) : u \in S}

Batch(S) == IF S = {} THEN <<>> ELSE <<S>>

(* n calls were made on the connection: GDBus will call back for each. *)
Made(n) ==
  /\ pending_calls' = pending_calls + n
  /\ awaiting' = awaiting + n

(***************************************************************************)
(* updat_user_allocations, for the lists the login monitor has.            *)
(***************************************************************************)
Revoked(graphical) == graphical_users \ graphical

(* Mutant: a user is told of being inactive only when it was active. *)
UnknownForgotten(all, graphical) == {}

Unknown(all, graphical) == (all \ graphical) \ all_users

Granted(graphical, force_active) ==
  IF force_active THEN graphical ELSE graphical \ graphical_users

Raise(n) ==
  IF n > Cardinality(graphical_users) THEN SetUserSliceResources(n) ELSE {}

Lower(n) ==
  IF n < Cardinality(graphical_users) THEN SetUserSliceResources(n) ELSE {}

(* Mutant: the users are granted memory before user.slice is. *)
NewCallsGrantFirst(all, graphical, force_active) ==
  Batch(SetAll(Revoked(graphical), FALSE))
    \o Batch(SetAll(Unknown(all, graphical), FALSE))
    \o Batch(SetAll(Granted(graphical, force_active), TRUE))
    \o Batch(Raise(Cardinality(graphical)))
    \o Batch(Lower(Cardinality(graphical)))

(* Mutant: user.slice is lowered before the users are revoked theirs. *)
NewCallsLowerFirst(all, graphical, force_active) ==
  Batch(Raise(Cardinality(graphical)))
    \o Batch(Lower(Cardinality(graphical)))
    \o Batch(SetAll(Revoked(graphical), FALSE))
    \o Batch(SetAll(Unknown(all, graphical), FALSE))
    \o Batch(SetAll(Granted(graphical, force_active), TRUE))

NewCalls(all, graphical, force_active) ==
  Batch(Raise(Cardinality(graphical)))
    \o Batch(SetAll(Revoked(graphical), FALSE))
    \o Batch(SetAll(Unknown(all, graphical), FALSE))
    \o Batch(SetAll(Granted(graphical, force_active), TRUE))
    \o Batch(Lower(Cardinality(graphical)))

(* Two calls for each user concerned, and one for user.slice. *)
NumberOfCalls(all, graphical, force_active) ==
  Cardinality(Raise(Cardinality(graphical)))
    + Cardinality(Lower(Cardinality(graphical)))
    + 2 * (Cardinality(Revoked(graphical)) + Cardinality(Unknown(all, graphical))
            + Cardinality(Granted(graphical, force_active)))

UpdatUserAllocations(all, graphical, force_active) ==
  /\ calls' = calls \o NewCalls(all, graphical, force_active)
  /\ Made(NumberOfCalls(all, graphical, force_active))
  /\ graphical_users' = graphical
  /\ all_users' = all

(***************************************************************************)
(* The lists the login monitor may come up with.                           *)
(***************************************************************************)
LoginLists == {l \in [all : SUBSET Users, graphical : SUBSET Users] :
                 AllowTorn \/ l.graphical \subseteq l.all}

(* r_manager_new and r_manager_start on a system that was never told      *)
(* anything; Start, below, is the same on one that was.                    *)
Init ==
  /\ loop = "running"
  /\ connection = FALSE /\ dbus_obj = FALSE
  /\ bus_name = TRUE /\ owned = FALSE /\ subscribed = FALSE
  /\ pending_calls = 1
  /\ graphical_users = {} /\ all_users = {}
  /\ \E l \in LoginLists : login_graphical = l.graphical /\ login_all = l.all
  /\ awaiting = 0 /\ notifies = 0 /\ unanswered = 0
  /\ updateCalls = {}
  /\ calls = <<>>
  /\ slice = [u \in Users |-> "none"]
  /\ service = [u \in Users |-> "none"]
  /\ userSlice = 0
  /\ refused = {}
  /\ sysGraphical \in SUBSET Users
  /\ poked = sysGraphical
  /\ events = 0 /\ failures = 0 /\ crashes = 0 /\ starts = 1

-----------------------------------------------------------------------------
(* The daemon's callbacks. *)

(* Mutant: the destroy notification of the object is not waited for. *)
BusAcquiredUncounted ==
  /\ loop = "running" /\ bus_name /\ ~connection
  /\ connection' = TRUE
  /\ dbus_obj' = TRUE
  /\ UNCHANGED <<loop, loginVars, bus_name, owned, subscribed, accountVars,
                 knownVars, calls, systemdVars, userVars, updateCalls, counters>>

(* bus_acquired_cb: register the object, or give the name up and quit. *)
BusAcquired ==
  /\ loop = "running" /\ bus_name /\ ~connection
  /\ connection' = TRUE
  /\ \/ /\ dbus_obj' = TRUE
        /\ pending_calls' = pending_calls + 1
        /\ UNCHANGED <<bus_name, notifies, loop>>
     \/ /\ bus_name' = FALSE
        /\ notifies' = notifies + 1
        /\ loop' = "quit"
        /\ UNCHANGED <<dbus_obj, pending_calls>>
  /\ UNCHANGED <<loginVars, owned, subscribed, awaiting, unanswered, knownVars,
                 calls, systemdVars, userVars, updateCalls, counters>>

(* The bus answers RequestName: from here on it routes calls to the name,  *)
(* which the daemon learns of a moment later.                              *)
BusGrantsName ==
  /\ loop = "running" /\ bus_name /\ connection /\ ~owned
  /\ owned' = TRUE
  /\ UNCHANGED <<loop, loginVars, connection, dbus_obj, bus_name, subscribed,
                 accountVars, knownVars, calls, systemdVars, userVars,
                 updateCalls, counters>>

(* Mutant: the users that are there already are not looked at. *)
NameAcquiredSilently ==
  /\ loop = "running" /\ owned /\ ~subscribed
  /\ subscribed' = TRUE
  /\ UNCHANGED <<loop, loginVars, connection, dbus_obj, bus_name, owned,
                 accountVars, knownVars, calls, systemdVars, userVars,
                 updateCalls, counters>>

(* name_acquired_cb: subscribe to the login monitor, and update. *)
NameAcquired ==
  /\ loop = "running" /\ owned /\ ~subscribed
  /\ subscribed' = TRUE
  /\ UpdatUserAllocations(login_all, login_graphical, FALSE)
  /\ UNCHANGED <<loop, loginVars, connection, dbus_obj, bus_name, owned,
                 notifies, unanswered, systemdVars, userVars, updateCalls,
                 counters>>

(* "changed" of the login monitor, which reaches active_users_changed_cb   *)
(* once the signal is connected.                                           *)
ActiveUsersChanged(all, graphical) ==
  /\ loop = "running"
  /\ login_all' = all
  /\ login_graphical' = graphical
  /\ \/ subscribed /\ UpdatUserAllocations(all, graphical, FALSE)
     \/ /\ ~subscribed
        /\ UNCHANGED <<pending_calls, awaiting, knownVars, calls>>
  /\ UNCHANGED <<loop, busVars, notifies, unanswered, systemdVars, userVars,
                 updateCalls, failures, crashes, starts>>

(* Mutant: the Update call only applies what changed. *)
HandleDbusMethodCallUnforced(u) ==
  /\ loop = "running" /\ dbus_obj
  /\ u \in updateCalls
  /\ updateCalls' = updateCalls \ {u}
  /\ UpdatUserAllocations(login_all, login_graphical, FALSE)
  /\ UNCHANGED <<loop, loginVars, busVars, notifies, unanswered, systemdVars,
                 userVars, counters>>

(* handle_dbus_method_call: the user daemon of u asked for an update. *)
HandleDbusMethodCall(u) ==
  /\ loop = "running" /\ dbus_obj
  /\ u \in updateCalls
  /\ updateCalls' = updateCalls \ {u}
  /\ UpdatUserAllocations(login_all, login_graphical, TRUE)
  /\ UNCHANGED <<loop, loginVars, busVars, notifies, unanswered, systemdVars,
                 userVars, counters>>

(* set_unit_resources_cb: systemd's answer, an error, or the 1000ms        *)
(* timeout, which does not wait for systemd.                               *)
SetUnitResourcesCb ==
  /\ loop \in {"running", "flush"}
  /\ awaiting > 0
  /\ awaiting' = awaiting - 1
  /\ pending_calls' = pending_calls - 1
  /\ UNCHANGED <<loop, loginVars, busVars, notifies, unanswered, knownVars,
                 calls, systemdVars, userVars, updateCalls, counters>>

(* decrease_pending_calls, the destroy notification of name and object. *)
DecreasePendingCalls ==
  /\ loop \in {"running", "flush"}
  /\ notifies > 0
  /\ notifies' = notifies - 1
  /\ pending_calls' = pending_calls - 1
  /\ UNCHANGED <<loop, loginVars, busVars, awaiting, unanswered, knownVars,
                 calls, systemdVars, userVars, updateCalls, counters>>

(* quit_mainloop, by a signal or by "quit" from name_lost_cb. *)
QuitMainloop ==
  /\ loop = "running"
  /\ loop' = "quit"
  /\ UNCHANGED <<loginVars, busVars, accountVars, knownVars, calls,
                 systemdVars, userVars, updateCalls, counters>>

(* Mutant: only user.slice is told. *)
StopCallsForSliceOnly == <<SetUserSliceResources(0)>>

StopCalls == Batch(SetAll(all_users, FALSE)) \o <<SetUserSliceResources(0)>>

(* Mutant: the name is forgotten, but not given up. *)
DestroyedKeepingName == IF dbus_obj THEN 1 ELSE 0

(* What is given up here, and will be notified. *)
Destroyed == (IF dbus_obj THEN 1 ELSE 0) + (IF bus_name THEN 1 ELSE 0)

(***************************************************************************)
(* r_manager_stop, run by main() after the loop: nobody is active any      *)
(* more, and the name and the object go.  Without a connection GDBus       *)
(* refuses the call for user.slice, which is counted as pending even so.   *)
(***************************************************************************)
RManagerStop ==
  /\ loop = "quit"
  /\ loop' = "flush"
  /\ LET made == 2 * Cardinality(all_users) + 1 IN
     /\ pending_calls' = pending_calls + made
     /\ IF connection
        THEN /\ calls' = calls \o StopCalls
             /\ awaiting' = awaiting + made
             /\ UNCHANGED unanswered
        ELSE /\ unanswered' = unanswered + made
             /\ UNCHANGED <<calls, awaiting>>
  /\ graphical_users' = {}
  /\ all_users' = {}
  /\ login_graphical' = {}    \* the login monitor is gone
  /\ login_all' = {}
  /\ subscribed' = FALSE
  /\ notifies' = notifies + Destroyed
  /\ dbus_obj' = FALSE
  /\ bus_name' = FALSE
  /\ owned' = FALSE
  /\ connection' = FALSE
  /\ updateCalls' = {}        \* answered by GDBus: the object is unknown
  /\ UNCHANGED <<systemdVars, userVars, counters>>

(* Mutant: what is pending is not waited for. *)
RManagerUnflushed ==
  /\ loop = "flush"
  /\ loop' = "exited"
  /\ UNCHANGED <<loginVars, busVars, accountVars, knownVars, calls,
                 systemdVars, userVars, updateCalls, counters>>

(* r_manager_flush is through: main() returns and the manager goes. *)
RManagerFlushed ==
  /\ loop = "flush"
  /\ ~(pending_calls > 0)
  /\ loop' = "exited"
  /\ UNCHANGED <<loginVars, busVars, accountVars, knownVars, calls,
                 systemdVars, userVars, updateCalls, counters>>

(* The daemon dies; the calls GDBus has not written to the bus die too. *)
Crash ==
  /\ loop \in {"running", "quit", "flush"}
  /\ crashes < MaxCrashes
  /\ crashes' = crashes + 1
  /\ loop' = "dead"
  /\ \E k \in 0..Len(calls) : calls' = SubSeq(calls, 1, k)
  /\ UNCHANGED <<loginVars, busVars, accountVars, knownVars, systemdVars,
                 userVars, updateCalls, events, failures, starts>>

(* The next user@.service that starts pulls the daemon in again. *)
Start ==
  /\ loop \in {"exited", "dead"}
  /\ starts < MaxStarts
  /\ starts' = starts + 1
  /\ loop' = "running"
  /\ connection' = FALSE /\ dbus_obj' = FALSE
  /\ bus_name' = TRUE /\ owned' = FALSE /\ subscribed' = FALSE
  /\ pending_calls' = 1
  /\ graphical_users' = {} /\ all_users' = {}
  /\ \E l \in LoginLists : login_graphical' = l.graphical /\ login_all' = l.all
  /\ awaiting' = 0 /\ notifies' = 0 /\ unanswered' = 0
  /\ updateCalls' = {}
  /\ UNCHANGED <<calls, systemdVars, userVars, events, failures, crashes>>

-----------------------------------------------------------------------------
(* systemd serves a call of the oldest group, or refuses it. *)
Served(c) ==
  calls' = IF Head(calls) = {c} THEN Tail(calls)
                                ELSE [calls EXCEPT ![1] = @ \ {c}]

SetUnitProperties(c) ==
  /\ Served(c)
  /\ slice' = IF c.kind = "slice" THEN [slice EXCEPT ![c.uid] = c.alloc]
                                  ELSE slice
  /\ service' = IF c.kind = "service" THEN [service EXCEPT ![c.uid] = c.alloc]
                                      ELSE service
  /\ userSlice' = IF c.kind = "user.slice" THEN c.memory ELSE userSlice
  /\ refused' = refused \ {Unit(c)}
  /\ UNCHANGED <<loop, loginVars, busVars, accountVars, knownVars, userVars,
                 updateCalls, counters>>

Refuse(c) ==
  /\ failures < MaxFailures
  /\ failures' = failures + 1
  /\ Served(c)
  /\ refused' = refused \cup {Unit(c)}
  /\ UNCHANGED <<loop, loginVars, busVars, accountVars, knownVars, slice, service,
                 userSlice, userVars, updateCalls, events, crashes, starts>>

Systemd ==
  /\ calls # <<>>
  /\ \E c \in Head(calls) : SetUnitProperties(c) \/ Refuse(c)

-----------------------------------------------------------------------------
(* The user daemons: their cgroup appears when they start, and once idle   *)
(* they make one Update call, which fails when nobody owns the bus name.   *)
UserStep ==
  /\ events < MaxEvents
  /\ events' = events + 1
  /\ UNCHANGED <<loop, loginVars, busVars, accountVars, knownVars, calls,
                 systemdVars, updateCalls, failures, crashes, starts>>

UserDaemonStarts(u) ==
  /\ UserStep
  /\ u \notin sysGraphical
  /\ sysGraphical' = sysGraphical \cup {u}
  /\ UNCHANGED poked

UserDaemonStops(u) ==
  /\ UserStep
  /\ u \in sysGraphical
  /\ sysGraphical' = sysGraphical \ {u}
  /\ poked' = poked \ {u}

IdleSystemDaemonUpdate(u) ==
  /\ u \in sysGraphical \ poked
  /\ poked' = poked \cup {u}
  /\ updateCalls' = IF loop = "running" /\ owned THEN updateCalls \cup {u}
                                                 ELSE updateCalls
  /\ UNCHANGED <<loop, loginVars, busVars, accountVars, knownVars, calls,
                 systemdVars, sysGraphical, counters>>

UserDaemon ==
  \E u \in Users : \/ UserDaemonStarts(u)
                   \/ UserDaemonStops(u)
                   \/ IdleSystemDaemonUpdate(u)

(* The login monitor has read something new. *)
LoginChanged ==
  /\ events < MaxEvents
  /\ events' = events + 1
  /\ \E l \in LoginLists : ActiveUsersChanged(l.all, l.graphical)

Daemon ==
  \/ BusAcquired
  \/ BusGrantsName
  \/ NameAcquired
  \/ \E u \in Users : HandleDbusMethodCall(u)
  \/ SetUnitResourcesCb
  \/ DecreasePendingCalls
  \/ RManagerStop
  \/ RManagerFlushed

Next ==
  \/ Daemon
  \/ LoginChanged
  \/ QuitMainloop
  \/ Crash
  \/ Start
  \/ Systemd
  \/ UserDaemon

(***************************************************************************)
(* The main loop dispatches what is ready; every call ends, at the latest  *)
(* by its timeout.  Nobody has to log in, to stop the daemon or to start   *)
(* it, and the bus need not come up.                                       *)
(***************************************************************************)
Fairness ==
  /\ WF_vars(SetUnitResourcesCb)
  /\ WF_vars(DecreasePendingCalls)
  /\ WF_vars(RManagerStop)
  /\ WF_vars(RManagerFlushed)

Spec == Init /\ [][Next]_vars
FairSpec == Spec /\ Fairness

-----------------------------------------------------------------------------
(* Every variable has its type, by the part of the system that keeps it. *)
LoopTypeOK ==
  /\ loop \in {"running", "quit", "flush", "exited", "dead"}
  /\ connection \in BOOLEAN /\ dbus_obj \in BOOLEAN
  /\ bus_name \in BOOLEAN
  /\ owned \in BOOLEAN /\ subscribed \in BOOLEAN

AccountTypeOK ==
  /\ pending_calls \in Int
  /\ awaiting \in Nat /\ notifies \in Nat /\ unanswered \in Nat

ListsTypeOK ==
  /\ graphical_users \in SUBSET Users /\ all_users \in SUBSET Users
  /\ login_graphical \in SUBSET Users /\ login_all \in SUBSET Users

QueueTypeOK == calls \in Seq(SUBSET Call)

SystemdTypeOK ==
  /\ slice \in [Users -> Allocation] /\ service \in [Users -> Allocation]
  /\ userSlice \in Nat /\ refused \in SUBSET Units

UsersTypeOK ==
  /\ sysGraphical \in SUBSET Users /\ poked \in SUBSET sysGraphical
  /\ updateCalls \in SUBSET Users

CountersTypeOK ==
  /\ events \in 0..MaxEvents /\ failures \in 0..MaxFailures
  /\ crashes \in 0..MaxCrashes /\ starts \in Nat

TypeOK ==
  /\ LoopTypeOK /\ AccountTypeOK /\ ListsTypeOK /\ QueueTypeOK
  /\ SystemdTypeOK /\ UsersTypeOK /\ CountersTypeOK

(***************************************************************************)
(* The account of r_manager_flush: pending_calls is what is outstanding,   *)
(* whatever the order in which answers, notifications, the registration of *)
(* the object and the stop come.  An answer that never comes is counted.   *)
(***************************************************************************)
ONE(b) == IF b THEN 1 ELSE 0

PendingBalance ==
  pending_calls = awaiting + notifies + unanswered + ONE(dbus_obj) + ONE(bus_name)

(* g_assert in r_manager_finalize: when main() returns nothing is pending, *)
(* so that no callback reaches the manager after it is freed.              *)
NothingAfterExit ==
  loop = "exited" => pending_calls = 0 /\ awaiting = 0 /\ notifies = 0

(***************************************************************************)
(* The order of updat_user_allocations: user.slice is raised before a user *)
(* is granted memory and lowered after users were revoked it.  So          *)
(* user.slice is always given at least the share documented for as many    *)
(* users as are protected below it: their memory or, where that is more,   *)
(* MaxUsersMemory - beyond which the users together may well ask for more  *)
(* than user.slice has.  Neither an update made before the calls of the    *)
(* last one are served nor the stop breaks it; only a refused call, a      *)
(* crash, and the stop of a daemon whose last lists were torn do.          *)
(***************************************************************************)
Holding == {u \in Users : slice[u] = "active"}

Orderly == refused = {} /\ crashes = 0
StoppedTorn == AllowTorn /\ (loop \in {"flush", "exited"} \/ starts > 1)

NoOvercommit ==
  (Orderly /\ ~StoppedTorn) => MemoryFor(Cardinality(Holding)) <= userSlice

(***************************************************************************)
(* Once systemd has served every call, what it holds is what the login     *)
(* monitor says: the differential updates add up, over any sequence of     *)
(* lists, Update calls and restarts, but for the units whose latest call   *)
(* was refused.  After a crash, or a stop with torn lists, the users the   *)
(* monitor lists are right; after a crash user.slice is so when somebody   *)
(* is graphical.                                                           *)
(***************************************************************************)
Quiet == loop = "running" /\ subscribed /\ calls = <<>> /\ updateCalls = {}

Converged ==
  Quiet =>
    /\ \A u \in Users : <<"slice", u>> \notin refused =>
         /\ u \in login_graphical => slice[u] = "active"
         /\ u \in login_all \ login_graphical => slice[u] = "inactive"
         /\ (crashes = 0 /\ ~StoppedTorn /\ slice[u] = "active") => u \in login_graphical
    /\ ((crashes = 0 \/ login_graphical # {}) /\ <<"user.slice">> \notin refused) =>
         userSlice = MemoryFor(Cardinality(login_graphical))

(***************************************************************************)
(* The race main() resolves: whether the cgroup of the user daemon appears *)
(* before or after its user is made active, and whether or not its Update  *)
(* call finds the system daemon, the memory is delegated to user@.service  *)
(* in the end.                                                             *)
(***************************************************************************)
Delegated ==
  Quiet => \A u \in login_graphical \cap poked :
             <<"service", u>> \in refused \/ service[u] = "active"

(* r_manager_stop disables the protections of everybody, and of user.slice, *)
(* unless a user it had made active was missing from its list of users.     *)
StopRevokes ==
  (loop = "exited" /\ calls = <<>> /\ Orderly /\ ~StoppedTorn) =>
    Holding = {} /\ userSlice = 0 /\ \A u \in Users : service[u] # "active"

(***************************************************************************)
(* A stop ends: every pending call and every destroy notification comes,   *)
(* when the daemon had the bus.                                            *)
(***************************************************************************)
ShutdownWithBus ==
  (loop = "quit" /\ connection) ~> (loop \in {"exited", "dead"})

(***************************************************************************)
(* The comment in main(): "Gracefully shutdown on SIGTERM and SIGINT".     *)
(***************************************************************************)
ShutdownCompletes == (loop = "quit") ~> (loop \in {"exited", "dead"})
=============================================================================
