---------------------------- MODULE SystemDaemon ----------------------------
(***************************************************************************)
(* The system daemon as main.c puts it together: the login monitor of      *)
(* r-sd-login.c and the manager of r-manager.c in one main loop, between   *)
(* systemd-logind, which says who sits at the machine, and systemd, which  *)
(* holds the allocations.                                                  *)
(*                                                                         *)
(* The manager's own module lets the login monitor come up with any lists; *)
(* here they are those a pass has read while logind went on.  A pass is    *)
(* one callback, so no callback of the manager comes in between (idle).    *)
(* What a crash leaves behind is the matter of RManager alone: here the    *)
(* daemon is started once.                                                 *)
(***************************************************************************)
EXTENDS RManager

CONSTANTS
  Seats, CanGraphical, Sessions, Owner, SeatOf,  \* see SdLogin
  MaxChanges, MaxErrors

ASSUME LoginAssumption ==
  /\ CanGraphical \subseteq Seats
  /\ Owner \in [Sessions -> Users]
  /\ SeatOf \in [Sessions -> Seats]
  /\ MaxChanges \in Nat
  /\ MaxErrors \in Nat

VARIABLES
  session, known, changes,          \* logind
  mon, mon_delay, pc, seatsLeft, sessionsLeft,
  read_graphical, read_all,         \* the monitor's own two lists
  complete, errors

logindVars  == <<session, known, changes>>
monitorVars == <<mon, mon_delay, pc, seatsLeft, sessionsLeft, read_graphical,
                 read_all, complete, errors>>
systemVars  == <<vars, logindVars, monitorVars>>

Login == INSTANCE SdLogin WITH
           graphical_users <- read_graphical, all_users <- read_all

(* main: r_manager_new, with the pass that r_sd_login_init makes at once. *)
SystemInit ==
  /\ Init
  /\ login_graphical = {} /\ login_all = {}
  /\ Login!Init

LogindStep == Login!Logind /\ UNCHANGED vars

(* The callbacks of the login monitor and what a pass reads. *)
MonitorStep ==
  /\ loop = "running"
  /\ Login!LogindChanged \/ Login!LogindQuiet \/ Login!ScanNext
  /\ UNCHANGED vars

(* Mutant: whoever has logged in is taken to sit at the machine. *)
EmitAll ==
  /\ Login!Emit
  /\ ActiveUsersChanged(read_all', read_all')
  /\ UNCHANGED events

(* The end of a pass: "changed" reaches the manager before it returns. *)
Emit ==
  /\ Login!Emit
  /\ ActiveUsersChanged(read_all', read_graphical')
  /\ UNCHANGED events

(* The callbacks of the manager. *)
ManagerStep ==
  /\ pc = "idle"
  /\ \/ BusAcquired \/ BusGrantsName \/ NameAcquired
     \/ \E u \in Users : HandleDbusMethodCall(u)
     \/ SetUnitResourcesCb \/ DecreasePendingCalls
     \/ QuitMainloop \/ RManagerFlushed
  /\ UNCHANGED <<logindVars, monitorVars>>

(* r_manager_stop lets go of the login monitor. *)
Stop ==
  /\ pc = "idle"
  /\ RManagerStop
  /\ mon' = FALSE /\ mon_delay' = FALSE
  /\ read_graphical' = {} /\ read_all' = {}
  /\ UNCHANGED <<logindVars, pc, seatsLeft, sessionsLeft, complete, errors>>

(* systemd and the user daemons, which are processes of their own. *)
SystemdServes == Systemd /\ UNCHANGED <<logindVars, monitorVars>>
UserDaemonStep == UserDaemon /\ UNCHANGED <<logindVars, monitorVars>>

SystemNext ==
  \/ LogindStep \/ MonitorStep \/ Emit
  \/ ManagerStep \/ Stop
  \/ SystemdServes \/ UserDaemonStep

(***************************************************************************)
(* Callbacks that are due are dispatched, a pass ends, and systemd serves  *)
(* the calls it is sent.  Nobody need log in or stop the daemon, and the   *)
(* bus need not come up.                                                   *)
(***************************************************************************)
SystemFairness ==
  /\ WF_systemVars(MonitorStep \/ Emit)
  /\ WF_systemVars(\E u \in Users : pc = "idle" /\ HandleDbusMethodCall(u)
                                     /\ UNCHANGED <<logindVars, monitorVars>>)
  /\ WF_systemVars(Stop)
  /\ WF_systemVars(SystemdServes)

SystemSpec == SystemInit /\ [][SystemNext]_systemVars /\ SystemFairness

-----------------------------------------------------------------------------
(* The users systemd has been asked to protect and has not yet. *)
Asked == {u \in Users : \E i \in DOMAIN calls : \E c \in calls[i] :
            c.kind = "slice" /\ c.uid = u /\ c.alloc = "active"}

(* Who is remembered by somebody: logind, a list, or a call on its way. *)
Remembered == Login!GraphicalNow \cup read_graphical \cup login_graphical \cup Asked

(***************************************************************************)
(* The daemon does what Protection promises: a slice is protected only for *)
(* a user who sits at the machine or is still remembered from doing so, in *)
(* a list or by a call, and is not remembered again without coming back.   *)
(***************************************************************************)
Abstract == INSTANCE Protection WITH
              seated <- Login!GraphicalNow, protected <- Holding, owed <- Remembered

Protects == Abstract!Spec

(***************************************************************************)
(* From logind's files to systemd: when logind is quiet and the daemon is  *)
(* on the bus, exactly the users who sit at the machine end up protected,  *)
(* and user.slice with what they add up to - if the last pass could read   *)
(* everything and systemd refused nothing.                                 *)
(***************************************************************************)
Seated == /\ Holding = Login!GraphicalNow
          /\ userSlice = MemoryFor(Cardinality(Login!GraphicalNow))

EndToEnd ==
  <>[](subscribed /\ complete /\ refused = {}) => <>[]Seated

(***************************************************************************)
(* The same as a state: the daemon has nothing left to do.  The copy the   *)
(* manager acted on is then what logind says, and the two modules together *)
(* have lost no change on the way.                                         *)
(***************************************************************************)
AtRest ==
  /\ loop = "running" /\ subscribed /\ pc = "idle"
  /\ ~mon /\ ~mon_delay
  /\ calls = <<>>

RestIsRight == (AtRest /\ complete /\ refused = {}) => Seated

(***************************************************************************)
(* r-manager.c:609, "Shutting down gracefully, set as if no user is active *)
(* (disable protections)": when the daemon has left and its calls are      *)
(* served, nobody's slice is protected.                                    *)
(***************************************************************************)
StopDisables == (loop = "exited" /\ calls = <<>> /\ refused = {}) => Holding = {}
=============================================================================
