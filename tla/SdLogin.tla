------------------------------ MODULE SdLogin ------------------------------
(***************************************************************************)
(* The login monitor of the system daemon, src/r-sd-login.c.               *)
(*                                                                         *)
(* RSdLogin keeps a copy of two facts that systemd-logind publishes as     *)
(* files: which users exist and which of them have an active session on a  *)
(* graphical seat.  logind changes them at any moment and marks a file     *)
(* descriptor; the monitor waits until logind has been quiet for 100ms and *)
(* then reads everything again, one file at a time, while logind may keep  *)
(* changing what is being read.                                            *)
(*                                                                         *)
(* The daemon is single threaded: a read (pc # "idle") is one callback of  *)
(* the main loop, so the steps of ScanNext interleave only with logind.    *)
(***************************************************************************)
EXTENDS Naturals, FiniteSets

CONSTANTS
  Users,      \* the uids logind may know
  Seats,      \* the seats of the machine
  CanGraphical, \* the seats for which sd_seat_can_graphical answers yes
  Sessions,   \* the sessions that may exist on those seats
  Owner,      \* [Sessions -> Users], the uid of a session
  SeatOf,     \* [Sessions -> Seats], the seat of a session
  MaxChanges, \* bound on the changes made by logind
  MaxErrors   \* bound on the reads that fail

ASSUME ConstantsAssumption ==
  /\ CanGraphical \subseteq Seats
  /\ Owner \in [Sessions -> Users]
  /\ SeatOf \in [Sessions -> Seats]
  /\ MaxChanges \in Nat
  /\ MaxErrors \in Nat

VARIABLES
  session,         \* logind: the state of each session
  known,           \* logind: the users it knows
  changes,         \* number of changes logind has made
  mon,             \* the monitor's fd is readable
  mon_delay,       \* the 100ms timer is armed
  pc,              \* what logind_quiet is about to read, "idle" outside it
  seatsLeft,       \* seats the loop has still to visit
  sessionsLeft,    \* sessions of the current seat still to visit
  graphical_users, \* the copy: users with an active graphical session
  all_users,       \* the copy: all users
  complete,        \* every read of the last pass succeeded
  errors           \* number of reads that failed

logindVars == <<session, known, changes>>
loopVars   == <<pc, seatsLeft, sessionsLeft>>
copyVars   == <<graphical_users, all_users>>
vars == <<logindVars, mon, mon_delay, loopVars, copyVars, complete, errors>>

SessionState == {"absent", "online", "active"}

(***************************************************************************)
(* What logind says now, and what the daemon has read of it.               *)
(***************************************************************************)
GraphicalNow ==
  {Owner[s] : s \in {t \in Sessions : /\ session[t] = "active"
                                      /\ SeatOf[t] \in CanGraphical}}

CopyIsCurrent == graphical_users = GraphicalNow /\ all_users = known

Init ==
  /\ session \in [Sessions -> SessionState]
  /\ known \in SUBSET Users
  /\ \A s \in Sessions : session[s] # "absent" => Owner[s] \in known
  /\ \A s, t \in Sessions :
       (session[s] = "active" /\ session[t] = "active" /\ s # t)
         => SeatOf[s] # SeatOf[t]
  /\ changes = 0
  /\ mon = FALSE
  /\ mon_delay = FALSE
  /\ pc = "seats"           \* r_sd_login_init calls logind_quiet itself
  /\ seatsLeft = {}
  /\ sessionsLeft = {}
  /\ graphical_users = {}
  /\ all_users = {}
  /\ complete = TRUE
  /\ errors = 0

-----------------------------------------------------------------------------
(***************************************************************************)
(* systemd-logind.  Each change rewrites one file and marks the monitor's  *)
(* fd.  A switch of the active session on a seat is two changes, and a     *)
(* user can disappear only after the sessions that belong to it.           *)
(***************************************************************************)
LogindStep ==
  /\ changes < MaxChanges
  /\ changes' = changes + 1
  /\ mon' = TRUE
  /\ UNCHANGED <<mon_delay, loopVars, copyVars, complete, errors>>

SessionChanges(s) ==
  /\ LogindStep
  /\ Owner[s] \in known
  /\ \E st \in SessionState \ {session[s]} :
       /\ st = "active" => \A t \in Sessions :
                             SeatOf[t] = SeatOf[s] => session[t] # "active"
       /\ session' = [session EXCEPT ![s] = st]
  /\ UNCHANGED known

UserAppears(u) ==
  /\ LogindStep
  /\ u \notin known
  /\ known' = known \cup {u}
  /\ UNCHANGED session

UserDisappears(u) ==
  /\ LogindStep
  /\ u \in known
  /\ \A s \in Sessions : Owner[s] = u => session[s] = "absent"
  /\ known' = known \ {u}
  /\ UNCHANGED session

Logind ==
  \/ \E s \in Sessions : SessionChanges(s)
  \/ \E u \in Users : UserAppears(u) \/ UserDisappears(u)

-----------------------------------------------------------------------------
(* Mutant: the event is drained and the timer is not armed. *)
LogindChangedUnarmed ==
  /\ pc = "idle"
  /\ mon
  /\ mon' = FALSE
  /\ UNCHANGED <<logindVars, mon_delay, loopVars, copyVars, complete, errors>>

(* The fd is readable: drain it and (re)start the 100ms timer. *)
LogindChanged ==
  /\ pc = "idle"
  /\ mon
  /\ mon' = FALSE
  /\ mon_delay' = TRUE
  /\ UNCHANGED <<logindVars, loopVars, copyVars, complete, errors>>

(* Mutant: a pass adds to what the last one found. *)
LogindQuietKeeping ==
  /\ pc = "idle"
  /\ mon_delay
  /\ mon_delay' = FALSE
  /\ pc' = "seats"
  /\ complete' = TRUE
  /\ UNCHANGED <<logindVars, mon, seatsLeft, sessionsLeft, copyVars, errors>>

(* The timer fires: forget the copy and start a pass over logind's files. *)
LogindQuiet ==
  /\ pc = "idle"
  /\ mon_delay
  /\ mon_delay' = FALSE
  /\ pc' = "seats"
  /\ graphical_users' = {}
  /\ all_users' = {}
  /\ complete' = TRUE
  /\ UNCHANGED <<logindVars, mon, seatsLeft, sessionsLeft, errors>>

ReadFails ==
  /\ errors < MaxErrors
  /\ errors' = errors + 1
  /\ complete' = FALSE

GetSeats ==
  /\ pc = "seats"
  /\ pc' = "scan"
  /\ seatsLeft' = Seats
  /\ UNCHANGED <<logindVars, mon, mon_delay, sessionsLeft, copyVars,
                 complete, errors>>

(* One round of the loop over the seats: the sessions it has right now. *)
VisitSeat(seat) ==
  /\ pc = "scan"
  /\ sessionsLeft = {}
  /\ seat \in seatsLeft
  /\ seatsLeft' = seatsLeft \ {seat}
  /\ \/ /\ sessionsLeft' = IF seat \in CanGraphical
                           THEN {s \in Sessions : /\ SeatOf[s] = seat
                                                  /\ session[s] # "absent"}
                           ELSE {}
        /\ UNCHANGED <<complete, errors>>
     \/ ReadFails /\ UNCHANGED sessionsLeft   \* "ignoring the seat"
  /\ UNCHANGED <<logindVars, mon, mon_delay, pc, copyVars>>

(* Mutant: the session's name is taken for its user. *)
VisitSessionByName(s) ==
  /\ pc = "scan"
  /\ s \in sessionsLeft
  /\ sessionsLeft' = sessionsLeft \ {s}
  /\ graphical_users' = IF session[s] = "active" THEN graphical_users \cup {s}
                                                  ELSE graphical_users
  /\ UNCHANGED <<logindVars, mon, mon_delay, pc, seatsLeft, all_users, complete,
                 errors>>

(* One round of the loop over a seat's sessions.  A session that has gone  *)
(* since the list was taken is skipped.                                    *)
VisitSession(s) ==
  /\ pc = "scan"
  /\ s \in sessionsLeft
  /\ sessionsLeft' = sessionsLeft \ {s}
  /\ \/ /\ graphical_users' = IF session[s] = "active"
                              THEN graphical_users \cup {Owner[s]}
                              ELSE graphical_users
        /\ UNCHANGED <<complete, errors>>
     \/ ReadFails /\ UNCHANGED graphical_users  \* "ignoring the session"
  /\ UNCHANGED <<logindVars, mon, mon_delay, pc, seatsLeft, all_users>>

(* Mutant: the fd is drained at the end of a pass too. *)
GetUidsFlushing ==
  /\ pc = "scan"
  /\ seatsLeft = {}
  /\ sessionsLeft = {}
  /\ pc' = "idle"
  /\ all_users' = known
  /\ mon' = FALSE
  /\ UNCHANGED <<logindVars, mon_delay, seatsLeft, sessionsLeft,
                 graphical_users, complete, errors>>

(* The end of logind_quiet: the list of users is read and "changed" is     *)
(* emitted.                                                                *)
GetUids ==
  /\ pc = "scan"
  /\ seatsLeft = {}
  /\ sessionsLeft = {}
  /\ pc' = "idle"
  /\ all_users' = known
  /\ UNCHANGED <<logindVars, mon, mon_delay, seatsLeft, sessionsLeft,
                 graphical_users, complete, errors>>

(* sd_get_seats or sd_get_uids fails: the copy is emptied, and "changed"   *)
(* is emitted for the empty copy.                                          *)
QuietFails ==
  /\ \/ pc = "seats"
     \/ pc = "scan" /\ seatsLeft = {} /\ sessionsLeft = {}
  /\ ReadFails
  /\ pc' = "idle"
  /\ graphical_users' = {}
  /\ all_users' = {}
  /\ UNCHANGED <<logindVars, mon, mon_delay, seatsLeft, sessionsLeft>>

(* The steps with which a pass ends: they emit "changed". *)
Emit == GetUids \/ QuietFails

ScanNext ==
  \/ GetSeats
  \/ \E seat \in Seats : VisitSeat(seat)
  \/ \E s \in Sessions : VisitSession(s)

Monitor == LogindChanged \/ LogindQuiet \/ ScanNext \/ Emit

Next == Logind \/ Monitor

(***************************************************************************)
(* The main loop dispatches a ready source and a loop over finitely many   *)
(* files ends.  logind owes no step.                                       *)
(***************************************************************************)
Spec == Init /\ [][Next]_vars /\ WF_vars(Monitor)

-----------------------------------------------------------------------------
(* Every variable of the monitor and of logind has its type. *)
TypeOK ==
  /\ session \in [Sessions -> SessionState]
  /\ known \in SUBSET Users
  /\ changes \in 0..MaxChanges
  /\ mon \in BOOLEAN
  /\ mon_delay \in BOOLEAN
  /\ pc \in {"idle", "seats", "scan"}
  /\ seatsLeft \in SUBSET Seats
  /\ sessionsLeft \in SUBSET Sessions
  /\ graphical_users \in SUBSET Users
  /\ all_users \in SUBSET Users
  /\ complete \in BOOLEAN
  /\ errors \in 0..MaxErrors

(***************************************************************************)
(* No change of logind is ever lost: outside logind_quiet, a copy that     *)
(* differs from what logind says is due to be read again, because the fd   *)
(* is readable or the timer is armed, however logind's changes interleave  *)
(* with the reads of the pass.  A pass in which a read failed is excepted: *)
(* the code does not schedule another one.                                 *)
(***************************************************************************)
NoLostChange ==
  (pc = "idle" /\ complete /\ ~CopyIsCurrent) => (mon \/ mon_delay)

(***************************************************************************)
(* The same with what a pass in progress must have got right so far, which *)
(* makes it inductive: unless the fd has been marked since the pass began, *)
(* the users found are the owners of the active sessions visited.          *)
(***************************************************************************)
ToVisit(s) ==
  SeatOf[s] \in CanGraphical /\ (SeatOf[s] \in seatsLeft \/ s \in sessionsLeft)

Visited ==
  {Owner[s] : s \in {t \in Sessions : /\ session[t] = "active"
                                      /\ SeatOf[t] \in CanGraphical
                                      /\ ~ToVisit(t)}}

PassSound ==
  /\ pc = "seats" => graphical_users = {}
  /\ pc # "scan" => seatsLeft = {} /\ sessionsLeft = {}
  /\ pc # "idle" => ~mon_delay
  /\ \A s \in sessionsLeft : SeatOf[s] \in CanGraphical \ seatsLeft
  /\ (pc = "scan" /\ complete /\ ~mon) => graphical_users = Visited

(***************************************************************************)
(* Once logind is quiet and no read fails any more, the copy becomes and   *)
(* stays what logind says.                                                 *)
(***************************************************************************)
Converges == <>[](complete => pc = "idle" /\ CopyIsCurrent)
=============================================================================
