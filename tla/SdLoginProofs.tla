--------------------------- MODULE SdLoginProofs ---------------------------
(***************************************************************************)
(* The login monitor never loses a change, for any set of users, seats and *)
(* sessions and any number of changes and errors.                          *)
(***************************************************************************)
EXTENDS SdLogin, TLAPS

LEMMA InitType == Init => TypeOK
<1> SUFFICES ASSUME Init
             PROVE  TypeOK
  OBVIOUS
<1>1. 0 \in 0..MaxChanges /\ 0 \in 0..MaxErrors
  BY ConstantsAssumption
<1>2. QED
  BY <1>1 DEF Init, TypeOK

LEMMA TypeInductive == TypeOK /\ [Next]_vars => TypeOK'
<1> SUFFICES ASSUME TypeOK, [Next]_vars
             PROVE  TypeOK'
  OBVIOUS
<1> USE DEF TypeOK
<1>a. LogindStep => changes' \in 0..MaxChanges
  BY ConstantsAssumption DEF LogindStep
<1>b. ReadFails => errors' \in 0..MaxErrors /\ complete' \in BOOLEAN
  <2>1. ReadFails => errors' \in 0..MaxErrors
    BY ConstantsAssumption DEF ReadFails
  <2>2. QED
    BY <2>1 DEF ReadFails
<1>1. ASSUME NEW s \in Sessions, SessionChanges(s)
      PROVE  TypeOK'
  BY <1>1, <1>a DEF SessionChanges, LogindStep, loopVars, copyVars
<1>2. ASSUME NEW u \in Users, UserAppears(u) \/ UserDisappears(u)
      PROVE  TypeOK'
  BY <1>2, <1>a DEF UserAppears, UserDisappears, LogindStep, loopVars, copyVars
<1>3. CASE LogindChanged
  BY <1>3 DEF LogindChanged, logindVars, loopVars, copyVars
<1>4. CASE LogindQuiet
  BY <1>4 DEF LogindQuiet, logindVars
<1>5. CASE GetSeats
  BY <1>5 DEF GetSeats, logindVars, copyVars
<1>6. ASSUME NEW seat \in Seats, VisitSeat(seat)
      PROVE  TypeOK'
  BY <1>6, <1>b DEF VisitSeat, logindVars, copyVars
<1>7. ASSUME NEW s \in Sessions, VisitSession(s)
      PROVE  TypeOK'
  <2>1. Owner[s] \in Users
    BY ConstantsAssumption
  <2>2. QED
    BY <1>7, <1>b, <2>1 DEF VisitSession, logindVars
<1>8. CASE GetUids
  BY <1>8 DEF GetUids, logindVars
<1>9. CASE QuietFails
  BY <1>9, <1>b DEF QuietFails, logindVars
<1>10. CASE UNCHANGED vars
  BY <1>10 DEF vars, logindVars, loopVars, copyVars
<1>11. QED
  BY <1>1, <1>2, <1>3, <1>4, <1>5, <1>6, <1>7, <1>8, <1>9, <1>10
     DEF Next, Logind, Monitor, ScanNext, Emit

(* The monitor's variables and logind's keep their types. *)
THEOREM TypeCorrect == Spec => []TypeOK
BY InitType, TypeInductive, PTL DEF Spec

IInv == NoLostChange /\ PassSound

LEMMA InvInit == Init => IInv
BY DEF Init, IInv, NoLostChange, PassSound

(* What a pass has found agrees with logind unless the fd is marked. *)
LEMMA InvInductive == TypeOK /\ IInv /\ [Next]_vars => IInv'
<1> SUFFICES ASSUME TypeOK, IInv, [Next]_vars
             PROVE  IInv'
  OBVIOUS
<1> USE ConstantsAssumption DEF TypeOK, IInv, PassSound, NoLostChange
<1>1. CASE Logind
  <2>1. /\ mon' = TRUE
        /\ UNCHANGED <<mon_delay, loopVars, copyVars, complete>>
    BY <1>1 DEF Logind, SessionChanges, UserAppears, UserDisappears, LogindStep
  <2>2. QED
    BY <2>1 DEF loopVars, copyVars
<1>2. CASE LogindChanged
  BY <1>2 DEF LogindChanged, logindVars, loopVars, copyVars
<1>3. CASE LogindQuiet
  BY <1>3 DEF LogindQuiet, logindVars
<1>4. CASE GetSeats
  <2>1. Visited' = {}
    BY <1>4 DEF GetSeats, Visited, ToVisit, logindVars
  <2>2. QED
    BY <1>4, <2>1 DEF GetSeats, logindVars, copyVars
<1>5. ASSUME NEW seat \in Seats, VisitSeat(seat)
      PROVE  IInv'
  <2>1. \A s \in sessionsLeft' : SeatOf[s] \in CanGraphical \ seatsLeft'
    BY <1>5 DEF VisitSeat
  <2>2. complete' => Visited' = Visited
    <3> SUFFICES ASSUME complete' PROVE Visited' = Visited
      OBVIOUS
    <3>1. /\ session' = session
          /\ seatsLeft' = seatsLeft \ {seat}
          /\ sessionsLeft = {}
          /\ seat \in seatsLeft
      BY <1>5 DEF VisitSeat, logindVars
    <3>2. sessionsLeft' = IF seat \in CanGraphical
                          THEN {s \in Sessions : /\ SeatOf[s] = seat
                                                 /\ session[s] # "absent"}
                          ELSE {}
      BY <1>5 DEF VisitSeat, ReadFails
    <3>3. ASSUME NEW s \in Sessions, session[s] = "active",
                 SeatOf[s] \in CanGraphical
          PROVE  ToVisit(s)' <=> ToVisit(s)
      BY <3>1, <3>2, <3>3 DEF ToVisit
    <3>4. {t \in Sessions : /\ session[t] = "active"
                            /\ SeatOf[t] \in CanGraphical
                            /\ ~ToVisit(t)}'
          = {t \in Sessions : /\ session[t] = "active"
                              /\ SeatOf[t] \in CanGraphical
                              /\ ~ToVisit(t)}
      BY <3>1, <3>3
    <3>5. QED
      BY <3>4 DEF Visited
  <2>3. /\ pc = "scan" /\ pc' = "scan"
        /\ UNCHANGED <<mon, mon_delay, graphical_users>>
        /\ complete' => complete
    BY <1>5 DEF VisitSeat, ReadFails, copyVars
  <2>4. QED
    BY <2>1, <2>2, <2>3
<1>6. ASSUME NEW s \in Sessions, VisitSession(s)
      PROVE  IInv'
  <2>1. /\ session' = session
        /\ seatsLeft' = seatsLeft
        /\ sessionsLeft' = sessionsLeft \ {s}
        /\ SeatOf[s] \in CanGraphical \ seatsLeft
        /\ s \in sessionsLeft
    BY <1>6 DEF VisitSession, logindVars
  <2>2. Visited' = Visited \cup (IF session[s] = "active" THEN {Owner[s]}
                                                          ELSE {})
    BY <2>1 DEF Visited, ToVisit
  <2>3. complete' => graphical_users' = IF session[s] = "active"
                                        THEN graphical_users \cup {Owner[s]}
                                        ELSE graphical_users
    BY <1>6 DEF VisitSession, ReadFails
  <2>4. QED
    BY <1>6, <2>1, <2>2, <2>3 DEF VisitSession, ReadFails, logindVars
<1>7. CASE GetUids
  <2>1. Visited = GraphicalNow
    BY <1>7 DEF GetUids, Visited, ToVisit, GraphicalNow
  <2>2. GraphicalNow' = GraphicalNow
    BY <1>7 DEF GetUids, GraphicalNow, logindVars
  <2>3. QED
    BY <1>7, <2>1, <2>2 DEF GetUids, CopyIsCurrent, logindVars
<1>8. CASE QuietFails
  BY <1>8 DEF QuietFails, ReadFails, logindVars
<1>9. CASE UNCHANGED vars
  <2>1. UNCHANGED <<Visited, GraphicalNow>>
    BY <1>9 DEF vars, logindVars, loopVars, Visited, ToVisit, GraphicalNow
  <2>2. QED
    BY <1>9, <2>1 DEF vars, logindVars, loopVars, copyVars, CopyIsCurrent
<1>10. QED
  BY <1>1, <1>2, <1>3, <1>4, <1>5, <1>6, <1>7, <1>8, <1>9
     DEF Next, Monitor, ScanNext, Emit

(***************************************************************************)
(* However logind's changes fall between the reads of a pass, a copy that  *)
(* differs from logind's files after a pass without errors is due to be    *)
(* read again (logind_changed, logind_quiet).                              *)
(***************************************************************************)
THEOREM NothingLost == Spec => []NoLostChange
BY InvInit, InvInductive, TypeCorrect, PTL DEF Spec, IInv

(***************************************************************************)
(* What logind_quiet has found so far is right as long as logind has not   *)
(* marked the fd since the pass began.                                     *)
(***************************************************************************)
THEOREM PassIsSound == Spec => []PassSound
BY InvInit, InvInductive, TypeCorrect, PTL DEF Spec, IInv
=============================================================================
