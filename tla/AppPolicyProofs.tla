-------------------------- MODULE AppPolicyProofs --------------------------
(***************************************************************************)
(* For any applications, streams and games and any configuration file: the *)
(* weights asked for are in systemd's range, and an application that has   *)
(* gone is forgotten for good.                                             *)
(***************************************************************************)
EXTENDS AppPolicy, TLAPS

LEMMA ClampBounds ==
  ASSUME NEW x \in Int, NEW low \in Int, NEW high \in Int, low <= high
  PROVE  Clamp(x, low, high) \in low..high
BY DEF Clamp

LEMMA ClampedWeight ==
  ASSUME NEW x \in Int
  PROVE  Clamp(x, MinWeight, MaxWeight) \in Weights
BY DEF Clamp, Weights, MinWeight, MaxWeight

(* What is left above the active weight bounds the boost. *)
LEMMA ClampedBoost ==
  ASSUME NEW x \in Int, NEW active \in Weights
  PROVE  /\ Clamp(x, 0, MaxWeight - active) \in 0..(MaxWeight - 1)
         /\ active + Clamp(x, 0, MaxWeight - active) <= MaxWeight
BY DEF Clamp, Weights, MinWeight, MaxWeight

LEMMA IntegerType ==
  ASSUME NEW f \in ConfFiles, NEW key \in Keys, NEW builtin \in Int
  PROVE  Integer(f, key, builtin) \in Int
BY PolicyAssumption DEF Integer

Bounded(c) ==
  /\ c \in [default : Weights, active : Weights, inc : 0..(MaxWeight - 1)]
  /\ c.active + c.inc <= MaxWeight

(* Whatever the file says, the weights read_config settles on are in range. *)
LEMMA ReadConfigBounds ==
  ASSUME NEW f \in ConfFiles
  PROVE  Bounded(ReadConfig(f))
<1> DEFINE default == Integer(f, "Default", 100)
           active  == Integer(f, "Active", 100)
           inc     == Integer(f, "BoostInc", 0)
           weight0 == Clamp(active, MinWeight, MaxWeight)
<1>1. default \in Int /\ active \in Int /\ inc \in Int
  BY IntegerType DEF Keys
<1>2. ReadConfig(f) =
        [default |-> Clamp(default, MinWeight, MaxWeight),
         active |-> weight0,
         inc |-> Clamp(inc, 0, MaxWeight - weight0)]
  BY DEF ReadConfig
<1> HIDE DEF default, active, inc
<1>3. Clamp(default, MinWeight, MaxWeight) \in Weights /\ weight0 \in Weights
  BY <1>1, ClampedWeight
<1> HIDE DEF weight0
<1>4. /\ Clamp(inc, 0, MaxWeight - weight0) \in 0..(MaxWeight - 1)
      /\ weight0 + Clamp(inc, 0, MaxWeight - weight0) <= MaxWeight
  BY <1>1, <1>3, ClampedBoost
<1>5. QED
  BY <1>2, <1>3, <1>4 DEF Bounded

LEMMA Sums ==
  ASSUME NEW d \in Weights, NEW act \in Weights,
         NEW inc \in 0..(MaxWeight - 1),
         act + inc <= MaxWeight
  PROVE  /\ {d, act, d + inc, act + inc} \subseteq Nat
         /\ d <= act => {d, act, d + inc, act + inc} \subseteq Weights
<1>1. inc \in Nat
  BY DEF MaxWeight
<1>2. d \in Nat /\ act \in Nat /\ d + inc \in Nat /\ act + inc \in Nat
  BY <1>1 DEF Weights, MinWeight, MaxWeight
<1>3. ASSUME d <= act PROVE d + inc \in Weights
  BY <1>1, <1>3 DEF Weights, MinWeight, MaxWeight
<1>4. act + inc \in Weights
  BY <1>1 DEF Weights, MinWeight, MaxWeight
<1>5. QED
  BY <1>2, <1>3, <1>4

(* A weight asked for is in range unless the default is above the active. *)
LEMMA WeightBounds ==
  ASSUME NEW c, Bounded(c), NEW focus, NEW boost
  PROVE  /\ WeightOf(c, focus, boost) \in Nat
         /\ c.default <= c.active => WeightOf(c, focus, boost) \in Weights
<1>1. c.default \in Weights /\ c.active \in Weights /\ c.inc \in 0..(MaxWeight - 1)
  BY DEF Bounded
<1>2. c.active + c.inc <= MaxWeight
  BY DEF Bounded
<1>3. WeightOf(c, focus, boost) \in
        {c.default, c.active, c.default + c.inc, c.active + c.inc}
  <2>1. CASE boost /\ focus   BY <2>1 DEF WeightOf
  <2>2. CASE boost /\ ~focus  BY <2>2 DEF WeightOf
  <2>3. CASE ~boost           BY <2>3, <1>1 DEF WeightOf, Weights
  <2>4. QED
    BY <2>1, <2>2, <2>3
<1>4. QED
  BY <1>1, <1>2, <1>3, Sums
-----------------------------------------------------------------------------
(***************************************************************************)
(* Weights: what is on its way to systemd was computed from the weights    *)
(* of read_config, which no step changes.                                  *)
(***************************************************************************)
Allowed == {w \in Nat : cfg.default <= cfg.active => w \in Weights}

CallsInv == Bounded(cfg) /\ calls \in [Apps -> Seq(Allowed)]

LEMMA CallsInvInRange == CallsInv => WeightsInRange
<1> SUFFICES ASSUME CallsInv, cfg.default <= cfg.active,
                    NEW a \in Apps, NEW i \in DOMAIN calls[a]
             PROVE  calls[a][i] \in Weights
  BY DEF WeightsInRange
<1>1. calls[a] \in Seq(Allowed)
  BY DEF CallsInv
<1>2. calls[a][i] \in Allowed
  BY <1>1
<1>3. QED
  BY <1>2 DEF Allowed

LEMMA CallsInvInit == Init => CallsInv
<1> SUFFICES ASSUME Init PROVE CallsInv
  OBVIOUS
<1>1. Bounded(cfg)
  BY ReadConfigBounds DEF Init, PolicyStart
<1>2. calls \in [Apps -> Seq(Allowed)]
  BY DEF Init
<1>3. QED
  BY <1>1, <1>2 DEF CallsInv

LEMMA AppendCall ==
  ASSUME NEW S, NEW f \in [Apps -> Seq(S)], NEW a, NEW w \in S
  PROVE  [f EXCEPT ![a] = Append(@, w)] \in [Apps -> Seq(S)]
<1>1. CASE a \in Apps
  BY <1>1
<1>2. CASE a \notin Apps
  BY <1>2
<1>3. QED
  BY <1>1, <1>2

LEMMA WeightAllowed ==
  ASSUME CallsInv, NEW focus, NEW boost
  PROVE  WeightOf(cfg, focus, boost) \in Allowed
BY WeightBounds DEF CallsInv, Allowed

LEMMA CallsUnchanged ==
  ASSUME CallsInv, cfg' = cfg, calls' = calls
  PROVE  CallsInv'
BY DEF CallsInv, Allowed

LEMMA ChangedCalls ==
  ASSUME CallsInv, cfg' = cfg, NEW a, NEW stamp, NEW flags, Changed(a, stamp, flags)
  PROVE  CallsInv'
<1> DEFINE w == WeightOf(cfg, stamp = "active", flags # {})
<1>1. w \in Allowed
  BY WeightAllowed
<1>2. calls' = [calls EXCEPT ![a] = Append(@, w)] \/ calls' = calls
  BY DEF Changed, callVars
<1> HIDE DEF w
<1>3. calls \in [Apps -> Seq(Allowed)]
  BY DEF CallsInv
<1>4. calls' \in [Apps -> Seq(Allowed)]
  <2>1. CASE calls' = [calls EXCEPT ![a] = Append(@, w)]
    BY <1>1, <1>3, <2>1, AppendCall
  <2>2. CASE calls' = calls
    BY <1>3, <2>2
  <2>3. QED
    BY <1>2, <2>1, <2>2
<1>5. QED
  BY <1>4 DEF CallsInv, Allowed

LEMMA BoostCalls ==
  ASSUME CallsInv, cfg' = cfg, NEW p, NEW flags, Boost(p, flags)
  PROVE  CallsInv'
<1>1. CASE Found(p)
  BY <1>1, ChangedCalls DEF Boost
<1>2. CASE ~Found(p)
  BY <1>2, CallsUnchanged DEF Boost, callVars
<1>3. QED
  BY <1>1, <1>2

LEMMA StopCalls ==
  ASSUME CallsInv, cfg' = cfg, PolicyStop
  PROVE  CallsInv'
<1> DEFINE w == WeightOf(cfg, FALSE, FALSE)
<1>1. w \in Allowed
  BY WeightAllowed
<1>2. \/ calls' = calls
      \/ calls' = [a \in Apps |-> IF a \in Reset THEN Append(calls[a], w) ELSE calls[a]]
  BY DEF PolicyStop, callVars
<1> HIDE DEF w
<1>3. calls \in [Apps -> Seq(Allowed)]
  BY DEF CallsInv
<1>4. calls' \in [Apps -> Seq(Allowed)]
  <2>1. CASE calls' = calls
    BY <1>3, <2>1
  <2>2. CASE calls' = [a \in Apps |-> IF a \in Reset THEN Append(calls[a], w) ELSE calls[a]]
    <3>1. \A a \in Apps : Append(calls[a], w) \in Seq(Allowed) /\ calls[a] \in Seq(Allowed)
      BY <1>1, <1>3
    <3>2. QED
      BY <2>2, <3>1
  <2>3. QED
    BY <1>2, <2>1, <2>2
<1>5. QED
  BY <1>4 DEF CallsInv, Allowed

LEMMA ServeCalls ==
  ASSUME CallsInv, NEW a \in Apps, SetUnitProperties(a)
  PROVE  CallsInv'
<1>1. calls[a] # <<>> /\ calls' = [calls EXCEPT ![a] = Tail(@)] /\ cfg' = cfg
  BY DEF SetUnitProperties
<1>2. calls' \in [Apps -> Seq(Allowed)]
  BY <1>1 DEF CallsInv
<1>3. QED
  BY <1>1, <1>2 DEF CallsInv, Allowed

LEMMA CallsInvStep == CallsInv /\ [Next]_vars => CallsInv'
<1> SUFFICES ASSUME CallsInv, [Next]_vars PROVE CallsInv'
  OBVIOUS
<1>1. CASE UNCHANGED vars
  BY <1>1, CallsUnchanged DEF vars, callVars
<1>2. CASE World
  <2>1. cfg' = cfg /\ calls' = calls
    BY <1>2 DEF World, Happens, UnitStarts, UnitStops, Focus, Exit, GameRegisters,
         GameUnregisters, NodeAppears, NodeRemoved, Bind, NodeChanges, PipeWireDies,
         callVars
  <2>2. QED
    BY <2>1, CallsUnchanged
<1>3. CASE SystemdBusProxyReady \/ GamemodeBusProxyReady \/ RegistryEventGlobal \/ RemovedProxy
  BY <1>3, CallsUnchanged DEF SystemdBusProxyReady, GamemodeBusProxyReady,
       RegistryEventGlobal, RemovedProxy, NextPwEvent, Dispatch, callVars
<1>4. ASSUME NEW a \in Apps, InCreate(a) \/ InDelete(a) PROVE CallsInv'
  BY <1>4, CallsUnchanged DEF InCreate, InDelete, Inotify, Dispatch, callVars
<1>5. ASSUME NEW a \in Apps, InAttrib(a) PROVE CallsInv'
  <2>1. cfg' = cfg
    BY <1>5 DEF InAttrib, Inotify, Dispatch
  <2>2. Changed(a, Stamp(a), boosted[a]) \/ calls' = calls
    BY <1>5 DEF InAttrib, callVars
  <2>3. QED
    BY <2>1, <2>2, ChangedCalls, CallsUnchanged
<1>6. CASE NodeEventInfo
  <2> DEFINE p == PidOf[Head(pw).node]
             flags == boosted[UnitOf[p]]
  <2>1. cfg' = cfg
    BY <1>6 DEF NodeEventInfo, NextPwEvent, Dispatch
  <2>2. Boost(p, flags \cup {"audio"}) \/ Boost(p, flags \ {"audio"}) \/ calls' = calls
    BY <1>6 DEF NodeEventInfo, callVars
  <2>3. QED
    BY <2>1, <2>2, BoostCalls, CallsUnchanged
<1>7. CASE GamemodeOnSignalReceived
  BY <1>7, BoostCalls DEF GamemodeOnSignalReceived, Dispatch
<1>8. CASE Stop
  BY <1>8, StopCalls DEF Stop
<1>9. ASSUME NEW a \in Apps, SetUnitProperties(a) PROVE CallsInv'
  BY <1>9, ServeCalls
<1>10. QED
  BY <1>1, <1>2, <1>3, <1>4, <1>5, <1>6, <1>7, <1>8, <1>9 DEF Next, Daemon

(* Whatever the file says, no call asks for a weight out of range, unless  *)
(* the default weight is above the active one.                             *)
THEOREM InRange == Spec => []WeightsInRange
<1>1. Spec => []CallsInv
  BY CallsInvInit, CallsInvStep, PTL DEF Spec
<1>2. QED
  BY <1>1, CallsInvInRange, PTL
-----------------------------------------------------------------------------
(***************************************************************************)
(* Types, one part of the state at a time: no part needs another one to    *)
(* keep its types.                                                         *)
(***************************************************************************)
LEMMA UnitsStep == UnitsTypeOK /\ [Next]_vars => UnitsTypeOK'
<1> SUFFICES ASSUME UnitsTypeOK, [Next]_vars PROVE UnitsTypeOK'
  OBVIOUS
<1> USE DEF UnitsTypeOK, Up
<1>1. CASE UNCHANGED unitVars
  BY <1>1 DEF unitVars
<1>2. ASSUME NEW a \in Apps, UnitStarts(a) PROVE UnitsTypeOK'
  BY <1>2, PolicyAssumption DEF UnitStarts, Report, PidsOf
<1>3. ASSUME NEW a \in Apps, UnitStops(a) PROVE UnitsTypeOK'
  BY <1>3, PolicyAssumption DEF UnitStops, Report, PidsOf
<1>4. ASSUME NEW a \in Apps, Focus(a) PROVE UnitsTypeOK'
  BY <1>4 DEF Focus, Report
<1>5. ASSUME NEW p \in Pids, Exit(p) PROVE UnitsTypeOK'
  BY <1>5 DEF Exit
<1>6. ASSUME NEW a \in Apps, NEW kind, NEW earlier, Inotify(a, kind, earlier)
      PROVE  UnitsTypeOK'
  BY <1>6 DEF Inotify
<1>7. ASSUME NEW a \in Apps, InCreate(a) \/ InAttrib(a) \/ InDelete(a)
      PROVE  UnitsTypeOK'
  BY <1>6, <1>7 DEF InCreate, InAttrib, InDelete
<1>8. CASE \/ \E p \in Pids : GameRegisters(p) \/ GameUnregisters(p)
           \/ \E n \in Nodes : NodeAppears(n) \/ NodeRemoved(n) \/ Bind(n)
           \/ \E n \in Nodes, st \in States : NodeChanges(n, st)
           \/ PipeWireDies
  <2>1. UNCHANGED unitVars
    BY <1>8 DEF GameRegisters, GameUnregisters, NodeAppears, NodeRemoved, Bind,
         NodeChanges, PipeWireDies
  <2>2. QED
    BY <1>1, <2>1
<1>9. CASE \/ SystemdBusProxyReady \/ GamemodeBusProxyReady \/ RegistryEventGlobal
           \/ NodeEventInfo \/ RemovedProxy \/ GamemodeOnSignalReceived \/ Stop
           \/ \E a \in Apps : SetUnitProperties(a)
  <2>1. UNCHANGED unitVars
    BY <1>9 DEF SystemdBusProxyReady, GamemodeBusProxyReady, RegistryEventGlobal,
         NodeEventInfo, RemovedProxy, NextPwEvent, GamemodeOnSignalReceived, Stop,
         SetUnitProperties
  <2>2. QED
    BY <1>1, <2>1
<1>10. QED
  BY <1>1, <1>2, <1>3, <1>4, <1>5, <1>7, <1>8, <1>9 DEF Next, World, Daemon, vars

LEMMA InfoStep == InfoTypeOK /\ [Next]_vars => InfoTypeOK'
<1> SUFFICES ASSUME InfoTypeOK, [Next]_vars PROVE InfoTypeOK'
  OBVIOUS
<1> USE DEF InfoTypeOK
<1>1. CASE UNCHANGED infoVars
  BY <1>1 DEF infoVars
<1>2. CASE World
  <2>1. UNCHANGED infoVars
    BY <1>2 DEF World, Happens, UnitStarts, UnitStops, Focus, Exit, GameRegisters,
         GameUnregisters, NodeAppears, NodeRemoved, Bind, NodeChanges, PipeWireDies
  <2>2. QED
    BY <1>1, <2>1
<1>3. ASSUME NEW a, Reread(a)
      PROVE  timestamp' \in [Apps -> {"none", "inactive", "active"}]
  BY <1>3 DEF Reread, Stamp
<1>4. ASSUME NEW a \in Apps, InCreate(a) \/ InAttrib(a) \/ InDelete(a)
      PROVE  InfoTypeOK'
  <2>1. CASE InCreate(a)
    BY <1>3, <2>1 DEF InCreate
  <2>2. CASE InAttrib(a)
    BY <1>3, <2>2 DEF InAttrib
  <2>3. CASE InDelete(a)
    BY <2>3 DEF InDelete
  <2>4. QED
    BY <1>4, <2>1, <2>2, <2>3
<1>5. ASSUME NEW p, NEW flags, Boost(p, flags),
             UnitOf[p] \in Apps => flags \in SUBSET {"audio", "game"}
      PROVE  InfoTypeOK'
  <2>1. CASE Found(p)
    <3>1. timestamp' \in [Apps -> {"none", "inactive", "active"}]
      BY <1>3, <1>5, <2>1 DEF Boost
    <3>2. boosted' = [boosted EXCEPT ![UnitOf[p]] = flags]
      BY <1>5, <2>1 DEF Boost
    <3>3. QED
      BY <1>5, <3>1, <3>2
  <2>2. CASE ~Found(p)
    BY <1>5, <2>2 DEF Boost, infoVars
  <2>3. QED
    BY <2>1, <2>2
<1>6. CASE NodeEventInfo
  <2> DEFINE p == PidOf[Head(pw).node]
             flags == boosted[UnitOf[p]]
  <2>1. \/ Boost(p, flags \cup {"audio"})
        \/ Boost(p, flags \ {"audio"})
        \/ boosted' = boosted /\ (Reread(UnitOf[p]) \/ timestamp' = timestamp)
    BY <1>6 DEF NodeEventInfo
  <2>2. UnitOf[p] \in Apps => flags \in SUBSET {"audio", "game"}
    OBVIOUS
  <2> HIDE DEF p, flags
  <2>3. QED
    BY <1>3, <1>5, <2>1, <2>2
<1>7. CASE GamemodeOnSignalReceived
  <2> DEFINE p == Head(signals).pid
             flags == boosted[UnitOf[p]]
  <2>1. Boost(p, flags \cup {"game"}) \/ Boost(p, flags \ {"game"})
    BY <1>7 DEF GamemodeOnSignalReceived
  <2>2. UnitOf[p] \in Apps => flags \in SUBSET {"audio", "game"}
    OBVIOUS
  <2> HIDE DEF p, flags
  <2>3. QED
    BY <1>5, <2>1, <2>2
<1>8. CASE Stop
  BY <1>8 DEF Stop, PolicyStop
<1>9. CASE \/ SystemdBusProxyReady \/ GamemodeBusProxyReady \/ RegistryEventGlobal
           \/ RemovedProxy \/ \E a \in Apps : SetUnitProperties(a)
  <2>1. UNCHANGED infoVars
    BY <1>9 DEF SystemdBusProxyReady, GamemodeBusProxyReady, RegistryEventGlobal,
         RemovedProxy, SetUnitProperties
  <2>2. QED
    BY <1>1, <2>1
<1>10. QED
  BY <1>1, <1>2, <1>4, <1>6, <1>7, <1>8, <1>9 DEF Next, Daemon, vars

PwEvents == [kind : {"global", "info", "removed"}, node : Nodes, state : States]

LEMMA PwStep == PwTypeOK /\ [Next]_vars => PwTypeOK'
<1> SUFFICES ASSUME PwTypeOK, [Next]_vars PROVE PwTypeOK'
  OBVIOUS
<1>1. CASE UNCHANGED pwVars
  BY <1>1 DEF pwVars, PwTypeOK
<1>2. /\ pipewire \in BOOLEAN
      /\ node \in [Nodes -> States \cup {"none", "gone"}]
      /\ bound \in SUBSET Nodes /\ binding \in SUBSET Nodes
      /\ pw \in Seq(PwEvents)
  BY DEF PwTypeOK, PwEvents
<1>3. SUFFICES ASSUME ~UNCHANGED pwVars
      PROVE  /\ pipewire' \in BOOLEAN
             /\ node' \in [Nodes -> States \cup {"none", "gone"}]
             /\ bound' \in SUBSET Nodes /\ binding' \in SUBSET Nodes
             /\ pw' \in Seq(PwEvents)
  BY <1>1 DEF PwTypeOK, PwEvents
<1>4. ASSUME NEW n \in Nodes, NEW kind \in {"global", "info", "removed"}, NEW st \in States
      PROVE  /\ Append(pw, Event(kind, n, st)) \in Seq(PwEvents)
             /\ Tell(n, kind, st) => pw' \in Seq(PwEvents)
  <2>1. Event(kind, n, st) \in PwEvents
    BY DEF Event, PwEvents
  <2>2. QED
    BY <1>2, <2>1 DEF Tell
<1>5. CASE \E n \in Nodes : NodeAppears(n)
  BY <1>2, <1>4, <1>5 DEF NodeAppears, States
<1>6. CASE \E n \in Nodes, st \in States : NodeChanges(n, st)
  BY <1>2, <1>4, <1>6 DEF NodeChanges
<1>7. CASE \E n \in Nodes : NodeRemoved(n)
  BY <1>2, <1>4, <1>7 DEF NodeRemoved, States
<1>8. CASE PipeWireDies
  BY <1>2, <1>8 DEF PipeWireDies
<1>9. CASE \E n \in Nodes : Bind(n)
  BY <1>2, <1>4, <1>9 DEF Bind
<1>10. CASE RegistryEventGlobal \/ NodeEventInfo \/ RemovedProxy
  <2>1. PICK kind : NextPwEvent(kind)
    BY <1>10 DEF RegistryEventGlobal, NodeEventInfo, RemovedProxy
  <2>2. /\ pipewire' = pipewire /\ node' = node /\ bound' = bound
        /\ pw' \in Seq(PwEvents) /\ Head(pw) \in PwEvents
    BY <1>2, <2>1 DEF NextPwEvent
  <2>3. binding' \in SUBSET Nodes
    BY <1>2, <1>10, <2>2 DEF RegistryEventGlobal, NodeEventInfo, RemovedProxy, PwEvents
  <2>4. QED
    BY <1>2, <2>2, <2>3
<1>11. CASE \/ \E a \in Apps : UnitStarts(a) \/ UnitStops(a) \/ Focus(a)
            \/ \E p \in Pids : Exit(p) \/ GameRegisters(p) \/ GameUnregisters(p)
            \/ \E a \in Apps : InCreate(a) \/ InAttrib(a) \/ InDelete(a)
            \/ SystemdBusProxyReady \/ GamemodeBusProxyReady
            \/ GamemodeOnSignalReceived \/ Stop
            \/ \E a \in Apps : SetUnitProperties(a)
  <2>1. UNCHANGED pwVars
    BY <1>11 DEF UnitStarts, UnitStops, Focus, Exit, GameRegisters, GameUnregisters,
         InCreate, InAttrib, InDelete, Inotify, SystemdBusProxyReady,
         GamemodeBusProxyReady, GamemodeOnSignalReceived, Stop, SetUnitProperties
  <2>2. QED
    BY <1>3, <2>1
<1>12. QED
  BY <1>3, <1>5, <1>6, <1>7, <1>8, <1>9, <1>10, <1>11 DEF Next, World, Daemon, vars

LEMMA GamesStep == GamesTypeOK /\ [Next]_vars => GamesTypeOK'
<1> SUFFICES ASSUME GamesTypeOK, [Next]_vars PROVE GamesTypeOK'
  OBVIOUS
<1> USE DEF GamesTypeOK
<1>1. CASE UNCHANGED gameVars
  BY <1>1 DEF gameVars
<1>2. ASSUME NEW p \in Pids, GameRegisters(p) \/ GameUnregisters(p) PROVE GamesTypeOK'
  <2>1. /\ gproxy' = gproxy /\ games' \in SUBSET Pids
        /\ Signal(p, TRUE) \/ Signal(p, FALSE)
    BY <1>2 DEF GameRegisters, GameUnregisters, Happens
  <2>2. PICK on \in BOOLEAN : Signal(p, on)
    BY <2>1
  <2>3. signals' = Append(signals, [pid |-> p, on |-> on]) \/ signals' = signals
    BY <2>2 DEF Signal
  <2> DEFINE Sent == [pid : Pids, on : BOOLEAN]
  <2>4. [pid |-> p, on |-> on] \in Sent /\ signals \in Seq(Sent)
    OBVIOUS
  <2> HIDE DEF Sent
  <2>5. signals' \in Seq(Sent)
    BY <2>3, <2>4
  <2>6. QED
    BY <2>1, <2>5 DEF Sent
<1>3. CASE GamemodeOnSignalReceived
  BY <1>3 DEF GamemodeOnSignalReceived
<1>4. CASE GamemodeBusProxyReady \/ Stop
  BY <1>4 DEF GamemodeBusProxyReady, Stop
<1>5. CASE \/ \E a \in Apps : UnitStarts(a) \/ UnitStops(a) \/ Focus(a)
           \/ \E p \in Pids : Exit(p)
           \/ \E n \in Nodes : NodeAppears(n) \/ NodeRemoved(n) \/ Bind(n)
           \/ \E n \in Nodes, st \in States : NodeChanges(n, st)
           \/ PipeWireDies
           \/ \E a \in Apps : InCreate(a) \/ InAttrib(a) \/ InDelete(a)
           \/ SystemdBusProxyReady \/ RegistryEventGlobal \/ NodeEventInfo
           \/ RemovedProxy \/ \E a \in Apps : SetUnitProperties(a)
  <2>1. UNCHANGED gameVars
    BY <1>5 DEF Happens, UnitStarts, UnitStops, Focus, Exit, NodeAppears, NodeRemoved,
         Bind, NodeChanges, PipeWireDies, InCreate, InAttrib, InDelete, Inotify,
         SystemdBusProxyReady, RegistryEventGlobal, NodeEventInfo, RemovedProxy,
         NextPwEvent, SetUnitProperties, gameVars
  <2>2. QED
    BY <1>1, <2>1
<1>6. QED
  BY <1>1, <1>2, <1>3, <1>4, <1>5 DEF Next, World, Daemon, vars

LEMMA MainStep == MainTypeOK /\ [Next]_vars => MainTypeOK'
<1> SUFFICES ASSUME MainTypeOK, [Next]_vars PROVE MainTypeOK'
  OBVIOUS
<1> USE DEF MainTypeOK
<1>1. CASE UNCHANGED <<cfg, main, proxy, missed, changes>>
  BY <1>1
<1>2. ASSUME NEW when, NEW a \in Apps, Miss(when, a) PROVE missed' \in SUBSET Apps
  BY <1>2 DEF Miss
<1>3. \A n \in Nodes : App(n) \in Apps
  BY PolicyAssumption DEF App
<1>4. CASE World
  <2>1. cfg' = cfg /\ main' = main /\ proxy' = proxy
    BY <1>4 DEF World, Happens, UnitStarts, UnitStops, Focus, Exit, GameRegisters,
         GameUnregisters, NodeAppears, NodeRemoved, Bind, NodeChanges, PipeWireDies
  <2>2. changes' \in 0..MaxChanges
    <3>1. changes' = changes \/ (changes < MaxChanges /\ changes' = changes + 1)
      BY <1>4 DEF World, Happens, UnitStarts, UnitStops, Focus, Exit, GameRegisters,
           GameUnregisters, NodeAppears, NodeRemoved, Bind, NodeChanges, PipeWireDies
    <3>2. QED
      BY <3>1, PolicyAssumption
  <2>3. missed' \in SUBSET Apps
    <3>1. \A p \in Pids : UnitOf[p] \in Apps
      BY PolicyAssumption
    <3>2. CASE \E a \in Apps : UnitStarts(a) \/ UnitStops(a) \/ Focus(a)
      BY <3>2 DEF UnitStarts, UnitStops, Focus
    <3>3. CASE \E p \in Pids : Exit(p) \/ GameRegisters(p) \/ GameUnregisters(p)
      BY <1>2, <3>1, <3>3 DEF Exit, GameRegisters, GameUnregisters, Signal
    <3>4. CASE \E n \in Nodes : NodeAppears(n) \/ NodeRemoved(n) \/ Bind(n)
      BY <1>2, <1>3, <3>4 DEF NodeAppears, NodeRemoved, Bind
    <3>5. CASE \E n \in Nodes, st \in States : NodeChanges(n, st)
      BY <1>2, <1>3, <3>5 DEF NodeChanges
    <3>6. CASE PipeWireDies
      BY <1>3, <3>6 DEF PipeWireDies
    <3>7. QED
      BY <1>4, <3>2, <3>3, <3>4, <3>5, <3>6 DEF World
  <2>4. QED
    BY <2>1, <2>2, <2>3
<1>5. CASE Stop
  BY <1>5 DEF Stop
<1>6. CASE Daemon \/ \E a \in Apps : SetUnitProperties(a)
  <2>1. UNCHANGED <<cfg, main, missed, changes>> /\ proxy' \in BOOLEAN
    BY <1>6 DEF Daemon, SystemdBusProxyReady, GamemodeBusProxyReady, InCreate, InAttrib,
         InDelete, Inotify, RegistryEventGlobal, NodeEventInfo, RemovedProxy,
         NextPwEvent, GamemodeOnSignalReceived, Dispatch, SetUnitProperties
  <2>2. QED
    BY <2>1
<1>7. QED
  BY <1>1, <1>4, <1>5, <1>6 DEF Next, vars

LEMMA ServedStep ==
  weight \in [Apps -> Weights] /\ sent \in SUBSET Apps /\ [Next]_vars
    => weight' \in [Apps -> Weights] /\ sent' \in SUBSET Apps
<1> SUFFICES ASSUME weight \in [Apps -> Weights], sent \in SUBSET Apps, [Next]_vars
             PROVE  weight' \in [Apps -> Weights] /\ sent' \in SUBSET Apps
  OBVIOUS
<1>1. CASE UNCHANGED <<weight, sent>>
  BY <1>1
<1>2. ASSUME NEW a \in Apps, SetUnitProperties(a)
      PROVE  weight' \in [Apps -> Weights] /\ sent' \in SUBSET Apps
  BY <1>2 DEF SetUnitProperties
<1>3. CASE World
  <2>1. UNCHANGED <<weight, sent>>
    BY <1>3 DEF World, Happens, UnitStarts, UnitStops, Focus, Exit, GameRegisters,
         GameUnregisters, NodeAppears, NodeRemoved, Bind, NodeChanges, PipeWireDies,
         callVars
  <2>2. QED
    BY <1>1, <2>1
<1>4. ASSUME NEW a \in Apps, NEW stamp, NEW flags, Changed(a, stamp, flags)
      PROVE  sent' \in SUBSET Apps
  BY <1>4 DEF Changed, callVars
<1>5. ASSUME NEW p, NEW flags, Boost(p, flags)
      PROVE  sent' \in SUBSET Apps
  BY <1>4, <1>5 DEF Boost, Found, Up, callVars
<1>6. CASE Daemon
  <2>1. weight' = weight
    BY <1>6 DEF Daemon, SystemdBusProxyReady, GamemodeBusProxyReady, InCreate, InAttrib,
         InDelete, Inotify, RegistryEventGlobal, NodeEventInfo, RemovedProxy,
         NextPwEvent, GamemodeOnSignalReceived, Dispatch
  <2>2. CASE \E a \in Apps : InAttrib(a)
    <3>1. PICK a \in Apps : InAttrib(a)
      BY <2>2
    <3>2. Changed(a, Stamp(a), boosted[a]) \/ sent' = sent
      BY <3>1 DEF InAttrib, callVars
    <3>3. QED
      BY <1>4, <2>1, <3>2
  <2>3. CASE NodeEventInfo \/ GamemodeOnSignalReceived
    <3>1. (\E p, flags : Boost(p, flags)) \/ sent' = sent
      BY <2>3 DEF NodeEventInfo, GamemodeOnSignalReceived, callVars
    <3>2. QED
      BY <1>5, <2>1, <3>1
  <2>4. CASE \/ SystemdBusProxyReady \/ GamemodeBusProxyReady \/ RegistryEventGlobal
             \/ RemovedProxy \/ \E a \in Apps : InCreate(a) \/ InDelete(a)
    BY <2>1, <2>4 DEF SystemdBusProxyReady, GamemodeBusProxyReady, RegistryEventGlobal,
         RemovedProxy, InCreate, InDelete, callVars
  <2>5. QED
    BY <1>6, <2>2, <2>3, <2>4 DEF Daemon
<1>7. CASE Stop
  BY <1>7 DEF Stop, PolicyStop, Reset, callVars
<1>8. QED
  BY <1>1, <1>2, <1>3, <1>6, <1>7 DEF Next, vars, callVars

LEMMA SeqOfMore ==
  ASSUME NEW S, NEW T, S \subseteq T
  PROVE  Seq(S) \subseteq Seq(T)
OBVIOUS

TypeInv == TypeOK /\ CallsInv

LEMMA TypeInit == Init => TypeInv
<1> SUFFICES ASSUME Init PROVE TypeInv
  OBVIOUS
<1>1. CallsInv
  BY CallsInvInit
<1>2. MainTypeOK
  <2>1. cfg \in [default : Weights, active : Weights, inc : 0..(MaxWeight - 1)]
    BY <1>1 DEF CallsInv, Bounded
  <2>2. main = "running" /\ proxy = FALSE /\ missed = {} /\ changes = 0
    BY DEF Init, PolicyStart
  <2>3. changes \in 0..MaxChanges
    BY <2>2, PolicyAssumption
  <2>4. QED
    BY <2>1, <2>2, <2>3 DEF MainTypeOK
<1>3. UnitsTypeOK
  <2>1. /\ units \in [Apps -> {"new", "up"}]
        /\ focused \in SUBSET Up
        /\ inotify \in [Apps -> {{}, {"create"}}]
        /\ alive = {p \in Pids : UnitOf[p] \in Up}
    BY DEF Init
  <2>2. QED
    BY <2>1 DEF UnitsTypeOK
<1>4. PwTypeOK /\ GamesTypeOK
  <2>1. /\ pipewire \in BOOLEAN /\ node = [n \in Nodes |-> "none"]
        /\ bound = {} /\ binding = {} /\ pw = <<>>
        /\ games = {} /\ signals = <<>> /\ gproxy = FALSE
    BY DEF Init, PwInit, GameInit
  <2>2. \A S : <<>> \in Seq(S)
    OBVIOUS
  <2>3. node \in [Nodes -> States \cup {"none", "gone"}]
    BY <2>1
  <2>4. PwTypeOK
    BY <2>1, <2>2, <2>3 DEF PwTypeOK
  <2>5. GamesTypeOK
    BY <2>1, <2>2 DEF GamesTypeOK
  <2>6. QED
    BY <2>4, <2>5
<1>5. InfoTypeOK
  BY DEF Init, InfoTypeOK
<1>6. CallsTypeOK
  BY DEF Init, CallsTypeOK, Weights, MinWeight, MaxWeight
<1>7. QED
  BY <1>1, <1>2, <1>3, <1>4, <1>5, <1>6 DEF TypeInv, TypeOK

LEMMA TypeStep == TypeInv /\ [Next]_vars => TypeInv'
<1> SUFFICES ASSUME TypeInv, [Next]_vars PROVE TypeInv'
  OBVIOUS
<1>1. CallsInv'
  BY CallsInvStep DEF TypeInv
<1>2. MainTypeOK' /\ UnitsTypeOK' /\ PwTypeOK' /\ GamesTypeOK' /\ InfoTypeOK'
  BY MainStep, UnitsStep, PwStep, GamesStep, InfoStep DEF TypeInv, TypeOK
<1>3. CallsTypeOK'
  <2>1. weight' \in [Apps -> Weights] /\ sent' \in SUBSET Apps
    BY ServedStep DEF TypeInv, TypeOK, CallsTypeOK
  <2>2. calls' \in [Apps -> Seq(Allowed')] /\ Allowed' \subseteq Nat
    BY <1>1 DEF CallsInv, Allowed
  <2>3. calls' \in [Apps -> Seq(Nat)]
    BY <2>2, SeqOfMore
  <2>4. QED
    BY <2>1, <2>3 DEF CallsTypeOK
<1>4. QED
  BY <1>1, <1>2, <1>3 DEF TypeInv, TypeOK

(* Every variable of the user daemon's policy, and of what it acts on,     *)
(* keeps its type, for any applications, streams, games and files.         *)
THEOREM TypeCorrect == Spec => []TypeOK
<1>1. Spec => []TypeInv
  BY TypeInit, TypeStep, PTL DEF Spec
<1>2. TypeInv => TypeOK
  BY DEF TypeInv
<1>3. QED
  BY <1>1, <1>2, PTL

-----------------------------------------------------------------------------
(***************************************************************************)
(* An application that has gone keeps an entry only until its "delete" is  *)
(* handled, and a flag only with an entry: r_app_policy_stop, which makes  *)
(* entries of flags, makes none for it.                                    *)
(***************************************************************************)
GoneInv ==
  /\ \A a \in Apps : units[a] = "gone" /\ timestamp[a] # "none" => "delete" \in inotify[a]
  /\ \A a \in Apps : boosted[a] # {} => timestamp[a] # "none"

ForgetInv == UnitsTypeOK /\ InfoTypeOK /\ GoneInv

LEMMA ForgetInit == Init => ForgetInv
<1> SUFFICES ASSUME Init PROVE ForgetInv
  OBVIOUS
<1>1. UnitsTypeOK /\ InfoTypeOK
  BY TypeInit DEF TypeInv, TypeOK
<1>2. GoneInv
  BY DEF Init, GoneInv
<1>3. QED
  BY <1>1, <1>2 DEF ForgetInv

LEMMA ForgetStep == ForgetInv /\ [Next]_vars => ForgetInv'
<1> SUFFICES ASSUME ForgetInv, [Next]_vars PROVE GoneInv'
  BY UnitsStep, InfoStep DEF ForgetInv
<1> USE DEF ForgetInv, UnitsTypeOK, InfoTypeOK, GoneInv
<1>1. CASE UNCHANGED <<units, inotify, infoVars>>
  BY <1>1 DEF infoVars
<1>2. ASSUME NEW a \in Apps, UnitStarts(a) \/ UnitStops(a) \/ Focus(a)
      PROVE  GoneInv'
  BY <1>2 DEF UnitStarts, UnitStops, Focus, Report, Happens, infoVars, Up
<1>3. ASSUME NEW a \in Apps, InCreate(a) PROVE GoneInv'
  BY <1>3 DEF InCreate, Inotify, Reread, Stamp, Up
<1>4. ASSUME NEW a \in Apps, InAttrib(a) PROVE GoneInv'
  BY <1>4 DEF InAttrib, Inotify, Reread, Stamp, Up
<1>5. ASSUME NEW a \in Apps, InDelete(a) PROVE GoneInv'
  BY <1>5 DEF InDelete, Inotify
<1>6. ASSUME NEW p, NEW flags, Boost(p, flags), units' = units, inotify' = inotify
      PROVE  GoneInv'
  <2>1. CASE Found(p)
    BY <1>6, <2>1 DEF Boost, Found, Reread, Stamp, Up
  <2>2. CASE ~Found(p)
    BY <1>6, <2>2 DEF Boost, infoVars
  <2>3. QED
    BY <2>1, <2>2
<1>7. CASE NodeEventInfo \/ GamemodeOnSignalReceived
  <2>1. units' = units /\ inotify' = inotify
    BY <1>7 DEF NodeEventInfo, NextPwEvent, GamemodeOnSignalReceived, unitVars
  <2>2. \/ \E p, flags : Boost(p, flags)
        \/ \E p : Found(p) /\ Reread(UnitOf[p]) /\ boosted' = boosted
        \/ UNCHANGED infoVars
    BY <1>7 DEF NodeEventInfo, GamemodeOnSignalReceived, infoVars
  <2>3. ASSUME NEW p, Found(p), Reread(UnitOf[p]), boosted' = boosted
        PROVE  GoneInv'
    BY <2>1, <2>3 DEF Found, Reread, Stamp, Up
  <2>4. QED
    BY <1>1, <1>6, <2>1, <2>2, <2>3
<1>8. CASE Stop
  BY <1>8 DEF Stop, PolicyStop, Reset, unitVars
<1>9. CASE \/ \E p \in Pids : Exit(p) \/ GameRegisters(p) \/ GameUnregisters(p)
           \/ \E n \in Nodes : NodeAppears(n) \/ NodeRemoved(n) \/ Bind(n)
           \/ \E n \in Nodes, st \in States : NodeChanges(n, st)
           \/ PipeWireDies
           \/ SystemdBusProxyReady \/ GamemodeBusProxyReady \/ RegistryEventGlobal
           \/ RemovedProxy \/ \E a \in Apps : SetUnitProperties(a)
  <2>1. UNCHANGED <<units, inotify, infoVars>>
    BY <1>9 DEF Happens, Exit, GameRegisters, GameUnregisters, NodeAppears, NodeRemoved,
         Bind, NodeChanges, PipeWireDies, SystemdBusProxyReady, GamemodeBusProxyReady,
         RegistryEventGlobal, RemovedProxy, NextPwEvent, SetUnitProperties, unitVars
  <2>2. QED
    BY <1>1, <2>1
<1>10. QED
  BY <1>1, <1>2, <1>3, <1>4, <1>5, <1>7, <1>8, <1>9 DEF Next, World, Daemon, vars, unitVars

(* However late the events of PipeWire and GameMode are, an application    *)
(* that has gone and whose removal is handled is not in the table again.   *)
THEOREM Forgets == Spec => []Forgotten
<1>1. Spec => []ForgetInv
  BY ForgetInit, ForgetStep, PTL DEF Spec
<1>2. ForgetInv => Forgotten
  BY DEF ForgetInv, GoneInv, Forgotten
<1>3. QED
  BY <1>1, <1>2, PTL

-----------------------------------------------------------------------------
(***************************************************************************)
(* What systemd has been asked for.  The latest call about an application  *)
(* asks for the weight of its entry in the table, or its entry is about to *)
(* be read again.  Its entry is read before its first call is made.        *)
(***************************************************************************)
Latest(a) == IF calls[a] = <<>> THEN weight[a] ELSE calls[a][Len(calls[a])]

Wanted(a) == WeightOf(cfg, timestamp[a] = "active", boosted[a] # {})

Asked(a) == Wanted(a) \in Weights => Latest(a) = Wanted(a)

AskInv ==
  /\ sent # {} => proxy
  /\ \A a \in Apps : "delete" \in inotify[a] => units[a] = "gone"
  /\ \A a \in Apps : units[a] = "new" => timestamp[a] = "none"
  /\ \A a \in Apps : timestamp[a] = "none" /\ units[a] # "gone" => a \notin sent
  /\ main = "running" => \A a \in Up :
       timestamp[a] \in {"none", Stamp(a)} \/ "attrib" \in inotify[a]
  /\ main = "exited" => \A a \in Apps : timestamp[a] # "active" /\ boosted[a] = {}
  /\ \A a \in Up \cap sent : "attrib" \in inotify[a] \/ Asked(a)

PolicyInv == TypeInv /\ GoneInv /\ AskInv

LEMMA PolicyTypes ==
  ASSUME PolicyInv
  PROVE  /\ main \in {"running", "exited"} /\ proxy \in BOOLEAN
         /\ units \in [Apps -> {"new", "up", "gone"}]
         /\ inotify \in [Apps -> SUBSET {"create", "attrib", "delete"}]
         /\ timestamp \in [Apps -> {"none", "inactive", "active"}]
         /\ boosted \in [Apps -> SUBSET {"audio", "game"}]
         /\ calls \in [Apps -> Seq(Nat)] /\ weight \in [Apps -> Weights]
         /\ sent \in SUBSET Apps
BY DEF PolicyInv, TypeInv, TypeOK, MainTypeOK, UnitsTypeOK, InfoTypeOK, CallsTypeOK

LEMMA AskInit == Init => AskInv
BY DEF Init, PolicyStart, AskInv, Up, Stamp

(* The table and systemd are left alone. *)
LEMMA AskWorld ==
  ASSUME PolicyInv, UNCHANGED <<cfg, main, proxy, infoVars, callVars, weight>>,
         \A a \in Apps :
           /\ units'[a] = "new" => units[a] = "new"
           /\ units'[a] # "gone" => units[a] # "gone" /\ "delete" \notin inotify'[a]
           /\ a \in Up' => \/ "attrib" \in inotify'[a]
                           \/ units[a] = "new"
                           \/ (a \in Up /\ (a \in focused' <=> a \in focused)
                               /\ "attrib" \notin inotify[a])
  PROVE  AskInv'
<1>1. \A a : Asked(a)' <=> Asked(a)
  BY DEF Asked, Wanted, Latest, infoVars, callVars
<1>2. \A a \in Up' : \/ "attrib" \in inotify'[a]
                     \/ (timestamp'[a] = "none" /\ a \notin sent')
                     \/ (a \in Up /\ Stamp(a)' = Stamp(a) /\ "attrib" \notin inotify[a])
  BY DEF PolicyInv, AskInv, Stamp, infoVars, callVars, Up
<1>3. QED
  BY <1>1, <1>2 DEF PolicyInv, AskInv, infoVars, callVars, Up

LEMMA SentChanged ==
  ASSUME PolicyInv, cfg' = cfg, weight' = weight, proxy' = proxy, NEW a \in Apps,
         NEW stamp \in {"inactive", "active"}, NEW flags,
         timestamp' = [timestamp EXCEPT ![a] = stamp],
         boosted' = [boosted EXCEPT ![a] = flags],
         Changed(a, stamp, flags)
  PROVE  /\ sent' # {} => proxy'
         /\ \A b \in sent' : b = a \/ b \in sent
         /\ \A b \in Apps \ {a} : Asked(b) => Asked(b)'
         /\ a \in sent' => Asked(a)'
<1> DEFINE w == WeightOf(cfg, stamp = "active", flags # {})
<1>1. w \in Nat
  BY WeightBounds DEF PolicyInv, TypeInv, CallsInv
<1>2. timestamp'[a] = stamp /\ boosted'[a] = flags
  BY PolicyTypes
<1>3. Wanted(a)' = w
  BY <1>2 DEF Wanted
<1>4. \A b \in Apps \ {a} : Wanted(b)' = Wanted(b)
  BY PolicyTypes DEF Wanted
<1> HIDE DEF w
<1>5. CASE proxy
  <2>1. calls' = [calls EXCEPT ![a] = Append(@, w)] /\ sent' = sent \cup {a}
    BY <1>5 DEF Changed, w
  <2>2. calls'[a] = Append(calls[a], w) /\ calls[a] \in Seq(Nat)
    BY <2>1, PolicyTypes
  <2>3. calls'[a] # <<>> /\ calls'[a][Len(calls'[a])] = w
    BY <1>1, <2>2
  <2>4. Latest(a)' = w
    BY <2>3 DEF Latest
  <2>5. \A b \in Apps \ {a} : Latest(b)' = Latest(b)
    BY <2>1, PolicyTypes DEF Latest
  <2>6. QED
    BY <1>3, <1>4, <1>5, <2>1, <2>4, <2>5 DEF Asked
<1>6. CASE ~proxy
  <2>1. calls' = calls /\ sent' = sent /\ sent = {}
    BY <1>6, PolicyTypes DEF Changed, callVars, PolicyInv, AskInv
  <2>2. QED
    BY <1>4, <2>1 DEF Asked, Latest
<1>7. QED
  BY <1>5, <1>6, PolicyTypes

(* A callback that reads the entry of a unit that is there and says so. *)
LEMMA AskChanged ==
  ASSUME PolicyInv, main = "running", main' = main, cfg' = cfg, weight' = weight,
         proxy' = proxy, units' = units, focused' = focused,
         NEW a \in Up, NEW flags,
         \A b \in Apps : inotify'[b] \subseteq inotify[b],
         \A b \in Apps \ {a} : inotify'[b] = inotify[b],
         Reread(a), boosted' = [boosted EXCEPT ![a] = flags],
         Changed(a, Stamp(a), flags)
  PROVE  AskInv'
<1>1. Stamp(a) \in {"inactive", "active"} /\ a \in Apps /\ units[a] = "up"
  BY DEF Stamp, Up
<1>2. timestamp' = [timestamp EXCEPT ![a] = Stamp(a)]
  BY DEF Reread
<1>3. /\ sent' # {} => proxy'
      /\ \A b \in sent' : b = a \/ b \in sent
      /\ \A b \in Apps \ {a} : Asked(b) => Asked(b)'
      /\ a \in sent' => Asked(a)'
  BY <1>1, <1>2, SentChanged
<1>4. timestamp'[a] = Stamp(a)' /\ \A b \in Apps \ {a} : timestamp'[b] = timestamp[b]
  BY <1>1, <1>2, PolicyTypes DEF Stamp
<1>5. Up' = Up /\ \A b : Stamp(b)' = Stamp(b)
  BY DEF Up, Stamp
<1>6. QED
  BY <1>1, <1>3, <1>4, <1>5 DEF PolicyInv, AskInv, Up

(* A callback that reads the entry of a unit that is there and says nothing. *)
LEMMA AskReread ==
  ASSUME PolicyInv, main = "running",
         UNCHANGED <<main, cfg, weight, proxy, units, focused, boosted, calls, sent>>,
         NEW a \in Up, Reread(a),
         \A b \in Apps : \A kind \in {"attrib", "delete"} :
           kind \in inotify'[b] <=> kind \in inotify[b]
  PROVE  AskInv'
<1>1. Stamp(a) \in {"inactive", "active"} /\ a \in Apps /\ units[a] = "up"
  BY DEF Stamp, Up
<1>2. timestamp' = [timestamp EXCEPT ![a] = Stamp(a)]
  BY DEF Reread
<1>3. timestamp'[a] = Stamp(a)' /\ \A b \in Apps \ {a} : timestamp'[b] = timestamp[b]
  BY <1>1, <1>2, PolicyTypes DEF Stamp
<1>4. Up' = Up /\ \A b : Stamp(b)' = Stamp(b) /\ Latest(b)' = Latest(b)
  BY DEF Up, Stamp, Latest
<1>5. \A b \in Apps \ {a} : Wanted(b)' = Wanted(b)
  BY <1>3 DEF Wanted
<1>6. a \in sent /\ "attrib" \notin inotify[a] => Wanted(a)' = Wanted(a)
  BY <1>1, <1>3, <1>4, PolicyTypes DEF Wanted, PolicyInv, AskInv
<1>7. QED
  BY <1>1, <1>3, <1>4, <1>5, <1>6 DEF PolicyInv, AskInv, Asked, Up

LEMMA AskBoost ==
  ASSUME PolicyInv, main = "running", main' = main, cfg' = cfg, weight' = weight,
         proxy' = proxy, UNCHANGED unitVars, NEW p, NEW flags, Boost(p, flags)
  PROVE  AskInv'
<1>1. CASE Found(p)
  <2>1. /\ UnitOf[p] \in Up /\ Reread(UnitOf[p])
        /\ boosted' = [boosted EXCEPT ![UnitOf[p]] = flags]
        /\ Changed(UnitOf[p], Stamp(UnitOf[p]), flags)
    BY <1>1 DEF Boost, Found
  <2>2. QED
    BY <2>1, AskChanged DEF unitVars
<1>2. CASE ~Found(p)
  <2>1. UNCHANGED <<infoVars, callVars>>
    BY <1>2 DEF Boost
  <2>2. \A a : Asked(a)' <=> Asked(a)
    BY <2>1 DEF Asked, Wanted, Latest, infoVars, callVars
  <2>3. QED
    BY <2>1, <2>2 DEF PolicyInv, AskInv, Up, Stamp, unitVars, infoVars, callVars
<1>3. QED
  BY <1>1, <1>2

LEMMA AskInotify ==
  ASSUME PolicyInv, NEW a \in Apps, InCreate(a) \/ InAttrib(a) \/ InDelete(a)
  PROVE  AskInv'
<1>1. /\ main = "running" /\ UNCHANGED <<main, cfg, weight, units, focused, proxy>>
      /\ \A b \in Apps \ {a} : inotify'[b] = inotify[b]
      /\ \A b \in Apps : inotify'[b] \subseteq inotify[b]
  <2>1. PICK kind, earlier : Inotify(a, kind, earlier)
    BY DEF InCreate, InAttrib, InDelete
  <2>2. QED
    BY <2>1, PolicyTypes DEF Inotify, Dispatch
<1>2. CASE InCreate(a)
  <2>1. inotify' = [inotify EXCEPT ![a] = @ \ {"create"}] /\ UNCHANGED <<boosted, calls, sent>>
    BY <1>2 DEF InCreate, Inotify, callVars
  <2>2. \A b \in Apps : \A kind \in {"attrib", "delete"} :
          kind \in inotify'[b] <=> kind \in inotify[b]
    BY <2>1, PolicyTypes
  <2>3. CASE a \in Up
    BY <1>1, <1>2, <2>1, <2>2, <2>3, AskReread DEF InCreate
  <2>4. CASE a \notin Up
    <3>1. timestamp' = timestamp
      BY <1>2, <2>4 DEF InCreate
    <3>2. \A b : Asked(b)' <=> Asked(b)
      BY <1>1, <2>1, <3>1 DEF Asked, Wanted, Latest
    <3>3. QED
      BY <1>1, <2>1, <2>2, <3>1, <3>2 DEF PolicyInv, AskInv, Up, Stamp
  <2>5. QED
    BY <2>3, <2>4
<1>3. CASE InAttrib(a)
  <2>1. boosted' = [boosted EXCEPT ![a] = boosted[a]]
    BY <1>3, PolicyTypes DEF InAttrib
  <2>2. CASE a \in Up
    <3>1. Reread(a) /\ Changed(a, Stamp(a), boosted[a])
      BY <1>3, <2>2 DEF InAttrib
    <3>2. QED
      BY <1>1, <2>1, <2>2, <3>1, AskChanged
  <2>3. CASE a \notin Up
    <3>1. timestamp' = timestamp /\ UNCHANGED <<boosted, calls, sent>>
      BY <1>3, <2>3 DEF InAttrib, callVars
    <3>2. \A b : Asked(b)' <=> Asked(b)
      BY <1>1, <3>1 DEF Asked, Wanted, Latest
    <3>3. QED
      BY <1>1, <2>3, <3>1, <3>2 DEF PolicyInv, AskInv, Up, Stamp
  <2>4. QED
    BY <2>2, <2>3
<1>4. CASE InDelete(a)
  <2>1. /\ units[a] = "gone" /\ UNCHANGED <<calls, sent>>
        /\ \A b \in Apps \ {a} : timestamp'[b] = timestamp[b] /\ boosted'[b] = boosted[b]
    BY <1>4, PolicyTypes DEF InDelete, Inotify, callVars, PolicyInv, AskInv
  <2>2. timestamp'[a] = "none" /\ boosted'[a] = {} /\ a \notin Up
    BY <1>4, <2>1, PolicyTypes DEF InDelete, Up
  <2>3. \A b \in Apps \ {a} : Asked(b)' <=> Asked(b)
    BY <1>1, <2>1 DEF Asked, Wanted, Latest
  <2>4. QED
    BY <1>1, <2>1, <2>2, <2>3 DEF PolicyInv, AskInv, Up, Stamp
<1>5. QED
  BY <1>2, <1>3, <1>4

LEMMA LastOfTail ==
  ASSUME NEW S, NEW q \in Seq(S), q # <<>>
  PROVE  /\ Len(q) = 1 => Tail(q) = <<>> /\ Head(q) = q[Len(q)]
         /\ Len(q) # 1 => Tail(q) # <<>> /\ Tail(q)[Len(Tail(q))] = q[Len(q)]
<1> DEFINE t == Tail(q)
<1>1. Len(q) \in Nat \ {0} /\ Head(q) = q[1]
  OBVIOUS
<1>2. t \in Seq(S) /\ Len(t) = Len(q) - 1 /\ \A i \in 1..Len(t) : t[i] = q[i + 1]
  OBVIOUS
<1> HIDE DEF t
<1>3. t = <<>> <=> Len(t) = 0
  BY <1>2
<1>4. Len(q) = 1 => t = <<>> /\ Head(q) = q[Len(q)]
  BY <1>1, <1>2, <1>3
<1>5. ASSUME Len(q) # 1 PROVE t # <<>> /\ t[Len(t)] = q[Len(q)]
  <2>1. Len(t) \in 1..Len(t) /\ Len(t) + 1 = Len(q)
    BY <1>1, <1>2, <1>5
  <2>2. QED
    BY <1>2, <1>3, <2>1
<1>6. QED
  BY <1>4, <1>5 DEF t

LEMMA AskServe ==
  ASSUME PolicyInv, NEW a \in Apps, SetUnitProperties(a)
  PROVE  AskInv'
<1>1. /\ calls[a] # <<>> /\ calls' = [calls EXCEPT ![a] = Tail(@)]
      /\ weight' = IF a \in Up /\ Head(calls[a]) \in Weights
                   THEN [weight EXCEPT ![a] = Head(calls[a])] ELSE weight
      /\ UNCHANGED <<cfg, main, units, focused, inotify, proxy, timestamp, boosted, sent>>
  BY DEF SetUnitProperties, unitVars, infoVars
<1>2. \A b : Wanted(b)' = Wanted(b)
  BY <1>1 DEF Wanted
<1>3. \A b \in Apps \ {a} : Latest(b)' = Latest(b)
  BY <1>1, PolicyTypes DEF Latest
<1>4. a \in Up /\ Latest(a) \in Weights => Latest(a)' = Latest(a)
  <2> SUFFICES ASSUME a \in Up, Latest(a) \in Weights
               PROVE  Latest(a)' = Latest(a)
    OBVIOUS
  <2>1. calls[a] \in Seq(Nat) /\ calls'[a] = Tail(calls[a])
    BY <1>1, PolicyTypes
  <2>2. Latest(a) = calls[a][Len(calls[a])]
    BY <1>1 DEF Latest
  <2>3. CASE Len(calls[a]) = 1
    <3>1. calls'[a] = <<>> /\ Head(calls[a]) = Latest(a)
      BY <1>1, <2>1, <2>2, <2>3, LastOfTail
    <3>2. weight'[a] = Head(calls[a])
      BY <1>1, <3>1, PolicyTypes
    <3>3. QED
      BY <3>1, <3>2 DEF Latest
  <2>4. CASE Len(calls[a]) # 1
    <3>1. calls'[a] # <<>> /\ calls'[a][Len(calls'[a])] = calls[a][Len(calls[a])]
      BY <1>1, <2>1, <2>4, LastOfTail
    <3>2. QED
      BY <2>2, <3>1 DEF Latest
  <2>5. QED
    BY <2>3, <2>4
<1>5. \A b \in Up : Asked(b) => Asked(b)'
  BY <1>2, <1>3, <1>4 DEF Asked, Up
<1>6. QED
  BY <1>1, <1>5 DEF PolicyInv, AskInv, Up, Stamp

(* What the table had raised is reset; of the rest the default was asked.  *)
LEMMA AskStop ==
  ASSUME PolicyInv, Stop
  PROVE  AskInv'
<1> DEFINE default == WeightOf(cfg, FALSE, FALSE)
<1>1. /\ main = "running" /\ main' = "exited"
      /\ UNCHANGED <<cfg, units, focused, inotify, proxy, weight>>
  BY DEF Stop, unitVars
<1>2. /\ timestamp' = [a \in Apps |-> IF a \in Reset THEN "inactive" ELSE timestamp[a]]
      /\ boosted' = [a \in Apps |-> {}]
  BY DEF Stop, PolicyStop
<1>3. \A a \in Apps : timestamp'[a] # "active" /\ boosted'[a] = {}
  BY <1>2 DEF Reset
<1>4. \A a \in Reset : timestamp[a] # "none" /\ a \in Apps
  BY DEF Reset, PolicyInv, GoneInv
<1>5. \A a \in Apps : timestamp'[a] = "none" <=> timestamp[a] = "none"
  BY <1>2, <1>4
<1>6. \A a \in Apps : Wanted(a)' = default
  BY <1>1, <1>3 DEF Wanted
<1>7. \A a \in Apps \ Reset : Wanted(a) = default
  BY DEF Reset, Wanted
<1>8. default \in Nat
  BY WeightBounds DEF PolicyInv, TypeInv, CallsInv
<1> HIDE DEF default
<1>9. CASE proxy
  <2>1. /\ calls' = [a \in Apps |-> IF a \in Reset THEN Append(calls[a], default)
                                    ELSE calls[a]]
        /\ sent' = sent \cup Reset
    BY <1>9 DEF Stop, PolicyStop, default
  <2>2. ASSUME NEW a \in Reset
        PROVE  Latest(a)' = default
    <3>1. calls'[a] = Append(calls[a], default) /\ calls[a] \in Seq(Nat)
      BY <1>4, <2>1, PolicyTypes
    <3>2. calls'[a] # <<>> /\ calls'[a][Len(calls'[a])] = default
      BY <1>8, <3>1
    <3>3. QED
      BY <3>2 DEF Latest
  <2>3. \A a \in Apps \ Reset : Latest(a)' = Latest(a)
    BY <1>1, <2>1 DEF Latest
  <2>4. \A a \in Apps : a \in Reset \/ Asked(a) => Asked(a)'
    BY <1>6, <1>7, <2>2, <2>3 DEF Asked
  <2>5. QED
    BY <1>1, <1>3, <1>4, <1>5, <1>9, <2>1, <2>4 DEF PolicyInv, AskInv, Up
<1>10. CASE ~proxy
  <2>1. sent' = {}
    BY <1>10, PolicyTypes DEF Stop, PolicyStop, callVars, PolicyInv, AskInv
  <2>2. QED
    BY <1>1, <1>3, <1>5, <2>1 DEF PolicyInv, AskInv, Up
<1>11. QED
  BY <1>9, <1>10, PolicyTypes

LEMMA AskStep == PolicyInv /\ [Next]_vars => AskInv'
<1> SUFFICES ASSUME PolicyInv, [Next]_vars PROVE AskInv'
  OBVIOUS
<1>1. CASE UNCHANGED vars
  <2>1. \A a : Asked(a)' <=> Asked(a)
    BY <1>1 DEF Asked, Wanted, Latest, vars, infoVars, callVars
  <2>2. QED
    BY <1>1, <2>1 DEF PolicyInv, AskInv, Up, Stamp, vars, unitVars, infoVars, callVars
<1>2. CASE World
  <2>1. UNCHANGED <<cfg, main, proxy, infoVars, callVars, weight>>
    BY <1>2 DEF World, Happens, UnitStarts, UnitStops, Focus, Exit, GameRegisters,
         GameUnregisters, NodeAppears, NodeRemoved, Bind, NodeChanges, PipeWireDies
  <2>2. CASE \E a \in Apps : UnitStarts(a) \/ UnitStops(a) \/ Focus(a)
    <3>1. PICK a \in Apps : UnitStarts(a) \/ UnitStops(a) \/ Focus(a)
      BY <2>2
    <3>2. \A b \in Apps \ {a} : /\ units'[b] = units[b] /\ inotify'[b] = inotify[b]
                                /\ b \in focused' <=> b \in focused
      BY <3>1, PolicyTypes DEF UnitStarts, UnitStops, Focus, Report
    <3>3. \/ units[a] = "new" /\ inotify'[a] = inotify[a] \cup {"create"}
          \/ units'[a] = "gone"
          \/ units[a] = "up" /\ units' = units /\ inotify'[a] = inotify[a] \cup {"attrib"}
      BY <3>1, PolicyTypes DEF UnitStarts, UnitStops, Focus, Report, Up
    <3>4. \A b \in Apps : "delete" \in inotify[b] => units[b] = "gone"
      BY DEF PolicyInv, AskInv
    <3>5. ASSUME NEW b \in Apps
          PROVE  /\ units'[b] = "new" => units[b] = "new"
                 /\ units'[b] # "gone" => units[b] # "gone" /\ "delete" \notin inotify'[b]
                 /\ b \in Up' => \/ "attrib" \in inotify'[b]
                                 \/ units[b] = "new"
                                 \/ (b \in Up /\ (b \in focused' <=> b \in focused)
                                     /\ "attrib" \notin inotify[b])
      <4>1. CASE b # a
        BY <3>2, <3>4, <4>1 DEF Up
      <4>2. CASE b = a
        BY <3>3, <3>4, <4>2, PolicyTypes DEF Up
      <4>3. QED
        BY <4>1, <4>2
    <3>6. QED
      BY <2>1, <3>5, AskWorld
  <2>3. CASE ~(\E a \in Apps : UnitStarts(a) \/ UnitStops(a) \/ Focus(a))
    <3>1. UNCHANGED <<units, focused, inotify>>
      BY <1>2, <2>3 DEF World, Exit, GameRegisters, GameUnregisters, NodeAppears,
           NodeRemoved, Bind, NodeChanges, PipeWireDies, unitVars
    <3>2. \A a \in Apps : "delete" \in inotify[a] => units[a] = "gone"
      BY DEF PolicyInv, AskInv
    <3>3. QED
      BY <2>1, <3>1, <3>2, AskWorld DEF Up
  <2>4. QED
    BY <2>2, <2>3
<1>3. ASSUME NEW a \in Apps, InCreate(a) \/ InAttrib(a) \/ InDelete(a)
      PROVE  AskInv'
  BY <1>3, AskInotify
<1>4. CASE NodeEventInfo
  <2> DEFINE p == PidOf[Head(pw).node]
             flags == boosted[UnitOf[p]]
  <2>1. main = "running" /\ UNCHANGED <<main, cfg, weight, proxy, unitVars>>
    BY <1>4 DEF NodeEventInfo, NextPwEvent, Dispatch
  <2>2. \/ Boost(p, flags \cup {"audio"})
        \/ Boost(p, flags \ {"audio"})
        \/ Found(p) /\ Reread(UnitOf[p]) /\ UNCHANGED <<boosted, callVars>>
        \/ UNCHANGED <<infoVars, callVars>>
    BY <1>4 DEF NodeEventInfo, infoVars
  <2> HIDE DEF p, flags
  <2>3. CASE Found(p) /\ Reread(UnitOf[p]) /\ UNCHANGED <<boosted, callVars>>
    BY <2>1, <2>3, AskReread DEF Found, unitVars, callVars
  <2>4. CASE UNCHANGED <<infoVars, callVars>>
    <3>1. \A a : Asked(a)' <=> Asked(a)
      BY <2>1, <2>4 DEF Asked, Wanted, Latest, infoVars, callVars
    <3>2. QED
      BY <2>1, <2>4, <3>1 DEF PolicyInv, AskInv, Up, Stamp, unitVars, infoVars, callVars
  <2>5. QED
    BY <2>1, <2>2, <2>3, <2>4, AskBoost
<1>5. CASE GamemodeOnSignalReceived
  <2> DEFINE p == Head(signals).pid
             flags == boosted[UnitOf[p]]
  <2>1. main = "running" /\ UNCHANGED <<main, cfg, weight, proxy, unitVars>>
    BY <1>5 DEF GamemodeOnSignalReceived, Dispatch
  <2>2. Boost(p, flags \cup {"game"}) \/ Boost(p, flags \ {"game"})
    BY <1>5 DEF GamemodeOnSignalReceived
  <2> HIDE DEF p, flags
  <2>3. QED
    BY <2>1, <2>2, AskBoost
<1>6. CASE \/ SystemdBusProxyReady \/ GamemodeBusProxyReady \/ RegistryEventGlobal
           \/ RemovedProxy
  <2>1. /\ UNCHANGED <<cfg, main, weight, unitVars, infoVars, callVars>>
        /\ proxy' \/ proxy' = proxy
    BY <1>6 DEF SystemdBusProxyReady, GamemodeBusProxyReady, RegistryEventGlobal,
         RemovedProxy, NextPwEvent, Dispatch
  <2>2. \A a : Asked(a)' <=> Asked(a)
    BY <2>1 DEF Asked, Wanted, Latest, infoVars, callVars
  <2>3. QED
    BY <2>1, <2>2 DEF PolicyInv, AskInv, Up, Stamp, unitVars, infoVars, callVars
<1>7. CASE Stop
  BY <1>7, AskStop
<1>8. ASSUME NEW a \in Apps, SetUnitProperties(a) PROVE AskInv'
  BY <1>8, AskServe
<1>9. QED
  BY <1>1, <1>2, <1>3, <1>4, <1>5, <1>6, <1>7, <1>8 DEF Next, Daemon

LEMMA PolicyInit == Init => PolicyInv
BY TypeInit, ForgetInit, AskInit DEF PolicyInv, ForgetInv

LEMMA PolicyStep == PolicyInv /\ [Next]_vars => PolicyInv'
<1> SUFFICES ASSUME PolicyInv, [Next]_vars PROVE PolicyInv'
  OBVIOUS
<1>1. TypeInv' /\ AskInv'
  BY TypeStep, AskStep DEF PolicyInv
<1>2. GoneInv'
  BY ForgetStep DEF PolicyInv, ForgetInv, TypeInv, TypeOK
<1>3. QED
  BY <1>1, <1>2 DEF PolicyInv

(* Whatever happened before, and whichever calls are still on their way    *)
(* when the daemon goes, an application it had raised ends at the default, *)
(* but one whose IN_ATTRIB was still to be read: the table may have its    *)
(* new timestamp already, and the stop then makes no call for it.          *)
THEOREM Resets == Spec => []StopResets
<1>1. Spec => []PolicyInv
  BY PolicyInit, PolicyStep, PTL DEF Spec
<1>2. PolicyInv => StopResets
  <2> SUFFICES ASSUME PolicyInv, main = "exited", NEW a \in Up \cap sent,
                      calls[a] = <<>>, "attrib" \notin inotify[a]
               PROVE  weight[a] = cfg.default
    BY DEF StopResets
  <2>1. Asked(a) /\ timestamp[a] # "active" /\ boosted[a] = {}
    BY DEF PolicyInv, AskInv, Up
  <2>2. cfg.default \in Weights
    BY DEF PolicyInv, TypeInv, CallsInv, Bounded
  <2>3. Wanted(a) = cfg.default
    BY <2>1, <2>2 DEF Wanted, WeightOf, Weights
  <2>4. QED
    BY <2>1, <2>2, <2>3 DEF Asked, Latest
<1>3. QED
  BY <1>1, <1>2, PTL

-----------------------------------------------------------------------------
(***************************************************************************)
(* What the events on their way amount to.  Of a queue of events those in  *)
(* T speak of a flag, those in R say that it is set: the flag is what the  *)
(* last of them says or, if none does, what it is now.                     *)
(***************************************************************************)
Said(q, T, R, b) ==
  \/ \E i \in 1..Len(q) : q[i] \in R /\ \A j \in (i + 1)..Len(q) : q[j] \notin T
  \/ b /\ \A i \in 1..Len(q) : q[i] \notin T

LEMMA SaidNothing ==
  ASSUME NEW T, NEW R, NEW b \in BOOLEAN
  PROVE  Said(<<>>, T, R, b) <=> b
BY DEF Said

LEMMA SaidOther ==
  ASSUME NEW S, NEW q \in Seq(S), NEW T, NEW R, NEW T2, NEW R2, NEW b \in BOOLEAN,
         \A i \in 1..Len(q) : (q[i] \in T <=> q[i] \in T2) /\ (q[i] \in R <=> q[i] \in R2)
  PROVE  Said(q, T, R, b) <=> Said(q, T2, R2, b)
<1>1. \A i \in 1..Len(q) : (i + 1)..Len(q) \subseteq 1..Len(q)
  OBVIOUS
<1>2. QED
  BY <1>1 DEF Said

LEMMA SaidAppend ==
  ASSUME NEW S, NEW q \in Seq(S), NEW e \in S, NEW T, NEW R, R \subseteq T,
         NEW b \in BOOLEAN
  PROVE  /\ e \in R => Said(Append(q, e), T, R, b)
         /\ e \in T \ R => ~Said(Append(q, e), T, R, b)
         /\ e \notin T => (Said(Append(q, e), T, R, b) <=> Said(q, T, R, b))
<1> DEFINE t == Append(q, e)
           n == Len(q)
<1>1. n \in Nat /\ Len(t) = n + 1 /\ t[n + 1] = e /\ \A i \in 1..n : t[i] = q[i]
  OBVIOUS
<1> HIDE DEF t
<1>2. CASE e \in R
  <2>1. n + 1 \in 1..Len(t) /\ t[n + 1] \in R /\ ((n + 1) + 1)..Len(t) = {}
    BY <1>1, <1>2
  <2>2. Said(t, T, R, b)
    BY <2>1 DEF Said
  <2>3. QED
    BY <1>2, <2>2 DEF t
<1>3. CASE e \in T \ R
  <2>1. n + 1 \in 1..Len(t) /\ t[n + 1] \in T \ R
    BY <1>1, <1>3
  <2>2. \A i \in 1..Len(t) : i = n + 1 \/ n + 1 \in (i + 1)..Len(t)
    BY <1>1
  <2>3. ~Said(t, T, R, b)
    BY <2>1, <2>2 DEF Said
  <2>4. QED
    BY <1>3, <2>3 DEF t
<1>4. CASE e \notin T
  <2>1. e \notin R /\ t[n + 1] \notin T /\ t[n + 1] \notin R
    BY <1>1, <1>4
  <2>2. \A i \in 1..Len(t) : i = n + 1 \/ i \in 1..n
    BY <1>1
  <2>3. \A i \in 1..n : i \in 1..Len(t) /\ t[i] = q[i]
    BY <1>1
  <2>4. (\A i \in 1..Len(t) : t[i] \notin T) <=> (\A i \in 1..n : q[i] \notin T)
    BY <2>1, <2>2, <2>3
  <2>5. ASSUME NEW i \in 1..n
        PROVE  (\A j \in (i + 1)..Len(t) : t[j] \notin T) <=>
               (\A j \in (i + 1)..n : q[j] \notin T)
    <3>1. \A j \in (i + 1)..Len(t) : j = n + 1 \/ j \in (i + 1)..n
      BY <1>1
    <3>2. \A j \in (i + 1)..n : j \in (i + 1)..Len(t) /\ t[j] = q[j]
      BY <1>1
    <3>3. QED
      BY <2>1, <3>1, <3>2
  <2>6. (\E i \in 1..Len(t) : t[i] \in R /\ \A j \in (i + 1)..Len(t) : t[j] \notin T) <=>
        (\E i \in 1..n : q[i] \in R /\ \A j \in (i + 1)..n : q[j] \notin T)
    BY <2>1, <2>2, <2>3, <2>5
  <2>7. QED
    BY <1>4, <2>1, <2>4, <2>6 DEF Said, t
<1>5. QED
  BY <1>2, <1>3, <1>4

(* Handling the first event leaves what is said as it was.                 *)
LEMMA SaidTail ==
  ASSUME NEW S, NEW q \in Seq(S), q # <<>>, NEW T, NEW R, R \subseteq T,
         NEW b \in BOOLEAN, NEW c \in BOOLEAN,
         Head(q) \in T => (c <=> Head(q) \in R),
         Head(q) \notin T => (c <=> b)
  PROVE  Said(Tail(q), T, R, c) <=> Said(q, T, R, b)
<1> DEFINE t == Tail(q)
           n == Len(t)
<1>1. Len(q) \in Nat \ {0} /\ Head(q) = q[1]
  OBVIOUS
<1>2. n \in Nat /\ Len(q) = n + 1 /\ \A i \in 1..n : t[i] = q[i + 1]
  OBVIOUS
<1> HIDE DEF t
<1>3. \A i \in 1..Len(q) : i = 1 \/ (i - 1 \in 1..n /\ t[i - 1] = q[i])
  BY <1>2
<1>4. \A i \in 1..n : i + 1 \in 1..Len(q) /\ t[i] = q[i + 1]
  BY <1>2
<1>5. (\A i \in 1..Len(q) : q[i] \notin T) <=>
      (q[1] \notin T /\ \A i \in 1..n : t[i] \notin T)
  <2>1. 1 \in 1..Len(q)
    BY <1>1
  <2>2. QED
    BY <2>1, <1>3, <1>4
<1>6. ASSUME NEW i \in 1..n
      PROVE  (\A j \in (i + 1)..n : t[j] \notin T) <=>
             (\A j \in ((i + 1) + 1)..Len(q) : q[j] \notin T)
  <2>1. \A j \in (i + 1)..n : j + 1 \in ((i + 1) + 1)..Len(q) /\ t[j] = q[j + 1]
    BY <1>2
  <2>2. \A j \in ((i + 1) + 1)..Len(q) : j - 1 \in (i + 1)..n /\ t[j - 1] = q[j]
    BY <1>2
  <2>3. QED
    BY <2>1, <2>2
<1>7. (\A j \in (1 + 1)..Len(q) : q[j] \notin T) <=> (\A i \in 1..n : t[i] \notin T)
  <2>1. \A j \in (1 + 1)..Len(q) : j - 1 \in 1..n /\ t[j - 1] = q[j]
    BY <1>2
  <2>2. \A i \in 1..n : i + 1 \in (1 + 1)..Len(q) /\ t[i] = q[i + 1]
    BY <1>2
  <2>3. QED
    BY <2>1, <2>2
<1>8. (\E i \in 1..Len(q) : q[i] \in R /\ \A j \in (i + 1)..Len(q) : q[j] \notin T) <=>
      \/ q[1] \in R /\ \A i \in 1..n : t[i] \notin T
      \/ \E i \in 1..n : t[i] \in R /\ \A j \in (i + 1)..n : t[j] \notin T
  <2>1. ASSUME NEW i \in 1..Len(q), q[i] \in R, \A j \in (i + 1)..Len(q) : q[j] \notin T
        PROVE  \/ q[1] \in R /\ \A k \in 1..n : t[k] \notin T
               \/ \E k \in 1..n : t[k] \in R /\ \A j \in (k + 1)..n : t[j] \notin T
    <3>1. CASE i = 1
      BY <1>7, <2>1, <3>1
    <3>2. CASE i # 1
      <4>1. i - 1 \in 1..n /\ t[i - 1] = q[i] /\ (i - 1) + 1 = i
        BY <1>3, <3>2
      <4>2. \A j \in ((i - 1) + 1)..n : t[j] \notin T
        BY <1>6, <2>1, <4>1
      <4>3. QED
        BY <2>1, <4>1, <4>2
    <3>3. QED
      BY <3>1, <3>2
  <2>2. ASSUME NEW k \in 1..n, t[k] \in R, \A j \in (k + 1)..n : t[j] \notin T
        PROVE  \E i \in 1..Len(q) : q[i] \in R /\ \A j \in (i + 1)..Len(q) : q[j] \notin T
    BY <1>4, <1>6, <2>2
  <2>3. 1 \in 1..Len(q)
    BY <1>1
  <2>4. ASSUME q[1] \in R, \A i \in 1..n : t[i] \notin T
        PROVE  \E i \in 1..Len(q) : q[i] \in R /\ \A j \in (i + 1)..Len(q) : q[j] \notin T
    BY <1>7, <2>3, <2>4
  <2>5. QED
    BY <2>1, <2>2, <2>4
<1>9. /\ q[1] \in R => c
      /\ q[1] \notin T => (c <=> b)
      /\ q[1] \in T /\ q[1] \notin R => ~c
  BY <1>1
<1>10. Said(t, T, R, c) <=> Said(q, T, R, b)
  BY <1>5, <1>8, <1>9 DEF Said
<1>11. QED
  BY <1>10 DEF t

-----------------------------------------------------------------------------
(***************************************************************************)
(* Flags.  Unless an application missed something, the events on their way *)
(* that will find its process turn its flags into what its streams and     *)
(* games ask for now.  Of its streams those count that are bound: of the   *)
(* others the daemon will hear.                                            *)
(***************************************************************************)
GameEvents == [pid : Pids, on : BOOLEAN]

Heard(a) == {e \in PwEvents : /\ e.kind = "info" /\ App(e.node) = a
                              /\ PidOf[e.node] \in alive
                              /\ e.state \in {"running", "idle", "suspended"}}
HeardOn(a) == {e \in Heard(a) : e.state = "running"}

Signalled(a)   == {e \in GameEvents : UnitOf[e.pid] = a /\ e.pid \in alive}
SignalledOn(a) == {e \in Signalled(a) : e.on}

Sounds(a) == \E n \in bound : App(n) = a /\ node[n] = "running"

AudioSettled(a) == Said(pw, Heard(a), HeardOn(a), "audio" \in boosted[a]) <=> Sounds(a)
GameSettled(a)  == Said(signals, Signalled(a), SignalledOn(a), "game" \in boosted[a])
                     <=> Gaming(a)

(* The daemon knows of a stream, or will: nothing is told of the others.   *)
Known ==
  /\ \A n \in Nodes : node[n] \in States =>
       n \in bound \cup binding \/ \E i \in 1..Len(pw) : pw[i].kind = "global" /\ pw[i].node = n
  /\ ~pipewire => \A n \in Nodes : node[n] \notin States

(* Nothing is said about a unit that has not started. *)
Fresh ==
  \A a \in Apps : units[a] = "new" =>
    /\ \A n \in Nodes : App(n) = a => node[n] = "none"
    /\ \A i \in 1..Len(pw) : App(pw[i].node) # a
    /\ \A p \in games : UnitOf[p] # a
    /\ \A i \in 1..Len(signals) : UnitOf[signals[i].pid] # a

(* What a process leaves behind when it ends has been missed. *)
Mourned ==
  \A a \in Up \ missed :
    /\ \A n \in Nodes : App(n) = a /\ node[n] = "running" => PidOf[n] \in alive
    /\ games \cap PidsOf(a) \subseteq alive

FlagsSettled == \A a \in Up \ missed : AudioSettled(a) /\ GameSettled(a)

FlagInv == main = "running" => Known /\ Fresh /\ Mourned /\ FlagsSettled

LEMMA FlagTypes ==
  ASSUME TypeInv
  PROVE  /\ node \in [Nodes -> States \cup {"none", "gone"}] /\ pipewire \in BOOLEAN
         /\ bound \in SUBSET Nodes /\ binding \in SUBSET Nodes /\ pw \in Seq(PwEvents)
         /\ games \in SUBSET Pids /\ signals \in Seq(GameEvents) /\ gproxy \in BOOLEAN
         /\ units \in [Apps -> {"new", "up", "gone"}]
         /\ alive \in SUBSET {p \in Pids : UnitOf[p] \in Up}
         /\ timestamp \in [Apps -> {"none", "inactive", "active"}]
         /\ boosted \in [Apps -> SUBSET {"audio", "game"}]
         /\ missed \in SUBSET Apps /\ main \in {"running", "exited"}
BY DEF TypeInv, TypeOK, MainTypeOK, UnitsTypeOK, PwTypeOK, GamesTypeOK, InfoTypeOK,
   PwEvents, GameEvents

LEMMA Owners ==
  /\ \A n \in Nodes : PidOf[n] \in Pids /\ App(n) \in Apps /\ App(n) = UnitOf[PidOf[n]]
  /\ \A p \in Pids : UnitOf[p] \in Apps
BY PolicyAssumption DEF App

LEMMA Queues ==
  ASSUME TypeInv
  PROVE  /\ Len(pw) \in Nat /\ \A i \in 1..Len(pw) : pw[i] \in PwEvents
         /\ Len(signals) \in Nat /\ \A i \in 1..Len(signals) : signals[i] \in GameEvents
         /\ DOMAIN pw = 1..Len(pw) /\ DOMAIN signals = 1..Len(signals)
<1>1. pw \in Seq(PwEvents) /\ signals \in Seq(GameEvents)
  BY FlagTypes
<1>2. QED
  BY <1>1

LEMMA FlagInit == Init => FlagInv
<1> SUFFICES ASSUME Init PROVE FlagInv
  OBVIOUS
<1>1. /\ node = [n \in Nodes |-> "none"] /\ bound = {} /\ pw = <<>>
      /\ games = {} /\ signals = <<>> /\ boosted = [a \in Apps |-> {}]
  BY DEF Init, PwInit, GameInit
<1>2. Known /\ Fresh /\ Mourned
  <2>1. Len(pw) = 0 /\ Len(signals) = 0 /\ 1..0 = {}
    BY <1>1
  <2>2. QED
    BY <1>1, <2>1 DEF Known, Fresh, Mourned, States
<1>3. ASSUME NEW a \in Up PROVE AudioSettled(a) /\ GameSettled(a)
  <2>1. ~("audio" \in boosted[a]) /\ ~("game" \in boosted[a])
    BY <1>1, <1>3 DEF Up
  <2>2. ~Sounds(a) /\ ~Gaming(a)
    BY <1>1 DEF Sounds, Gaming
  <2>3. ~Said(<<>>, Heard(a), HeardOn(a), FALSE)
    BY SaidNothing
  <2>4. ~Said(<<>>, Signalled(a), SignalledOn(a), FALSE)
    BY SaidNothing
  <2>5. ("audio" \in boosted[a]) = FALSE /\ ("game" \in boosted[a]) = FALSE
    BY <2>1
  <2>6. QED
    BY <1>1, <2>2, <2>3, <2>4, <2>5 DEF AudioSettled, GameSettled
<1>4. QED
  BY <1>2, <1>3 DEF FlagInv, FlagsSettled

(* Nothing that bears on the streams of a happens. *)
LEMMA AudioKept ==
  ASSUME TypeInv, NEW a, pw' = pw,
         "audio" \in boosted'[a] <=> "audio" \in boosted[a],
         \A i \in 1..Len(pw) : App(pw[i].node) = a =>
           (PidOf[pw[i].node] \in alive' <=> PidOf[pw[i].node] \in alive),
         Sounds(a)' <=> Sounds(a), AudioSettled(a)
  PROVE  AudioSettled(a)'
<1> DEFINE b == "audio" \in boosted[a]
           T == Heard(a)
           R == HeardOn(a)
           T2 == Heard(a)'
           R2 == HeardOn(a)'
<1>1. \A i \in 1..Len(pw) : (pw[i] \in T <=> pw[i] \in T2) /\ (pw[i] \in R <=> pw[i] \in R2)
  BY Queues DEF Heard, HeardOn
<1>2. pw \in Seq(PwEvents) /\ b \in BOOLEAN
  BY FlagTypes
<1>3. AudioSettled(a)' <=> (Said(pw, T2, R2, b) <=> Sounds(a)')
  <2>1. "audio" \in boosted'[a] <=> b
    OBVIOUS
  <2>2. ("audio" \in boosted'[a]) = b
    BY <2>1
  <2>3. QED
    BY <2>2 DEF AudioSettled
<1>4. AudioSettled(a) <=> (Said(pw, T, R, b) <=> Sounds(a))
  BY DEF AudioSettled
<1> HIDE DEF b, T, R, T2, R2
<1>5. Said(pw, T, R, b) <=> Said(pw, T2, R2, b)
  BY <1>1, <1>2, SaidOther
<1>6. QED
  BY <1>3, <1>4, <1>5

(* An event is added. *)
LEMMA AudioTold ==
  ASSUME TypeInv, NEW a, NEW e \in PwEvents, pw' = Append(pw, e),
         boosted' = boosted, alive' = alive,
         \/ e \notin Heard(a) /\ (Sounds(a)' <=> Sounds(a))
         \/ e \in HeardOn(a) /\ Sounds(a)'
         \/ e \in Heard(a) \ HeardOn(a) /\ ~Sounds(a)',
         AudioSettled(a)
  PROVE  AudioSettled(a)'
<1> DEFINE b == "audio" \in boosted[a]
           T == Heard(a)
           R == HeardOn(a)
<1>1. T' = T /\ R' = R /\ R \subseteq T
  BY DEF Heard, HeardOn
<1>2. pw \in Seq(PwEvents) /\ b \in BOOLEAN /\ b' = b
  BY FlagTypes
<1>3. AudioSettled(a)' <=> (Said(pw', T, R, b) <=> Sounds(a)')
  BY <1>1 DEF AudioSettled
<1>4. AudioSettled(a) <=> (Said(pw, T, R, b) <=> Sounds(a))
  BY DEF AudioSettled
<1>5. \/ e \notin T /\ (Sounds(a)' <=> Sounds(a))
      \/ e \in R /\ Sounds(a)'
      \/ e \in T \ R /\ ~Sounds(a)'
  OBVIOUS
<1> HIDE DEF b, T, R
<1>6. /\ e \in R => Said(Append(pw, e), T, R, b)
      /\ e \in T \ R => ~Said(Append(pw, e), T, R, b)
      /\ e \notin T => (Said(Append(pw, e), T, R, b) <=> Said(pw, T, R, b))
  BY <1>1, <1>2, SaidAppend
<1>7. QED
  BY <1>1, <1>3, <1>4, <1>5, <1>6

(* The first event is handled. *)
LEMMA AudioHandled ==
  ASSUME TypeInv, NEW a, pw # <<>>, pw' = Tail(pw), alive' = alive,
         Sounds(a)' <=> Sounds(a),
         Head(pw) \in Heard(a) =>
           ("audio" \in boosted'[a] <=> Head(pw) \in HeardOn(a)),
         Head(pw) \notin Heard(a) =>
           ("audio" \in boosted'[a] <=> "audio" \in boosted[a]),
         AudioSettled(a)
  PROVE  AudioSettled(a)'
<1> DEFINE b == "audio" \in boosted[a]
           c == "audio" \in boosted'[a]
           T == Heard(a)
           R == HeardOn(a)
<1>1. T' = T /\ R' = R /\ R \subseteq T
  BY DEF Heard, HeardOn
<1>2. pw \in Seq(PwEvents) /\ b \in BOOLEAN /\ c \in BOOLEAN
  BY FlagTypes
<1>3. AudioSettled(a)' <=> (Said(pw', T, R, c) <=> Sounds(a)')
  BY <1>1 DEF AudioSettled
<1>4. AudioSettled(a) <=> (Said(pw, T, R, b) <=> Sounds(a))
  BY DEF AudioSettled
<1>5. /\ Head(pw) \in T => (c <=> Head(pw) \in R)
      /\ Head(pw) \notin T => (c <=> b)
  OBVIOUS
<1> HIDE DEF b, c, T, R
<1>6. Said(Tail(pw), T, R, c) <=> Said(pw, T, R, b)
  BY <1>1, <1>2, <1>5, SaidTail
<1>7. QED
  BY <1>3, <1>4, <1>6

(* The same for the games of a. *)
LEMMA GameKept ==
  ASSUME TypeInv, NEW a, signals' = signals,
         "game" \in boosted'[a] <=> "game" \in boosted[a],
         \A i \in 1..Len(signals) : UnitOf[signals[i].pid] = a =>
           (signals[i].pid \in alive' <=> signals[i].pid \in alive),
         Gaming(a)' <=> Gaming(a), GameSettled(a)
  PROVE  GameSettled(a)'
<1> DEFINE b == "game" \in boosted[a]
           T == Signalled(a)
           R == SignalledOn(a)
           T2 == Signalled(a)'
           R2 == SignalledOn(a)'
<1>1. \A i \in 1..Len(signals) :
        (signals[i] \in T <=> signals[i] \in T2) /\ (signals[i] \in R <=> signals[i] \in R2)
  BY Queues DEF Signalled, SignalledOn
<1>2. signals \in Seq(GameEvents) /\ b \in BOOLEAN
  BY FlagTypes
<1>3. GameSettled(a)' <=> (Said(signals, T2, R2, b) <=> Gaming(a)')
  <2>1. "game" \in boosted'[a] <=> b
    OBVIOUS
  <2>2. ("game" \in boosted'[a]) = b
    BY <2>1
  <2>3. QED
    BY <2>2 DEF GameSettled
<1>4. GameSettled(a) <=> (Said(signals, T, R, b) <=> Gaming(a))
  BY DEF GameSettled
<1> HIDE DEF b, T, R, T2, R2
<1>5. Said(signals, T, R, b) <=> Said(signals, T2, R2, b)
  BY <1>1, <1>2, SaidOther
<1>6. QED
  BY <1>3, <1>4, <1>5

LEMMA GameTold ==
  ASSUME TypeInv, NEW a, NEW e \in GameEvents, signals' = Append(signals, e),
         boosted' = boosted, alive' = alive,
         \/ e \notin Signalled(a) /\ (Gaming(a)' <=> Gaming(a))
         \/ e \in SignalledOn(a) /\ Gaming(a)'
         \/ e \in Signalled(a) \ SignalledOn(a) /\ ~Gaming(a)',
         GameSettled(a)
  PROVE  GameSettled(a)'
<1> DEFINE b == "game" \in boosted[a]
           T == Signalled(a)
           R == SignalledOn(a)
<1>1. T' = T /\ R' = R /\ R \subseteq T
  BY DEF Signalled, SignalledOn
<1>2. signals \in Seq(GameEvents) /\ b \in BOOLEAN /\ b' = b
  BY FlagTypes
<1>3. GameSettled(a)' <=> (Said(signals', T, R, b) <=> Gaming(a)')
  BY <1>1 DEF GameSettled
<1>4. GameSettled(a) <=> (Said(signals, T, R, b) <=> Gaming(a))
  BY DEF GameSettled
<1>5. \/ e \notin T /\ (Gaming(a)' <=> Gaming(a))
      \/ e \in R /\ Gaming(a)'
      \/ e \in T \ R /\ ~Gaming(a)'
  OBVIOUS
<1> HIDE DEF b, T, R
<1>6. /\ e \in R => Said(Append(signals, e), T, R, b)
      /\ e \in T \ R => ~Said(Append(signals, e), T, R, b)
      /\ e \notin T => (Said(Append(signals, e), T, R, b) <=> Said(signals, T, R, b))
  BY <1>1, <1>2, SaidAppend
<1>7. QED
  BY <1>1, <1>3, <1>4, <1>5, <1>6

LEMMA GameHandled ==
  ASSUME TypeInv, NEW a, signals # <<>>, signals' = Tail(signals), alive' = alive,
         Gaming(a)' <=> Gaming(a),
         Head(signals) \in Signalled(a) =>
           ("game" \in boosted'[a] <=> Head(signals) \in SignalledOn(a)),
         Head(signals) \notin Signalled(a) =>
           ("game" \in boosted'[a] <=> "game" \in boosted[a]),
         GameSettled(a)
  PROVE  GameSettled(a)'
<1> DEFINE b == "game" \in boosted[a]
           c == "game" \in boosted'[a]
           T == Signalled(a)
           R == SignalledOn(a)
<1>1. T' = T /\ R' = R /\ R \subseteq T
  BY DEF Signalled, SignalledOn
<1>2. signals \in Seq(GameEvents) /\ b \in BOOLEAN /\ c \in BOOLEAN
  BY FlagTypes
<1>3. GameSettled(a)' <=> (Said(signals', T, R, c) <=> Gaming(a)')
  BY <1>1 DEF GameSettled
<1>4. GameSettled(a) <=> (Said(signals, T, R, b) <=> Gaming(a))
  BY DEF GameSettled
<1>5. /\ Head(signals) \in T => (c <=> Head(signals) \in R)
      /\ Head(signals) \notin T => (c <=> b)
  OBVIOUS
<1> HIDE DEF b, c, T, R
<1>6. Said(Tail(signals), T, R, c) <=> Said(signals, T, R, b)
  BY <1>1, <1>2, <1>5, SaidTail
<1>7. QED
  BY <1>3, <1>4, <1>6

FollowInv == PolicyInv /\ FlagInv

LEMMA FollowRuns ==
  ASSUME FollowInv, main = "running"
  PROVE  TypeInv /\ Known /\ Fresh /\ Mourned /\ FlagsSettled
BY DEF FollowInv, FlagInv, PolicyInv

LEMMA FreshSettled ==
  ASSUME FollowInv, main = "running", NEW a \in Apps, units[a] = "new"
  PROVE  AudioSettled(a) /\ GameSettled(a)
<1>1. boosted[a] = {}
  BY PolicyTypes DEF FollowInv, PolicyInv, AskInv, GoneInv
<1>2. /\ \A n \in Nodes : App(n) = a => node[n] = "none"
      /\ \A i \in 1..Len(pw) : App(pw[i].node) # a
      /\ \A p \in games : UnitOf[p] # a
      /\ \A i \in 1..Len(signals) : UnitOf[signals[i].pid] # a
  BY FollowRuns DEF Fresh
<1>3. ~Sounds(a) /\ ~Gaming(a)
  BY <1>2, FollowRuns, FlagTypes DEF Sounds, Gaming, PidsOf
<1>4. \A i \in 1..Len(pw) : pw[i] \notin Heard(a) /\ pw[i] \notin HeardOn(a)
  BY <1>2 DEF Heard, HeardOn
<1>5. \A i \in 1..Len(signals) : signals[i] \notin Signalled(a) /\ signals[i] \notin SignalledOn(a)
  BY <1>2 DEF Signalled, SignalledOn
<1>6. ~Said(pw, Heard(a), HeardOn(a), "audio" \in boosted[a])
  BY <1>1, <1>4 DEF Said
<1>7. ~Said(signals, Signalled(a), SignalledOn(a), "game" \in boosted[a])
  BY <1>1, <1>5 DEF Said
<1>8. QED
  BY <1>3, <1>6, <1>7 DEF AudioSettled, GameSettled

(* Units and their processes come and go, streams and games do not. *)
LEMMA UnitsMove ==
  ASSUME FollowInv, main = "running",
         UNCHANGED <<node, bound, binding, pipewire, pw, games, signals>>,
         missed \subseteq missed',
         \A a \in Apps : units'[a] = "new" => units[a] = "new",
         \A a \in Up' \ missed' :
           /\ a \in Up \/ units[a] = "new"
           /\ boosted'[a] = boosted[a]
           /\ \A p \in PidsOf(a) : (p \in alive' <=> p \in alive) \/ ~Named(p)
  PROVE  FlagInv'
<1>1. TypeInv /\ Known /\ Fresh /\ Mourned /\ FlagsSettled
  BY FollowRuns
<1>2. Known' /\ Fresh'
  BY <1>1 DEF Known, Fresh
<1>3. ASSUME NEW a \in Up' \ missed'
      PROVE  /\ AudioSettled(a)' /\ GameSettled(a)'
             /\ \A n \in Nodes : App(n) = a /\ node[n] = "running" => PidOf[n] \in alive'
             /\ games \cap PidsOf(a) \subseteq alive'
  <2>1. a \in Apps /\ boosted'[a] = boosted[a] /\ (a \in Up \ missed \/ units[a] = "new")
    BY <1>3 DEF Up
  <2>2. AudioSettled(a) /\ GameSettled(a)
    BY <1>1, <2>1, FreshSettled DEF FlagsSettled
  <2>3. ASSUME NEW n \in Nodes, App(n) = a
        PROVE  \/ PidOf[n] \in alive' <=> PidOf[n] \in alive
               \/ node[n] # "running" /\ \A i \in 1..Len(pw) : pw[i].node # n
    <3>1. PidOf[n] \in PidsOf(a) /\ n \in NodesOf(PidOf[n])
      BY <2>3, Owners DEF PidsOf, NodesOf
    <3>2. DOMAIN pw = 1..Len(pw)
      BY <1>1, Queues
    <3>3. QED
      BY <1>3, <3>1, <3>2 DEF Named
  <2>4. ASSUME NEW p \in PidsOf(a)
        PROVE  \/ p \in alive' <=> p \in alive
               \/ p \notin games /\ \A i \in 1..Len(signals) : signals[i].pid # p
    <3>1. DOMAIN signals = 1..Len(signals)
      BY <1>1, Queues
    <3>2. QED
      BY <1>3, <2>4, <3>1 DEF Named
  <2>5. \A i \in 1..Len(pw) : App(pw[i].node) = a =>
          (PidOf[pw[i].node] \in alive' <=> PidOf[pw[i].node] \in alive)
    BY <1>1, <2>3, Queues DEF PwEvents
  <2>6. \A i \in 1..Len(signals) : UnitOf[signals[i].pid] = a =>
          (signals[i].pid \in alive' <=> signals[i].pid \in alive)
    BY <1>1, <2>4, Queues DEF GameEvents, PidsOf
  <2>7. (Sounds(a)' <=> Sounds(a)) /\ (Gaming(a)' <=> Gaming(a))
    BY DEF Sounds, Gaming
  <2>8. AudioSettled(a)'
    BY <1>1, <2>1, <2>2, <2>5, <2>7, AudioKept
  <2>9. GameSettled(a)'
    BY <1>1, <2>1, <2>2, <2>6, <2>7, GameKept
  <2>10. ASSUME NEW n \in Nodes, App(n) = a, node[n] = "running"
         PROVE  PidOf[n] \in alive'
    BY <1>1, <2>1, <2>3, <2>10 DEF Mourned, Fresh
  <2>11. ASSUME NEW p \in games \cap PidsOf(a)
         PROVE  p \in alive'
    BY <1>1, <2>1, <2>4, <2>11 DEF Mourned, Fresh, PidsOf
  <2>12. QED
    BY <2>8, <2>9, <2>10, <2>11
<1>4. Mourned' /\ FlagsSettled'
  BY <1>3 DEF Mourned, FlagsSettled
<1>5. QED
  BY <1>2, <1>4 DEF FlagInv

(* A stream, or an event about one. *)
LEMMA StreamsMove ==
  ASSUME FollowInv, main = "running", UNCHANGED <<units, alive, games, signals>>,
         missed \subseteq missed', Known',
         \A n \in Nodes : node'[n] = node[n] \/ units[App(n)] # "new",
         \A n \in Nodes : node'[n] = "running" => node[n] = "running" \/ PidOf[n] \in alive,
         \A i \in 1..Len(pw') : units[App(pw'[i].node)] # "new",
         \A a \in Up \ missed' : "game" \in boosted'[a] <=> "game" \in boosted[a],
         \A a \in Up \ missed' : AudioSettled(a) => AudioSettled(a)'
  PROVE  FlagInv'
<1>1. TypeInv /\ Known /\ Fresh /\ Mourned /\ FlagsSettled
  BY FollowRuns
<1>2. Fresh'
  BY <1>1, Owners DEF Fresh
<1>3. Up' = Up
  BY DEF Up
<1>4. Mourned'
  BY <1>1, <1>3 DEF Mourned
<1>5. ASSUME NEW a \in Up \ missed' PROVE AudioSettled(a)' /\ GameSettled(a)'
  <2>1. AudioSettled(a) /\ GameSettled(a)
    BY <1>1, <1>5 DEF FlagsSettled
  <2>2. Gaming(a)' <=> Gaming(a)
    BY DEF Gaming
  <2>3. GameSettled(a)'
    BY <1>1, <1>5, <2>1, <2>2, GameKept
  <2>4. QED
    BY <1>5, <2>1, <2>3
<1>6. QED
  BY <1>2, <1>3, <1>4, <1>5 DEF FlagInv, FlagsSettled

(* A game, or a signal about one. *)
LEMMA GamesMove ==
  ASSUME FollowInv, main = "running",
         UNCHANGED <<units, alive, node, bound, binding, pipewire, pw>>,
         missed \subseteq missed', games' \in SUBSET Pids, games' \subseteq games \cup alive,
         \A i \in 1..Len(signals') : units[UnitOf[signals'[i].pid]] # "new",
         \A a \in Up \ missed' : "audio" \in boosted'[a] <=> "audio" \in boosted[a],
         \A a \in Up \ missed' : GameSettled(a) => GameSettled(a)'
  PROVE  FlagInv'
<1>1. TypeInv /\ Known /\ Fresh /\ Mourned /\ FlagsSettled
  BY FollowRuns
<1>2. Known'
  BY <1>1 DEF Known
<1>3. Fresh'
  <2>1. \A p \in alive : units[UnitOf[p]] # "new"
    BY <1>1, FlagTypes DEF Up
  <2>2. QED
    BY <1>1, <2>1, Owners DEF Fresh
<1>4. Up' = Up
  BY DEF Up
<1>5. Mourned'
  BY <1>1, <1>4 DEF Mourned
<1>6. ASSUME NEW a \in Up \ missed' PROVE AudioSettled(a)' /\ GameSettled(a)'
  <2>1. AudioSettled(a) /\ GameSettled(a)
    BY <1>1, <1>6 DEF FlagsSettled
  <2>2. Sounds(a)' <=> Sounds(a)
    BY DEF Sounds
  <2>3. AudioSettled(a)'
    BY <1>1, <1>6, <2>1, <2>2, AudioKept
  <2>4. QED
    BY <1>6, <2>1, <2>3
<1>7. QED
  BY <1>2, <1>3, <1>4, <1>5, <1>6 DEF FlagInv, FlagsSettled

LEMMA UnitsFlags ==
  ASSUME FollowInv, main = "running", NEW a \in Apps,
         UnitStarts(a) \/ UnitStops(a) \/ Focus(a)
  PROVE  FlagInv'
<1>1. UNCHANGED <<node, bound, binding, pipewire, pw, games, signals, missed, boosted>>
  BY DEF UnitStarts, UnitStops, Focus, Happens, pwVars, infoVars
<1>2. \A b \in Apps \ {a} : units'[b] = units[b]
  BY FollowRuns, FlagTypes DEF UnitStarts, UnitStops, Focus
<1>3. \A b \in Apps \ {a} : \A p \in PidsOf(b) : p \in alive' <=> p \in alive
  BY DEF UnitStarts, UnitStops, Focus, PidsOf
<1>4. CASE UnitStarts(a)
  <2>1. units[a] = "new" /\ units'[a] = "up"
    BY <1>4, FollowRuns, FlagTypes DEF UnitStarts
  <2>2. \A p \in PidsOf(a) : ~Named(p)
    BY <2>1, FollowRuns, Queues DEF Fresh, Named, PidsOf, NodesOf, App
  <2>3. QED
    BY <1>1, <1>2, <1>3, <2>1, <2>2, UnitsMove DEF Up
<1>5. CASE UnitStops(a)
  <2>1. units'[a] = "gone"
    BY <1>5, FollowRuns, FlagTypes DEF UnitStops
  <2>2. QED
    BY <1>1, <1>2, <1>3, <2>1, UnitsMove DEF Up
<1>6. CASE Focus(a)
  BY <1>1, <1>6, UnitsMove DEF Focus, Up
<1>7. QED
  BY <1>4, <1>5, <1>6

LEMMA ExitFlags ==
  ASSUME FollowInv, main = "running", NEW p \in Pids, Exit(p)
  PROVE  FlagInv'
<1>1. UNCHANGED <<node, bound, binding, pipewire, pw, games, signals, boosted, units>>
  BY DEF Exit, Happens, pwVars, infoVars
<1>2. alive' = alive \ {p} /\ missed' = (IF Named(p) THEN missed \cup {UnitOf[p]} ELSE missed)
  BY DEF Exit, Miss
<1>3. ASSUME NEW a \in Up' \ missed', NEW r \in PidsOf(a)
      PROVE  (r \in alive' <=> r \in alive) \/ ~Named(r)
  BY <1>2 DEF PidsOf
<1>4. QED
  BY <1>1, <1>2, <1>3, UnitsMove DEF Up

(* All that changes is what the flags do not depend on. *)
LEMMA OtherFlags ==
  ASSUME FollowInv, main = "running",
         UNCHANGED <<node, bound, binding, pipewire, pw, games, signals, missed, units, alive>>,
         \A a \in Up : boosted'[a] = boosted[a]
  PROVE  FlagInv'
BY UnitsMove DEF Up

(* A unit that goes with its flags has gone already. *)
LEMMA InotifyFlags ==
  ASSUME FollowInv, main = "running", NEW a \in Apps,
         InCreate(a) \/ InAttrib(a) \/ InDelete(a)
  PROVE  FlagInv'
<1>1. PICK kind, earlier : Inotify(a, kind, earlier)
  BY DEF InCreate, InAttrib, InDelete
<1>2. UNCHANGED <<node, bound, binding, pipewire, pw, games, signals, missed, units, alive>>
  BY <1>1 DEF Inotify, Dispatch, pwVars, gameVars
<1>3. \A b \in Up : boosted'[b] = boosted[b]
  <2>1. CASE InCreate(a) \/ InAttrib(a)
    BY <2>1 DEF InCreate, InAttrib
  <2>2. CASE InDelete(a)
    <3>1. units[a] = "gone"
      BY <2>2 DEF InDelete, Inotify, FollowInv, PolicyInv, AskInv
    <3>2. boosted' = [boosted EXCEPT ![a] = {}]
      BY <2>2 DEF InDelete
    <3>3. QED
      BY <3>1, <3>2, FollowRuns, FlagTypes DEF Up
  <2>3. QED
    BY <2>1, <2>2
<1>4. QED
  BY <1>2, <1>3, OtherFlags

-----------------------------------------------------------------------------
(* Streams come, change and go.  First, what one more event amounts to. *)
LEMMA QueueTold ==
  ASSUME FollowInv, main = "running", NEW e \in PwEvents, units[App(e.node)] # "new",
         pw' = pw \/ pw' = Append(pw, e)
  PROVE  /\ \A i \in 1..Len(pw') : units[App(pw'[i].node)] # "new"
         /\ \A i \in 1..Len(pw) : i \in 1..Len(pw') /\ pw'[i] = pw[i]
         /\ pw' = Append(pw, e) => \E i \in 1..Len(pw') : pw'[i] = e
<1>1. \A i \in 1..Len(pw) : units[App(pw[i].node)] # "new"
  BY FollowRuns, Queues, Owners DEF Fresh, PwEvents
<1>2. pw \in Seq(PwEvents)
  BY FollowRuns, FlagTypes
<1>3. CASE pw' = pw
  BY <1>1, <1>3
<1>4. CASE pw' = Append(pw, e)
  <2>1. /\ Len(pw) \in Nat /\ Len(pw') = Len(pw) + 1 /\ pw'[Len(pw) + 1] = e
        /\ \A i \in 1..Len(pw) : pw'[i] = pw[i]
    BY <1>2, <1>4
  <2>2. \A i \in 1..Len(pw') : i = Len(pw) + 1 \/ i \in 1..Len(pw)
    BY <2>1
  <2>3. Len(pw) + 1 \in 1..Len(pw') /\ \A i \in 1..Len(pw) : i \in 1..Len(pw')
    BY <2>1
  <2>4. QED
    BY <1>1, <2>1, <2>2, <2>3
<1>5. QED
  BY <1>3, <1>4

LEMMA NodeAppearsFlags ==
  ASSUME FollowInv, main = "running", NEW n \in Nodes, NodeAppears(n)
  PROVE  FlagInv'
<1> DEFINE e == Event("global", n, "suspended")
<1>1. /\ UNCHANGED <<units, alive, games, signals, bound, binding, pipewire, missed, boosted>>
      /\ pipewire /\ node[n] = "none" /\ PidOf[n] \in alive
      /\ node' = [node EXCEPT ![n] = "suspended"] /\ pw' = Append(pw, e)
  BY DEF NodeAppears, Happens, unitVars, infoVars
<1>2. e \in PwEvents /\ e.kind = "global" /\ e.node = n
  BY DEF Event, PwEvents, States
<1> HIDE DEF e
<1>3. /\ node'[n] = "suspended" /\ \A m \in Nodes \ {n} : node'[m] = node[m]
      /\ bound \subseteq Nodes
  BY <1>1, FollowRuns, FlagTypes
<1>4. units[App(n)] # "new"
  BY <1>1, FollowRuns, FlagTypes, Owners DEF Up
<1>5. /\ \A i \in 1..Len(pw') : units[App(pw'[i].node)] # "new"
      /\ \A i \in 1..Len(pw) : i \in 1..Len(pw') /\ pw'[i] = pw[i]
      /\ \E i \in 1..Len(pw') : pw'[i] = e
  BY <1>1, <1>2, <1>4, QueueTold
<1>6. Known'
  BY <1>1, <1>2, <1>3, <1>5, FollowRuns DEF Known
<1>7. ASSUME NEW a PROVE AudioSettled(a) => AudioSettled(a)'
  <2>1. e \notin Heard(a)
    BY <1>2 DEF Heard
  <2>2. Sounds(a)' <=> Sounds(a)
    BY <1>1, <1>3 DEF Sounds
  <2>3. QED
    BY <1>1, <1>2, <2>1, <2>2, FollowRuns, AudioTold
<1>8. QED
  BY <1>1, <1>3, <1>4, <1>5, <1>6, <1>7, StreamsMove

LEMMA NodeChangesFlags ==
  ASSUME FollowInv, main = "running", NEW n \in Nodes, NEW s \in States, NodeChanges(n, s)
  PROVE  FlagInv'
<1> DEFINE e == Event("info", n, s)
           misses == \/ s \in {"idle", "suspended"} /\ OtherRuns(n)
                     \/ node[n] = "running" /\ s = "error"
<1>1. /\ UNCHANGED <<units, alive, games, signals, bound, binding, pipewire, boosted>>
      /\ node[n] \in States /\ PidOf[n] \in alive
      /\ node' = [node EXCEPT ![n] = s]
      /\ pw' = IF n \in bound THEN Append(pw, e) ELSE pw
      /\ missed' = IF misses THEN missed \cup {App(n)} ELSE missed
  BY DEF NodeChanges, Happens, unitVars, infoVars, Tell, Miss
<1>2. e \in PwEvents /\ e.kind = "info" /\ e.node = n /\ e.state = s
  BY DEF Event, PwEvents
<1> HIDE DEF e
<1>3. /\ node'[n] = s /\ \A m \in Nodes \ {n} : node'[m] = node[m]
      /\ bound \subseteq Nodes
  BY <1>1, FollowRuns, FlagTypes
<1>4. units[App(n)] # "new"
  BY <1>1, FollowRuns, FlagTypes, Owners DEF Up
<1>5. /\ \A i \in 1..Len(pw') : units[App(pw'[i].node)] # "new"
      /\ \A i \in 1..Len(pw) : i \in 1..Len(pw') /\ pw'[i] = pw[i]
  BY <1>1, <1>2, <1>4, QueueTold
<1>6. Known'
  BY <1>1, <1>3, <1>5, FollowRuns DEF Known
<1>7. ASSUME NEW a \in Up \ missed', AudioSettled(a) PROVE AudioSettled(a)'
  <2>1. CASE App(n) # a \/ n \notin bound
    <3>1. Sounds(a)' <=> Sounds(a)
      BY <1>1, <1>3, <2>1 DEF Sounds
    <3>2. e \notin Heard(a) \/ pw' = pw
      BY <1>1, <1>2, <2>1 DEF Heard
    <3>3. QED
      BY <1>1, <1>2, <1>7, <3>1, <3>2, FollowRuns, AudioTold, AudioKept
  <2>2. CASE App(n) = a /\ n \in bound
    <3>1. pw' = Append(pw, e) /\ ~misses
      BY <1>1, <1>7, <2>2
    <3>2. CASE s = "running"
      <4>1. e \in HeardOn(a) /\ Sounds(a)'
        BY <1>1, <1>2, <1>3, <2>2, <3>2 DEF Heard, HeardOn, Sounds
      <4>2. QED
        BY <1>1, <1>2, <1>7, <3>1, <4>1, FollowRuns, AudioTold
    <3>3. CASE s \in {"idle", "suspended"}
      <4>1. e \in Heard(a) \ HeardOn(a)
        BY <1>1, <1>2, <2>2, <3>3 DEF Heard, HeardOn
      <4>2. ~Sounds(a)'
        BY <1>1, <1>3, <2>2, <3>1, <3>3 DEF Sounds, OtherRuns
      <4>3. QED
        BY <1>1, <1>2, <1>7, <3>1, <4>1, <4>2, FollowRuns, AudioTold
    <3>4. CASE s = "error"
      <4>1. e \notin Heard(a)
        BY <1>2, <3>4 DEF Heard
      <4>2. Sounds(a)' <=> Sounds(a)
        BY <1>1, <1>3, <3>1, <3>4 DEF Sounds
      <4>3. QED
        BY <1>1, <1>2, <1>7, <3>1, <4>1, <4>2, FollowRuns, AudioTold
    <3>5. QED
      BY <3>2, <3>3, <3>4 DEF States
  <2>3. QED
    BY <2>1, <2>2
<1>8. QED
  BY <1>1, <1>3, <1>4, <1>5, <1>6, <1>7, StreamsMove

LEMMA NodeRemovedFlags ==
  ASSUME FollowInv, main = "running", NEW n \in Nodes, NodeRemoved(n)
  PROVE  FlagInv'
<1> DEFINE e == Event("removed", n, "suspended")
<1>1. /\ UNCHANGED <<units, alive, games, signals, bound, binding, pipewire, boosted>>
      /\ node[n] \in States
      /\ node' = [node EXCEPT ![n] = "gone"]
      /\ pw' = IF n \in bound THEN Append(pw, e) ELSE pw
      /\ missed' = IF node[n] = "running" THEN missed \cup {App(n)} ELSE missed
  BY DEF NodeRemoved, Happens, unitVars, infoVars, Tell, Miss
<1>2. e \in PwEvents /\ e.kind = "removed" /\ e.node = n
  BY DEF Event, PwEvents, States
<1> HIDE DEF e
<1>3. /\ node'[n] = "gone" /\ \A m \in Nodes \ {n} : node'[m] = node[m]
      /\ bound \subseteq Nodes
  BY <1>1, FollowRuns, FlagTypes
<1>4. units[App(n)] # "new"
  BY <1>1, FollowRuns, Owners DEF Fresh, States
<1>5. /\ \A i \in 1..Len(pw') : units[App(pw'[i].node)] # "new"
      /\ \A i \in 1..Len(pw) : i \in 1..Len(pw') /\ pw'[i] = pw[i]
  BY <1>1, <1>2, <1>4, QueueTold
<1>6. Known'
  BY <1>1, <1>3, <1>5, FollowRuns DEF Known, States
<1>7. ASSUME NEW a \in Up \ missed', AudioSettled(a) PROVE AudioSettled(a)'
  <2>1. e \notin Heard(a)
    BY <1>2 DEF Heard
  <2>2. App(n) # a \/ node[n] # "running"
    BY <1>1, <1>7
  <2>3. Sounds(a)' <=> Sounds(a)
    BY <1>1, <1>3, <2>2 DEF Sounds
  <2>4. QED
    BY <1>1, <1>2, <1>7, <2>1, <2>3, FollowRuns, AudioTold, AudioKept
<1>8. QED
  BY <1>1, <1>3, <1>4, <1>5, <1>6, <1>7, StreamsMove

LEMMA BindFlags ==
  ASSUME FollowInv, main = "running", NEW n \in Nodes, Bind(n)
  PROVE  FlagInv'
<1> DEFINE e == Event("info", n, node[n])
           misses == node[n] \in {"idle", "suspended"} /\ OtherRuns(n)
<1>1. /\ UNCHANGED <<units, alive, games, signals, node, pipewire, boosted>>
      /\ binding' = binding \ {n}
  BY DEF Bind, unitVars, gameVars, infoVars
<1>2. CASE node[n] \in States
  <2>1. /\ bound' = bound \cup {n} /\ pw' = Append(pw, e)
        /\ missed' = IF misses THEN missed \cup {App(n)} ELSE missed
    BY <1>2 DEF Bind, Miss
  <2>2. e \in PwEvents /\ e.kind = "info" /\ e.node = n /\ e.state = node[n]
    BY <1>2 DEF Event, PwEvents
  <2> HIDE DEF e
  <2>3. units[App(n)] # "new"
    BY <1>2, FollowRuns, Owners DEF Fresh, States
  <2>4. /\ \A i \in 1..Len(pw') : units[App(pw'[i].node)] # "new"
        /\ \A i \in 1..Len(pw) : i \in 1..Len(pw') /\ pw'[i] = pw[i]
    BY <2>1, <2>2, <2>3, QueueTold
  <2>5. Known'
    BY <1>1, <2>1, <2>4, FollowRuns DEF Known
  <2>6. ASSUME NEW a \in Up \ missed', AudioSettled(a) PROVE AudioSettled(a)'
    <3>1. CASE App(n) # a \/ PidOf[n] \notin alive \/ node[n] = "error"
      <4>1. e \notin Heard(a)
        BY <2>2, <3>1 DEF Heard
      <4>2. a \in Up \ missed
        BY <2>1, <2>6
      <4>3. App(n) # a \/ node[n] # "running"
        BY <3>1, <4>2, FollowRuns DEF Mourned
      <4>4. Sounds(a)' <=> Sounds(a)
        BY <1>1, <2>1, <4>3 DEF Sounds
      <4>5. QED
        BY <1>1, <2>1, <2>2, <2>6, <4>1, <4>4, FollowRuns, AudioTold
    <3>2. CASE App(n) = a /\ PidOf[n] \in alive /\ node[n] = "running"
      <4>1. e \in HeardOn(a) /\ Sounds(a)'
        BY <1>1, <2>1, <2>2, <3>2 DEF Heard, HeardOn, Sounds
      <4>2. QED
        BY <1>1, <2>1, <2>2, <2>6, <4>1, FollowRuns, AudioTold
    <3>3. CASE App(n) = a /\ PidOf[n] \in alive /\ node[n] \in {"idle", "suspended"}
      <4>1. e \in Heard(a) \ HeardOn(a)
        BY <2>2, <3>3 DEF Heard, HeardOn
      <4>2. ~OtherRuns(n)
        BY <2>1, <2>6, <3>3
      <4>3. ~Sounds(a)'
        <5>1. bound \subseteq Nodes
          BY FollowRuns, FlagTypes
        <5>2. QED
          BY <1>1, <2>1, <3>3, <4>2, <5>1 DEF Sounds, OtherRuns
      <4>4. QED
        BY <1>1, <2>1, <2>2, <2>6, <4>1, <4>3, FollowRuns, AudioTold
    <3>4. QED
      BY <1>2, <3>1, <3>2, <3>3 DEF States
  <2>7. missed \subseteq missed'
    BY <2>1
  <2>8. QED
    BY <1>1, <2>3, <2>4, <2>5, <2>6, <2>7, StreamsMove
<1>3. CASE node[n] \notin States
  <2>1. UNCHANGED <<bound, pw, missed>>
    BY <1>3 DEF Bind
  <2>2. Known'
    BY <1>1, <1>3, <2>1, FollowRuns DEF Known
  <2>3. \A i \in 1..Len(pw) : units[App(pw[i].node)] # "new"
    BY FollowRuns, Queues, Owners DEF Fresh, PwEvents
  <2>4. ASSUME NEW a, AudioSettled(a) PROVE AudioSettled(a)'
    <3>1. Sounds(a)' <=> Sounds(a)
      BY <1>1, <2>1 DEF Sounds
    <3>2. QED
      BY <1>1, <2>1, <2>4, <3>1, FollowRuns, AudioKept
  <2>5. QED
    BY <1>1, <2>1, <2>2, <2>3, <2>4, StreamsMove
<1>4. QED
  BY <1>2, <1>3

LEMMA PipeWireDiesFlags ==
  ASSUME FollowInv, main = "running", PipeWireDies
  PROVE  FlagInv'
<1>1. /\ UNCHANGED <<units, alive, games, signals, pw, boosted>>
      /\ pipewire' = FALSE /\ bound' = {}
      /\ node' = [n \in Nodes |-> IF node[n] = "none" THEN "none" ELSE "gone"]
      /\ missed' = missed \cup {App(n) : n \in {m \in Nodes : node[m] = "running"}}
  BY DEF PipeWireDies, Happens, unitVars, infoVars
<1>2. \A n \in Nodes : node'[n] \notin States /\ (node[n] = "none" => node'[n] = node[n])
  BY <1>1 DEF States
<1>3. \A n \in Nodes : node'[n] = node[n] \/ units[App(n)] # "new"
  BY <1>2, FollowRuns, Owners DEF Fresh
<1>4. Known'
  BY <1>2 DEF Known
<1>5. \A i \in 1..Len(pw) : units[App(pw[i].node)] # "new"
  BY FollowRuns, Queues, Owners DEF Fresh, PwEvents
<1>6. ASSUME NEW a \in Up \ missed', AudioSettled(a) PROVE AudioSettled(a)'
  <2>1. bound \subseteq Nodes
    BY FollowRuns, FlagTypes
  <2>2. ~Sounds(a)' /\ ~Sounds(a)
    BY <1>1, <1>6, <2>1 DEF Sounds
  <2>3. QED
    BY <1>1, <1>6, <2>2, FollowRuns, AudioKept
<1>7. \A n \in Nodes : node'[n] # "running"
  BY <1>2 DEF States
<1>8. QED
  BY <1>1, <1>3, <1>4, <1>5, <1>6, <1>7, StreamsMove

(* Games register and unregister. *)
LEMMA GameFlags ==
  ASSUME FollowInv, main = "running", NEW p \in Pids,
         GameRegisters(p) \/ GameUnregisters(p)
  PROVE  FlagInv'
<1> DEFINE e(on) == [pid |-> p, on |-> on]
<1>1. UNCHANGED <<units, alive, node, bound, binding, pipewire, pw, boosted>>
  BY DEF GameRegisters, GameUnregisters, Happens, unitVars, pwVars, infoVars
<1>2. PICK on \in BOOLEAN :
        /\ games' = IF on THEN games \cup {p} ELSE games \ {p}
        /\ IF on THEN p \in alive ELSE p \in games
        /\ Signal(p, on)
  BY DEF GameRegisters, GameUnregisters
<1>3. /\ signals' = IF gproxy THEN Append(signals, e(on)) ELSE signals
      /\ missed' = IF ~gproxy \/ (~on /\ games \cap PidsOf(UnitOf[p]) # {p})
                   THEN missed \cup {UnitOf[p]} ELSE missed
  BY <1>2 DEF Signal, Miss
<1>4. e(on) \in GameEvents /\ e(on).pid = p /\ e(on).on = on
  BY DEF GameEvents
<1> HIDE DEF e
<1>5. units[UnitOf[p]] # "new"
  <2>1. p \in alive => UnitOf[p] \in Up
    BY FollowRuns, FlagTypes
  <2>2. QED
    BY <1>2, <2>1, FollowRuns, Owners DEF Fresh, Up
<1>6. games' \in SUBSET Pids /\ games' \subseteq games \cup alive
  BY <1>2, FollowRuns, FlagTypes
<1>7. \A i \in 1..Len(signals') : units[UnitOf[signals'[i].pid]] # "new"
  <2>1. \A i \in 1..Len(signals) : units[UnitOf[signals[i].pid]] # "new"
    BY FollowRuns, Queues, Owners DEF Fresh, GameEvents
  <2>2. signals \in Seq(GameEvents)
    BY FollowRuns, FlagTypes
  <2>3. CASE gproxy
    <3>1. /\ Len(signals) \in Nat /\ Len(signals') = Len(signals) + 1
          /\ signals'[Len(signals) + 1] = e(on)
          /\ \A i \in 1..Len(signals) : signals'[i] = signals[i]
      BY <1>3, <1>4, <2>2, <2>3
    <3>2. \A i \in 1..Len(signals') : i = Len(signals) + 1 \/ i \in 1..Len(signals)
      BY <3>1
    <3>3. QED
      BY <1>4, <1>5, <2>1, <3>1, <3>2
  <2>4. CASE ~gproxy
    BY <1>3, <2>1, <2>4
  <2>5. QED
    BY <2>3, <2>4
<1>8. ASSUME NEW a \in Up \ missed', GameSettled(a) PROVE GameSettled(a)'
  <2>1. CASE UnitOf[p] # a
    <3>1. Gaming(a)' <=> Gaming(a)
      BY <1>2, <2>1 DEF Gaming, PidsOf
    <3>2. e(on) \notin Signalled(a)
      BY <1>4, <2>1 DEF Signalled
    <3>3. signals' = Append(signals, e(on)) \/ signals' = signals
      BY <1>3
    <3>4. QED
      BY <1>1, <1>4, <1>8, <3>1, <3>2, <3>3, FollowRuns, GameTold, GameKept
  <2>2. CASE UnitOf[p] = a
    <3>1. /\ a \notin missed /\ signals' = Append(signals, e(on))
          /\ on \/ games \cap PidsOf(a) = {p}
      BY <1>3, <1>8, <2>2
    <3>2. p \in alive
      BY <1>2, <1>8, <2>2, <3>1, FollowRuns DEF Mourned, PidsOf
    <3>3. e(on) \in Signalled(a) /\ (e(on) \in SignalledOn(a) <=> on)
      BY <1>4, <2>2, <3>2 DEF Signalled, SignalledOn
    <3>4. Gaming(a)' <=> on
      BY <1>2, <2>2, <3>1 DEF Gaming, PidsOf
    <3>5. QED
      BY <1>1, <1>4, <1>8, <3>1, <3>3, <3>4, FollowRuns, GameTold
  <2>3. QED
    BY <2>1, <2>2
<1>9. missed \subseteq missed'
  BY <1>3
<1>10. QED
  BY <1>1, <1>6, <1>7, <1>8, <1>9, GamesMove

-----------------------------------------------------------------------------
(* Events are handled.  First, what is left of the queue. *)
LEMMA QueueHandled ==
  ASSUME FollowInv, main = "running", pw # <<>>, pw' = Tail(pw)
  PROVE  /\ Head(pw) \in PwEvents
         /\ \A i \in 1..Len(pw') : units[App(pw'[i].node)] # "new"
         /\ \A i \in 1..Len(pw) : pw[i] = Head(pw) \/ \E j \in 1..Len(pw') : pw'[j] = pw[i]
<1>1. pw \in Seq(PwEvents) /\ \A i \in 1..Len(pw) : units[App(pw[i].node)] # "new"
  BY FollowRuns, FlagTypes, Queues, Owners DEF Fresh, PwEvents
<1>2. /\ Len(pw) \in Nat \ {0} /\ Head(pw) = pw[1] /\ Head(pw) \in PwEvents
  BY <1>1
<1>3. Len(pw') = Len(pw) - 1 /\ \A i \in 1..Len(pw') : pw'[i] = pw[i + 1]
  BY <1>1
<1>4. \A i \in 1..Len(pw') : i + 1 \in 1..Len(pw)
  BY <1>2, <1>3
<1>5. \A i \in 1..Len(pw) : i = 1 \/ (i - 1 \in 1..Len(pw') /\ (i - 1) + 1 = i)
  BY <1>2, <1>3
<1>6. \A i \in 1..Len(pw) : i = 1 \/ (i - 1 \in 1..Len(pw') /\ pw'[i - 1] = pw[i])
  BY <1>3, <1>5
<1>7. QED
  BY <1>1, <1>2, <1>3, <1>4, <1>6

LEMMA PwEventFlags ==
  ASSUME FollowInv, main = "running", RegistryEventGlobal \/ RemovedProxy
  PROVE  FlagInv'
<1>1. /\ pw # <<>> /\ pw' = Tail(pw) /\ Head(pw).kind \in {"global", "removed"}
      /\ UNCHANGED <<units, alive, games, signals, node, bound, pipewire, boosted, missed>>
  BY DEF RegistryEventGlobal, RemovedProxy, NextPwEvent, Dispatch, unitVars, gameVars,
     infoVars
<1>2. /\ Head(pw) \in PwEvents
      /\ \A i \in 1..Len(pw') : units[App(pw'[i].node)] # "new"
      /\ \A i \in 1..Len(pw) : pw[i] = Head(pw) \/ \E j \in 1..Len(pw') : pw'[j] = pw[i]
  BY <1>1, QueueHandled
<1>3. \/ Head(pw).kind = "global" /\ pipewire /\ binding' = binding \cup {Head(pw).node}
      \/ ~pipewire /\ binding' = binding
      \/ Head(pw).kind # "global" /\ binding' = binding
  BY FollowRuns, FlagTypes DEF RegistryEventGlobal, RemovedProxy, NextPwEvent
<1>4. Known'
  <2>1. CASE ~pipewire
    BY <1>1, <2>1, FollowRuns DEF Known
  <2>2. CASE pipewire
    BY <1>1, <1>2, <1>3, <2>2, FollowRuns DEF Known
  <2>3. QED
    BY <2>1, <2>2
<1>5. ASSUME NEW a, AudioSettled(a) PROVE AudioSettled(a)'
  <2>1. Head(pw) \notin Heard(a)
    BY <1>1 DEF Heard
  <2>2. Sounds(a)' <=> Sounds(a)
    BY <1>1 DEF Sounds
  <2>3. QED
    BY <1>1, <1>5, <2>1, <2>2, FollowRuns, AudioHandled
<1>6. QED
  BY <1>1, <1>2, <1>4, <1>5, StreamsMove

LEMMA NodeEventFlags ==
  ASSUME FollowInv, main = "running", NodeEventInfo
  PROVE  FlagInv'
<1> DEFINE e == Head(pw)
           p == PidOf[e.node]
           flags == boosted[UnitOf[p]]
<1>1. /\ pw # <<>> /\ pw' = Tail(pw) /\ e.kind = "info"
      /\ UNCHANGED <<units, alive, games, signals, node, bound, binding, pipewire, missed>>
  BY DEF NodeEventInfo, NextPwEvent, Dispatch, unitVars, gameVars
<1>2. /\ e \in PwEvents
      /\ \A i \in 1..Len(pw') : units[App(pw'[i].node)] # "new"
      /\ \A i \in 1..Len(pw) : pw[i] = e \/ \E j \in 1..Len(pw') : pw'[j] = pw[i]
  BY <1>1, QueueHandled
<1>3. \/ e.state = "running" /\ Boost(p, flags \cup {"audio"})
      \/ e.state \in {"idle", "suspended"} /\ Boost(p, flags \ {"audio"})
      \/ e.state \notin {"running", "idle", "suspended"} /\ boosted' = boosted
  BY DEF NodeEventInfo
<1>4. p \in Pids /\ App(e.node) = UnitOf[p] /\ UnitOf[p] \in Apps
  BY <1>2, Owners DEF PwEvents
<1> HIDE DEF e, p
<1>5. \/ e.state = "running" /\ Found(p)
            /\ boosted' = [boosted EXCEPT ![UnitOf[p]] = flags \cup {"audio"}]
      \/ e.state \in {"idle", "suspended"} /\ Found(p)
            /\ boosted' = [boosted EXCEPT ![UnitOf[p]] = flags \ {"audio"}]
      \/ (e.state \notin {"running", "idle", "suspended"} \/ ~Found(p)) /\ boosted' = boosted
  BY <1>3 DEF Boost, infoVars
<1>6. boosted \in [Apps -> SUBSET {"audio", "game"}]
  BY FollowRuns, FlagTypes
<1>7. ASSUME NEW a \in Up
      PROVE  /\ "game" \in boosted'[a] <=> "game" \in boosted[a]
             /\ e \in Heard(a) => ("audio" \in boosted'[a] <=> e \in HeardOn(a))
             /\ e \notin Heard(a) => ("audio" \in boosted'[a] <=> "audio" \in boosted[a])
  <2>1. a \in Apps
    BY DEF Up
  <2>2. CASE UnitOf[p] # a
    BY <1>4, <1>5, <1>6, <2>1, <2>2 DEF Heard
  <2>3. CASE UnitOf[p] = a
    <3>1. Found(p) <=> p \in alive
      BY <2>3 DEF Found
    <3>2. e \in Heard(a) <=> p \in alive /\ e.state \in {"running", "idle", "suspended"}
      BY <1>1, <1>2, <1>4, <2>3 DEF Heard, e, p
    <3>3. e \in HeardOn(a) <=> e \in Heard(a) /\ e.state = "running"
      BY DEF HeardOn
    <3>4. QED
      BY <1>5, <1>6, <2>1, <2>3, <3>1, <3>2, <3>3
  <2>4. QED
    BY <2>2, <2>3
<1>8. Known'
  BY <1>1, <1>2, FollowRuns DEF Known
<1>9. ASSUME NEW a \in Up, AudioSettled(a) PROVE AudioSettled(a)'
  <2>1. Sounds(a)' <=> Sounds(a)
    BY <1>1 DEF Sounds
  <2>2. QED
    BY <1>1, <1>7, <1>9, <2>1, FollowRuns, AudioHandled DEF e
<1>10. QED
  BY <1>1, <1>2, <1>7, <1>8, <1>9, StreamsMove

LEMMA GameSignalFlags ==
  ASSUME FollowInv, main = "running", GamemodeOnSignalReceived
  PROVE  FlagInv'
<1> DEFINE e == Head(signals)
           p == e.pid
           flags == boosted[UnitOf[p]]
<1>1. /\ signals # <<>> /\ signals' = Tail(signals)
      /\ UNCHANGED <<units, alive, games, node, bound, binding, pipewire, pw, missed>>
  BY DEF GamemodeOnSignalReceived, Dispatch, unitVars, pwVars
<1>2. /\ e \in GameEvents
      /\ \A i \in 1..Len(signals') : units[UnitOf[signals'[i].pid]] # "new"
  <2>1. /\ signals \in Seq(GameEvents)
        /\ \A i \in 1..Len(signals) : units[UnitOf[signals[i].pid]] # "new"
    BY FollowRuns, FlagTypes, Queues, Owners DEF Fresh, GameEvents
  <2>2. /\ Len(signals) \in Nat /\ Len(signals') = Len(signals) - 1 /\ e \in GameEvents
        /\ \A i \in 1..Len(signals') : signals'[i] = signals[i + 1]
    BY <1>1, <2>1
  <2>3. \A i \in 1..Len(signals') : i + 1 \in 1..Len(signals)
    BY <2>2
  <2>4. QED
    BY <2>1, <2>2, <2>3
<1>3. Boost(p, IF e.on THEN flags \cup {"game"} ELSE flags \ {"game"})
  BY DEF GamemodeOnSignalReceived
<1>4. p \in Pids /\ UnitOf[p] \in Apps /\ e.on \in BOOLEAN
  BY <1>2, Owners DEF GameEvents
<1> HIDE DEF e, p
<1>5. \/ e.on /\ Found(p) /\ boosted' = [boosted EXCEPT ![UnitOf[p]] = flags \cup {"game"}]
      \/ ~e.on /\ Found(p) /\ boosted' = [boosted EXCEPT ![UnitOf[p]] = flags \ {"game"}]
      \/ ~Found(p) /\ boosted' = boosted
  BY <1>3, <1>4 DEF Boost, infoVars
<1>6. boosted \in [Apps -> SUBSET {"audio", "game"}]
  BY FollowRuns, FlagTypes
<1>7. ASSUME NEW a \in Up
      PROVE  /\ "audio" \in boosted'[a] <=> "audio" \in boosted[a]
             /\ e \in Signalled(a) => ("game" \in boosted'[a] <=> e \in SignalledOn(a))
             /\ e \notin Signalled(a) => ("game" \in boosted'[a] <=> "game" \in boosted[a])
  <2>1. a \in Apps
    BY DEF Up
  <2>2. CASE UnitOf[p] # a
    BY <1>4, <1>5, <1>6, <2>1, <2>2 DEF Signalled, p
  <2>3. CASE UnitOf[p] = a
    <3>1. Found(p) <=> p \in alive
      BY <2>3 DEF Found
    <3>2. e \in Signalled(a) <=> p \in alive
      BY <1>2, <2>3 DEF Signalled, p
    <3>3. e \in SignalledOn(a) <=> e \in Signalled(a) /\ e.on
      BY DEF SignalledOn
    <3>4. QED
      BY <1>5, <1>6, <2>1, <2>3, <3>1, <3>2, <3>3
  <2>4. QED
    BY <2>2, <2>3
<1>8. ASSUME NEW a \in Up, GameSettled(a) PROVE GameSettled(a)'
  <2>1. Gaming(a)' <=> Gaming(a)
    BY <1>1 DEF Gaming
  <2>2. QED
    BY <1>1, <1>7, <1>8, <2>1, FollowRuns, GameHandled DEF e
<1>9. games' \in SUBSET Pids
  BY <1>1, FollowRuns, FlagTypes
<1>10. QED
  BY <1>1, <1>2, <1>7, <1>8, <1>9, GamesMove

LEMMA FlagStep == FollowInv /\ [Next]_vars => FlagInv'
<1> SUFFICES ASSUME FollowInv, [Next]_vars, main' = "running" PROVE FlagInv'
  BY DEF FlagInv
<1>1. CASE UNCHANGED vars
  BY <1>1, OtherFlags DEF vars, unitVars, pwVars, gameVars, infoVars
<1>2. CASE World
  <2>1. main = "running"
    BY <1>2 DEF World, Happens, UnitStarts, UnitStops, Focus, Exit, GameRegisters,
         GameUnregisters, NodeAppears, NodeRemoved, Bind, NodeChanges, PipeWireDies
  <2>2. QED
    BY <1>2, <2>1, UnitsFlags, ExitFlags, NodeAppearsFlags, NodeChangesFlags,
       NodeRemovedFlags, BindFlags, PipeWireDiesFlags, GameFlags DEF World
<1>3. CASE SystemdBusProxyReady \/ GamemodeBusProxyReady
  BY <1>3, OtherFlags DEF SystemdBusProxyReady, GamemodeBusProxyReady, Dispatch,
     unitVars, pwVars, gameVars, infoVars
<1>4. CASE \E a \in Apps : InCreate(a) \/ InAttrib(a) \/ InDelete(a)
  <2>1. main = "running"
    BY <1>4 DEF InCreate, InAttrib, InDelete, Inotify, Dispatch
  <2>2. QED
    BY <1>4, <2>1, InotifyFlags
<1>5. CASE RegistryEventGlobal \/ NodeEventInfo \/ RemovedProxy \/ GamemodeOnSignalReceived
  <2>1. main = "running"
    BY <1>5 DEF RegistryEventGlobal, NodeEventInfo, RemovedProxy, NextPwEvent,
         GamemodeOnSignalReceived, Dispatch
  <2>2. QED
    BY <1>5, <2>1, PwEventFlags, NodeEventFlags, GameSignalFlags
<1>6. CASE Stop
  BY <1>6 DEF Stop
<1>7. CASE \E a \in Apps : SetUnitProperties(a)
  BY <1>7, OtherFlags DEF SetUnitProperties, unitVars, pwVars, gameVars, infoVars
<1>8. QED
  BY <1>1, <1>2, <1>3, <1>4, <1>5, <1>6, <1>7 DEF Next, Daemon

LEMMA FollowInit == Init => FollowInv
BY PolicyInit, FlagInit DEF FollowInv

LEMMA FollowStep == FollowInv /\ [Next]_vars => FollowInv'
BY PolicyStep, FlagStep DEF FollowInv

LEMMA FollowsNow == FollowInv => PolicyFollows
<1> SUFFICES ASSUME FollowInv, main = "running", NEW a \in (Up \cap sent) \ missed,
                    Handled(a), calls[a] = <<>>, Due(a) \in Weights
             PROVE  weight[a] = Due(a)
  BY DEF PolicyFollows
<1>1. /\ a \in Apps /\ units[a] = "up" /\ a \in sent /\ a \in Up \ missed
      /\ inotify[a] = {} /\ pw = <<>> /\ binding = {} /\ signals = <<>>
  BY DEF Up, Handled
<1>2. Asked(a) /\ timestamp[a] = Stamp(a)
  BY <1>1 DEF FollowInv, PolicyInv, AskInv
<1>3. timestamp[a] = "active" <=> a \in focused
  BY <1>2 DEF Stamp
<1>4. "audio" \in boosted[a] <=> Sounds(a)
  <2> DEFINE b == "audio" \in boosted[a]
  <2>1. AudioSettled(a) /\ b \in BOOLEAN
    BY <1>1, FollowRuns, FlagTypes DEF FlagsSettled
  <2>2. Said(<<>>, Heard(a), HeardOn(a), b) <=> b
    BY <2>1, SaidNothing
  <2>3. QED
    BY <1>1, <2>1, <2>2 DEF AudioSettled
<1>5. "game" \in boosted[a] <=> Gaming(a)
  <2> DEFINE b == "game" \in boosted[a]
  <2>1. GameSettled(a) /\ b \in BOOLEAN
    BY <1>1, FollowRuns, FlagTypes DEF FlagsSettled
  <2>2. Said(<<>>, Signalled(a), SignalledOn(a), b) <=> b
    BY <2>1, SaidNothing
  <2>3. QED
    BY <1>1, <2>1, <2>2 DEF GameSettled
<1>6. Sounds(a) <=> Playing(a)
  <2>1. \A n \in Nodes : node[n] = "running" => n \in bound
    <3>1. 1..Len(pw) = {}
      BY <1>1
    <3>2. QED
      BY <1>1, <3>1, FollowRuns DEF Known, States
  <2>2. bound \subseteq Nodes
    BY FollowRuns, FlagTypes
  <2>3. QED
    BY <2>1, <2>2 DEF Sounds, Playing
<1>7. boosted[a] # {} <=> Playing(a) \/ Gaming(a)
  <2>1. boosted[a] \subseteq {"audio", "game"}
    BY <1>1, FollowRuns, FlagTypes
  <2>2. QED
    BY <1>4, <1>5, <1>6, <2>1
<1>8. Wanted(a) = Due(a)
  <2>1. (timestamp[a] = "active") = (a \in focused)
    BY <1>3
  <2>2. (boosted[a] # {}) = (Playing(a) \/ Gaming(a))
    BY <1>7
  <2>3. QED
    BY <2>1, <2>2 DEF Wanted, Due
<1>9. QED
  BY <1>1, <1>2, <1>8 DEF Asked, Latest

(* In whatever order inotify, PipeWire and GameMode tell of it, systemd    *)
(* ends up with the weight that focus, streams and games ask for.          *)
THEOREM Follows == Spec => []PolicyFollows
<1>1. Spec => []FollowInv
  BY FollowInit, FollowStep, PTL DEF Spec
<1>2. QED
  BY <1>1, FollowsNow, PTL
=============================================================================
