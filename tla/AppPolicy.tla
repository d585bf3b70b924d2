------------------------------ MODULE AppPolicy ------------------------------
(***************************************************************************)
(* The policy of the user daemon and what it acts on: src/r-app-policy.c,  *)
(* src/r-pw-monitor.c, src/r-game-monitor.c and, of src/r-app-monitor.c,   *)
(* the table of applications (how it mirrors the tree: AppMonitor).        *)
(*                                                                         *)
(* Three sources tell the daemon about an application, each in its own     *)
(* order and at its own pace: inotify (it came, its focus changed, it      *)
(* went), PipeWire (a stream runs or not) and GameMode (a game registered  *)
(* or not).  The last two name a process, which must still be alive when   *)
(* the event is handled for its application to be found.  What comes out   *)
(* is SetUnitProperties calls, as soon as there is a proxy to make them.   *)
(***************************************************************************)
EXTENDS AppWeights, Sequences, FiniteSets

CONSTANTS
  Apps,       \* the units right below app.slice, each of which runs once
  Pids,       \* processes that play audio or register as a game
  UnitOf,     \* [Pids -> Apps]
  Nodes,      \* PipeWire nodes of the pipewire-pulse clients
  PidOf,      \* [Nodes -> Pids]
  ConfFiles,  \* the contents uresourced.conf may have
  MaxChanges  \* bound on what applications, desktop and servers do

ASSUME PolicyAssumption ==
  /\ UnitOf \in [Pids -> Apps]
  /\ PidOf \in [Nodes -> Pids]
  /\ \A f \in ConfFiles : DOMAIN f \subseteq Keys /\ f \in [DOMAIN f -> Int]
  /\ MaxChanges \in Nat

VARIABLES
  cfg,        \* the weights read_config has settled on
  main,       \* the user daemon: "running" or "exited"
  units,      \* systemd: a unit is "new", "up" or "gone"
  focused,    \* the units with xdg.inactive-since = -1
  inotify,    \* of each unit, the events not yet handled
  alive,      \* kernel: the processes of Pids that exist
  pipewire,   \* PipeWire: the server the daemon connected to is there
  node,       \* PipeWire: state of each node
  bound,      \* PipeWire: the nodes the daemon has bound
  binding,    \* pw_registry_bind requests on their way
  pw,         \* PipeWire events on their way to the daemon
  games,      \* GameMode: the registered processes
  signals,    \* GameMode signals on their way to the daemon
  gproxy,     \* the game monitor has its proxy and handles signals
  proxy,      \* the policy has its proxy
  timestamp,  \* app_info_map: "none" without an entry
  boosted,    \* app_info_map: the flags
  calls,      \* of each unit, SetUnitProperties calls not yet served
  weight,     \* systemd: the weight of each unit
  sent,       \* history: the units a call was made for
  missed,     \* history: units with a change that was not told or taken wrongly
  changes     \* changes so far

unitVars == <<units, focused, inotify, alive>>
pwVars   == <<pipewire, node, bound, binding, pw>>
gameVars == <<games, signals, gproxy>>
infoVars == <<timestamp, boosted>>
callVars == <<calls, sent>>
vars == <<cfg, main, unitVars, pwVars, gameVars, proxy, infoVars, callVars,
          weight, missed, changes>>

States   == {"suspended", "idle", "running", "error"}  \* "error": or "creating"
PidsOf(a)  == {p \in Pids : UnitOf[p] = a}
NodesOf(p) == {n \in Nodes : PidOf[n] = p}
App(n) == UnitOf[PidOf[n]]
Up     == {a \in Apps : units[a] = "up"}
Event(kind, n, s) == [kind |-> kind, node |-> n, state |-> s]

PolicyStart ==
  /\ \E f \in ConfFiles : cfg = ReadConfig(f)
  /\ proxy = FALSE

(* A PipeWire that comes later is never connected to. *)
PwInit ==
  /\ pipewire \in BOOLEAN
  /\ node = [n \in Nodes |-> "none"] /\ bound = {} /\ binding = {} /\ pw = <<>>

GameInit == games = {} /\ signals = <<>> /\ gproxy = FALSE

(* main up to the main loop: the applications there are have been scanned. *)
Init ==
  /\ PolicyStart /\ PwInit /\ GameInit
  /\ main = "running"
  /\ units \in [Apps -> {"new", "up"}]
  /\ focused \in SUBSET Up
  /\ inotify \in [Apps -> {{}, {"create"}}]
  /\ \A a \in Apps \ Up : inotify[a] = {}
  /\ alive = {p \in Pids : UnitOf[p] \in Up}
  /\ timestamp = [a \in Apps |-> IF a \notin Up THEN "none"
                                 ELSE IF a \in focused THEN "active" ELSE "inactive"]
  /\ boosted = [a \in Apps |-> {}]
  /\ calls = [a \in Apps |-> <<>>] /\ sent = {}
  /\ weight = [a \in Apps |-> 100]
  /\ missed = {}
  /\ changes = 0

-----------------------------------------------------------------------------
(* Applications, the desktop's shell, PipeWire and GameMode. *)
Happens ==
  /\ main = "running"
  /\ changes < MaxChanges
  /\ changes' = changes + 1
  /\ UNCHANGED <<cfg, main, gproxy, proxy, infoVars, callVars, weight>>

Report(a, kind) == inotify' = [inotify EXCEPT ![a] = @ \cup {kind}]
Tell(n, kind, s) == pw' = IF n \in bound THEN Append(pw, Event(kind, n, s)) ELSE pw
Miss(when, a) == missed' = IF when THEN missed \cup {a} ELSE missed

UnitStarts(a) ==
  /\ Happens
  /\ units[a] = "new"
  /\ units' = [units EXCEPT ![a] = "up"]
  /\ alive' = alive \cup PidsOf(a)
  /\ Report(a, "create")
  /\ UNCHANGED <<focused, pwVars, games, signals, missed>>

UnitStops(a) ==
  /\ Happens
  /\ a \in Up
  /\ units' = [units EXCEPT ![a] = "gone"]
  /\ alive' = alive \ PidsOf(a)
  /\ focused' = focused \ {a}
  /\ Report(a, "delete")
  /\ UNCHANGED <<pwVars, games, signals, missed>>

Focus(a) ==
  /\ Happens
  /\ a \in Up
  /\ focused' = IF a \in focused THEN focused \ {a} ELSE focused \cup {a}
  /\ Report(a, "attrib")
  /\ UNCHANGED <<units, alive, pwVars, games, signals, missed>>

(* Events on their way that name a process are of no use once it is gone. *)
Named(p) ==
  \/ \E n \in NodesOf(p) : node[n] = "running" \/ \E i \in DOMAIN pw : pw[i].node = n
  \/ p \in games \/ \E i \in DOMAIN signals : signals[i].pid = p

Exit(p) ==
  /\ Happens
  /\ p \in alive
  /\ alive' = alive \ {p}
  /\ Miss(Named(p), UnitOf[p])
  /\ UNCHANGED <<units, focused, inotify, pwVars, games, signals>>

NodeAppears(n) ==
  /\ Happens
  /\ pipewire /\ node[n] = "none" /\ PidOf[n] \in alive
  /\ node' = [node EXCEPT ![n] = "suspended"]
  /\ pw' = Append(pw, Event("global", n, "suspended"))
  /\ UNCHANGED <<unitVars, pipewire, bound, binding, games, signals, missed>>

(* One flag stands for all streams of an application. *)
OtherRuns(n) == \E m \in Nodes \ {n} : App(m) = App(n) /\ node[m] = "running"

NodeChanges(n, s) ==
  /\ Happens
  /\ node[n] \in States \ {s} /\ PidOf[n] \in alive
  /\ node' = [node EXCEPT ![n] = s]
  /\ Tell(n, "info", s)
  /\ Miss((s \in {"idle", "suspended"} /\ OtherRuns(n)) \/ (node[n] = "running" /\ s = "error"),
          App(n))
  /\ UNCHANGED <<unitVars, pipewire, bound, binding, games, signals>>

NodeRemoved(n) ==
  /\ Happens
  /\ node[n] \in States
  /\ node' = [node EXCEPT ![n] = "gone"]
  /\ Tell(n, "removed", "suspended")
  /\ Miss(node[n] = "running", App(n))
  /\ UNCHANGED <<unitVars, pipewire, bound, binding, games, signals>>

(* A server that goes takes its nodes along; the daemon does not reconnect. *)
PipeWireDies ==
  /\ Happens
  /\ pipewire
  /\ pipewire' = FALSE
  /\ node' = [n \in Nodes |-> IF node[n] = "none" THEN "none" ELSE "gone"]
  /\ bound' = {} /\ binding' = {}
  /\ missed' = missed \cup {App(n) : n \in {m \in Nodes : node[m] = "running"}}
  /\ UNCHANGED <<unitVars, pw, games, signals>>

(* A signal nobody listens to is lost; one flag stands for all games. *)
Signal(p, registered) ==
  /\ signals' = IF gproxy THEN Append(signals, [pid |-> p, on |-> registered]) ELSE signals
  /\ Miss(~gproxy \/ (~registered /\ games \cap PidsOf(UnitOf[p]) # {p}), UnitOf[p])

GameRegisters(p) ==
  /\ Happens
  /\ p \in alive \ games
  /\ games' = games \cup {p}
  /\ Signal(p, TRUE)
  /\ UNCHANGED <<unitVars, pwVars>>

GameUnregisters(p) ==
  /\ Happens
  /\ p \in games
  /\ games' = games \ {p}
  /\ Signal(p, FALSE)
  /\ UNCHANGED <<unitVars, pwVars>>

(* PipeWire answers a bind request with the state of the node. *)
Bind(n) ==
  /\ main = "running" /\ n \in binding
  /\ binding' = binding \ {n}
  /\ IF node[n] \in States
     THEN /\ bound' = bound \cup {n}
          /\ pw' = Append(pw, Event("info", n, node[n]))
          /\ Miss(node[n] \in {"idle", "suspended"} /\ OtherRuns(n), App(n))
     ELSE UNCHANGED <<bound, pw, missed>>
  /\ UNCHANGED <<cfg, main, unitVars, pipewire, node, gameVars, proxy, infoVars,
                 callVars, weight, changes>>

World ==
  \/ \E a \in Apps : UnitStarts(a) \/ UnitStops(a) \/ Focus(a)
  \/ \E p \in Pids : Exit(p) \/ GameRegisters(p) \/ GameUnregisters(p)
  \/ \E n \in Nodes : NodeAppears(n) \/ NodeRemoved(n) \/ Bind(n)
  \/ \E n \in Nodes, s \in States : NodeChanges(n, s)
  \/ PipeWireDies

-----------------------------------------------------------------------------
(* r_app_monitor_get_app_info_from_path, for a directory that is there. *)
Stamp(a) == IF a \in focused THEN "active" ELSE "inactive"
Reread(a) == timestamp' = [timestamp EXCEPT ![a] = Stamp(a)]

(* app_info_changed, for an entry with these values. *)
Changed(a, stamp, flags) ==
  LET w == WeightOf(cfg, stamp = "active", flags # {}) IN
  IF proxy
  THEN /\ calls' = [calls EXCEPT ![a] = Append(@, w)]
       /\ sent' = sent \cup {a}
  ELSE UNCHANGED callVars

Dispatch == main = "running" /\ UNCHANGED <<cfg, main, weight, missed, changes>>

SystemdBusProxyReady ==
  /\ Dispatch
  /\ ~proxy
  /\ proxy' = TRUE
  /\ UNCHANGED <<unitVars, pwVars, gameVars, infoVars, callVars>>

GamemodeBusProxyReady ==
  /\ Dispatch
  /\ ~gproxy
  /\ gproxy' = TRUE
  /\ UNCHANGED <<unitVars, pwVars, games, signals, proxy, infoVars, callVars>>

(* handle_inotify_event: the events of a unit in their order. *)
Inotify(a, kind, earlier) ==
  /\ Dispatch
  /\ kind \in inotify[a] /\ inotify[a] \cap earlier = {}
  /\ inotify' = [inotify EXCEPT ![a] = @ \ {kind}]
  /\ UNCHANGED <<units, focused, alive, pwVars, gameVars, proxy>>

InCreate(a) ==
  /\ Inotify(a, "create", {})
  /\ IF a \in Up THEN Reread(a) ELSE UNCHANGED timestamp
  /\ UNCHANGED <<boosted, callVars>>

InAttrib(a) ==
  /\ Inotify(a, "attrib", {"create"})
  /\ IF a \in Up THEN Reread(a) /\ Changed(a, Stamp(a), boosted[a])
     ELSE UNCHANGED <<timestamp, callVars>>
  /\ UNCHANGED boosted

InDelete(a) ==
  /\ Inotify(a, "delete", {"create", "attrib"})
  /\ timestamp' = [timestamp EXCEPT ![a] = "none"]
  /\ boosted' = [boosted EXCEPT ![a] = {}]
  /\ UNCHANGED callVars

(* get_unit_cgroup_path_from_pid needs the process, the directory its unit. *)
Found(p) == p \in alive /\ UnitOf[p] \in Up

(* Mutant: that the process and its unit have gone is not noticed. *)
BoostUnchecked(p, flags) ==
  LET a == UnitOf[p] IN
  /\ Reread(a)
  /\ boosted' = [boosted EXCEPT ![a] = flags]
  /\ Changed(a, Stamp(a), flags)

(* What an event that names a process does. *)
Boost(p, flags) ==
  LET a == UnitOf[p] IN
  IF Found(p)
  THEN /\ Reread(a)
       /\ boosted' = [boosted EXCEPT ![a] = flags]
       /\ Changed(a, Stamp(a), flags)
  ELSE UNCHANGED <<infoVars, callVars>>

NextPwEvent(kind) ==
  /\ Dispatch
  /\ pw # <<>> /\ Head(pw).kind = kind
  /\ pw' = Tail(pw)
  /\ UNCHANGED <<unitVars, pipewire, node, bound, gameVars, proxy>>

RegistryEventGlobal ==
  /\ NextPwEvent("global")
  /\ binding' = IF pipewire THEN binding \cup {Head(pw).node} ELSE binding
  /\ UNCHANGED <<infoVars, callVars>>

(* Mutant: only a suspended node loses the boost. *)
NodeEventInfoNotIdle ==
  /\ NextPwEvent("info")
  /\ LET p == PidOf[Head(pw).node]
         a == UnitOf[p]
     IN CASE Head(pw).state = "running" -> Boost(p, boosted[a] \cup {"audio"})
          [] Head(pw).state = "suspended" -> Boost(p, boosted[a] \ {"audio"})
          [] OTHER -> /\ IF Found(p) THEN Reread(a) ELSE UNCHANGED timestamp
                      /\ UNCHANGED <<boosted, callVars>>
  /\ UNCHANGED binding

(* node_event_info: of the other states the timestamp alone is read. *)
NodeEventInfo ==
  /\ NextPwEvent("info")
  /\ LET p == PidOf[Head(pw).node]
         a == UnitOf[p]
     IN CASE Head(pw).state = "running" -> Boost(p, boosted[a] \cup {"audio"})
          [] Head(pw).state \in {"idle", "suspended"} -> Boost(p, boosted[a] \ {"audio"})
          [] OTHER -> /\ IF Found(p) THEN Reread(a) ELSE UNCHANGED timestamp
                      /\ UNCHANGED <<boosted, callVars>>
  /\ UNCHANGED binding

(* The proxy of the node goes, the flag of the application stays. *)
RemovedProxy ==
  /\ NextPwEvent("removed")
  /\ UNCHANGED <<binding, infoVars, callVars>>

GamemodeOnSignalReceived ==
  /\ Dispatch
  /\ signals # <<>>
  /\ signals' = Tail(signals)
  /\ LET p == Head(signals).pid
         flags == boosted[UnitOf[p]]
     IN Boost(p, IF Head(signals).on THEN flags \cup {"game"} ELSE flags \ {"game"})
  /\ UNCHANGED <<unitVars, pwVars, games, gproxy, proxy>>

(* Mutant: a boost is not looked at. *)
ResetActive == {a \in Apps : timestamp[a] = "active"}

(* r_app_monitor_reset_all_apps finds these to be reset. *)
Reset == {a \in Apps : timestamp[a] = "active" \/ boosted[a] # {}}

(* r_app_policy_stop: what was raised is reset, and the calls are flushed. *)
PolicyStop ==
  /\ timestamp' = [a \in Apps |-> IF a \in Reset THEN "inactive" ELSE timestamp[a]]
  /\ boosted' = [a \in Apps |-> {}]
  /\ IF proxy
     THEN /\ calls' = [a \in Apps |-> IF a \in Reset
                         THEN Append(calls[a], WeightOf(cfg, FALSE, FALSE)) ELSE calls[a]]
          /\ sent' = sent \cup Reset
     ELSE UNCHANGED callVars

(* The end of main: game monitor, PipeWire monitor and policy stop. *)
Stop ==
  /\ main = "running"
  /\ main' = "exited"
  /\ gproxy' = FALSE
  /\ PolicyStop
  /\ UNCHANGED <<cfg, unitVars, pwVars, games, signals, proxy, weight, missed, changes>>

Daemon ==
  \/ SystemdBusProxyReady \/ GamemodeBusProxyReady
  \/ \E a \in Apps : InCreate(a) \/ InAttrib(a) \/ InDelete(a)
  \/ RegistryEventGlobal \/ NodeEventInfo \/ RemovedProxy
  \/ GamemodeOnSignalReceived

(* systemd refuses a weight out of range and a unit it does not have. *)
SetUnitProperties(a) ==
  /\ calls[a] # <<>>
  /\ calls' = [calls EXCEPT ![a] = Tail(@)]
  /\ weight' = IF a \in Up /\ Head(calls[a]) \in Weights
               THEN [weight EXCEPT ![a] = Head(calls[a])] ELSE weight
  /\ UNCHANGED <<cfg, main, unitVars, pwVars, gameVars, proxy, infoVars, sent,
                 missed, changes>>

Next == World \/ Daemon \/ Stop \/ \E a \in Apps : SetUnitProperties(a)

Spec == Init /\ [][Next]_vars
-----------------------------------------------------------------------------
(* Every variable has its type, by the part of the system that keeps it. *)
MainTypeOK ==
  /\ cfg \in [default : Weights, active : Weights, inc : 0..(MaxWeight - 1)]
  /\ main \in {"running", "exited"}
  /\ proxy \in BOOLEAN
  /\ missed \in SUBSET Apps
  /\ changes \in 0..MaxChanges

UnitsTypeOK ==
  /\ units \in [Apps -> {"new", "up", "gone"}]
  /\ focused \in SUBSET Up
  /\ inotify \in [Apps -> SUBSET {"create", "attrib", "delete"}]
  /\ alive \in SUBSET {p \in Pids : UnitOf[p] \in Up}

PwTypeOK ==
  /\ pipewire \in BOOLEAN
  /\ node \in [Nodes -> States \cup {"none", "gone"}]
  /\ bound \in SUBSET Nodes /\ binding \in SUBSET Nodes
  /\ pw \in Seq([kind : {"global", "info", "removed"}, node : Nodes, state : States])

GamesTypeOK ==
  /\ games \in SUBSET Pids
  /\ signals \in Seq([pid : Pids, on : BOOLEAN])
  /\ gproxy \in BOOLEAN

InfoTypeOK ==
  /\ timestamp \in [Apps -> {"none", "inactive", "active"}]
  /\ boosted \in [Apps -> SUBSET {"audio", "game"}]

CallsTypeOK ==
  /\ calls \in [Apps -> Seq(Nat)]
  /\ weight \in [Apps -> Weights]
  /\ sent \in SUBSET Apps

TypeOK ==
  /\ MainTypeOK /\ UnitsTypeOK /\ PwTypeOK /\ GamesTypeOK
  /\ InfoTypeOK /\ CallsTypeOK

(***************************************************************************)
(* With a default weight that is not above the active one every call asks  *)
(* for a weight systemd accepts (data/uresourced.conf.in:30, "The range    *)
(* for all weights are [1,10000]"), whatever the file says.                *)
(***************************************************************************)
WeightsInRange ==
  cfg.default <= cfg.active =>
    \A a \in Apps : \A i \in DOMAIN calls[a] : calls[a][i] \in Weights

(***************************************************************************)
(* Once all events and calls about an application are dealt with, systemd  *)
(* gives it the weight that its focus, its streams and its games ask for:  *)
(* if a call was made for it at all (an application that was focused       *)
(* before there was a proxy gets none), and unless it has missed, see      *)
(* "missed", something that the daemon was not told or took wrongly.       *)
(***************************************************************************)
Playing(a) == \E n \in Nodes : App(n) = a /\ node[n] = "running"
Gaming(a)  == games \cap PidsOf(a) # {}
Due(a) == WeightOf(cfg, a \in focused, Playing(a) \/ Gaming(a))
Handled(a) == inotify[a] = {} /\ pw = <<>> /\ binding = {} /\ signals = <<>>

PolicyFollows ==
  main = "running" => \A a \in (Up \cap sent) \ missed :
    Handled(a) /\ calls[a] = <<>> /\ Due(a) \in Weights => weight[a] = Due(a)

(***************************************************************************)
(* What the daemon has raised is back at the default weight when it has    *)
(* gone and its calls are served: unless a change of the focus was still   *)
(* waiting to be handled, which a silent read may have entered already.    *)
(***************************************************************************)
StopResets ==
  main = "exited" => \A a \in Up \cap sent :
    calls[a] = <<>> /\ "attrib" \notin inotify[a] => weight[a] = cfg.default

(***************************************************************************)
(* Events about an application that come after it has gone do not put it   *)
(* back into the table.                                                    *)
(***************************************************************************)
Forgotten ==
  \A a \in Apps : units[a] = "gone" /\ inotify[a] = {} => timestamp[a] = "none"

(***************************************************************************)
(* data/uresourced.conf.in:41-43, "Boost weights act like increments [...] *)
(* when an application is playing audio": while a stream runs, and all is  *)
(* dealt with, the application has the boost.                              *)
(***************************************************************************)
Streams(a) == {n \in Nodes : App(n) = a /\ node[n] = "running" /\ PidOf[n] \in alive}

BoostWhilePlaying ==
  main = "running" => \A a \in Up :
    Handled(a) /\ Streams(a) # {} => "audio" \in boosted[a]
=============================================================================
