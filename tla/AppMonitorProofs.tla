-------------------------- MODULE AppMonitorProofs --------------------------
(***************************************************************************)
(* The application monitor neither leaks a watch nor loses a directory or  *)
(* a focus change, whatever tree and however it changes while it is        *)
(* scanned and its events are read.                                        *)
(***************************************************************************)
EXTENDS AppMonitor, FiniteSetTheorems, TLAPS

Event == [wd : Nat, kind : {"create", "delete", "attrib"}, dir : Dirs]

(* What the kernel's queue holds after an event has been reported. *)
LEMMA ReportQueues ==
  ASSUME queue \in Seq(Event), wdOf \in [Paths -> Nat],
         NEW kind \in {"create", "delete", "attrib"}, NEW d \in Dirs, Report(kind, d)
  PROVE  /\ queue' \in Seq(Event)
         /\ \A i \in 1..Len(queue) : i \in 1..Len(queue') /\ queue'[i] = queue[i]
         /\ \A i \in 1..Len(queue') :
              \/ i \in 1..Len(queue)
              \/ /\ wdOf[Parent[d]] # 0
                 /\ queue'[i] = [wd |-> wdOf[Parent[d]], kind |-> kind, dir |-> d]
         /\ wdOf[Parent[d]] # 0 => \E i \in 1..Len(queue') :
              queue'[i] = [wd |-> wdOf[Parent[d]], kind |-> kind, dir |-> d]
<1> DEFINE e == [wd |-> wdOf[Parent[d]], kind |-> kind, dir |-> d]
<1>1. e \in Event
  BY TreeAssumption DEF Event, Paths
<1>2. queue' = IF wdOf[Parent[d]] = 0 \/ (queue # <<>> /\ queue[Len(queue)] = e)
               THEN queue ELSE Append(queue, e)
  BY DEF Report
<1> HIDE DEF e, Event
<1>3. CASE wdOf[Parent[d]] = 0
  <2>1. queue' = queue
    BY <1>2, <1>3
  <2>2. QED
    BY <1>3, <2>1
<1>4. CASE wdOf[Parent[d]] # 0 /\ queue # <<>> /\ queue[Len(queue)] = e
  <2>1. queue' = queue /\ Len(queue) \in 1..Len(queue)
    BY <1>2, <1>4
  <2>2. QED
    BY <1>4, <2>1 DEF e
<1>5. CASE wdOf[Parent[d]] # 0 /\ ~(queue # <<>> /\ queue[Len(queue)] = e)
  <2>1. queue' = Append(queue, e)
    BY <1>2, <1>5
  <2>2. queue' \in Seq(Event) /\ Len(queue') = Len(queue) + 1 /\ queue'[Len(queue) + 1] = e
    BY <1>1, <2>1
  <2>3. \A i \in 1..Len(queue) : i \in 1..Len(queue') /\ queue'[i] = queue[i]
    BY <1>1, <2>1
  <2>4. \A i \in 1..Len(queue') : i \in 1..Len(queue) \/ i = Len(queue) + 1
    BY <2>2
  <2>5. Len(queue) + 1 \in 1..Len(queue')
    BY <2>2
  <2>6. QED
    BY <1>5, <2>2, <2>3, <2>4, <2>5 DEF e
<1>6. QED
  BY <1>3, <1>4, <1>5

(* ... and after the oldest has been read. *)
LEMMA EventRead ==
  ASSUME queue \in Seq(Event), NEW kind, NextEvent(kind)
  PROVE  /\ pc = "idle" /\ queue # <<>> /\ Head(queue) = queue[1] /\ 1 \in 1..Len(queue)
         /\ Head(queue) \in Event /\ Head(queue).kind = kind
         /\ Head(queue).dir \in Dirs /\ Head(queue).wd \in Nat
         /\ queue' \in Seq(Event)
         /\ \A i \in 1..Len(queue') : i + 1 \in 1..Len(queue) /\ queue'[i] = queue[i + 1]
         /\ \A i \in 1..Len(queue) : i = 1 \/ (i - 1 \in 1..Len(queue') /\ queue'[i - 1] = queue[i])
<1>1. pc = "idle" /\ queue # <<>> /\ Head(queue).kind = kind /\ queue' = Tail(queue)
  BY DEF NextEvent
<1>2. Head(queue) \in Event
  <2> HIDE DEF Event
  <2>1. QED
    BY <1>1
<1>3. Head(queue).dir \in Dirs /\ Head(queue).wd \in Nat
  BY <1>2 DEF Event
<1> HIDE DEF Event
<1>4. Head(queue) = queue[1] /\ 1 \in 1..Len(queue) /\ queue' \in Seq(Event)
      /\ Len(queue') = Len(queue) - 1
  BY <1>1
<1>5. \A i \in 1..Len(queue') : i + 1 \in 1..Len(queue) /\ queue'[i] = queue[i + 1]
  BY <1>1
<1>6. \A i \in 1..Len(queue) : i = 1 \/ (i - 1 \in 1..Len(queue') /\ queue'[i - 1] = queue[i])
  BY <1>1, <1>4
<1>7. QED
  BY <1>1, <1>2, <1>3, <1>4, <1>5, <1>6

-----------------------------------------------------------------------------
(***************************************************************************)
(* Types, and the maps.  A new watch descriptor is larger than all those   *)
(* in the maps, so that the maps are never found to have it already.       *)
(***************************************************************************)
WatchesTypeOK ==
  /\ wdOf \in [Paths -> Nat] /\ lastWd \in Nat
  /\ path_to_wd \in [Paths -> Nat]
  /\ DOMAIN wd_to_path \subseteq 1..lastWd
  /\ \A w \in DOMAIN wd_to_path : wd_to_path[w] \in Paths

RestTypeOK ==
  /\ exists \in SUBSET used /\ used \in SUBSET Dirs /\ reused \in BOOLEAN
  /\ xattr \in [Dirs -> {"unset", "inactive", "active"}]
  /\ queue \in Seq(Event)
  /\ changes \in 0..MaxChanges
  /\ app_info \in [Dirs -> {"none", "inactive", "active"}]
  /\ told \in [Dirs -> {"none", "inactive", "active"}]
  /\ pc \in {"idle", "scan", "visit", "open"}
  /\ at \in Paths /\ listed \in SUBSET Dirs
  /\ killed \in BOOLEAN

MapInv == WatchesTypeOK /\ RestTypeOK /\ NoWatchLeak

LEMMA TypeParts == TypeOK <=> WatchesTypeOK /\ RestTypeOK
BY DEF TypeOK, WatchesTypeOK, RestTypeOK, Event

(* A watch that the kernel has and one that it would give out. *)
LEMMA LiveWatches ==
  ASSUME WatchesTypeOK, NoWatchLeak, NEW d \in Paths
  PROVE  /\ wdOf[d] \in 0..lastWd /\ path_to_wd[d] \in 0..lastWd
         /\ wdOf[d] # 0 => path_to_wd[d] = wdOf[d]
         /\ path_to_wd[d] # 0 => path_to_wd[d] \in DOMAIN wd_to_path
                                 /\ wd_to_path[path_to_wd[d]] = d
<1>1. wdOf[d] # 0 => path_to_wd[d] = wdOf[d]
  BY DEF NoWatchLeak, Live
<1>2. path_to_wd[d] # 0 => path_to_wd[d] \in DOMAIN wd_to_path /\ wd_to_path[path_to_wd[d]] = d
  BY DEF NoWatchLeak
<1>3. QED
  BY <1>1, <1>2 DEF WatchesTypeOK

(* The timestamp that is read: the one of the xattr, if there is one. *)
LEMMA TimestampRead ==
  ASSUME RestTypeOK, NEW d \in Dirs
  PROVE  /\ Timestamp(d) \in {"inactive", "active"}
         /\ xattr[d] # "unset" => Timestamp(d) = xattr[d]
         /\ xattr[d] = "unset" /\ app_info[d] # "active" => Timestamp(d) = "inactive"
<1>1. xattr[d] \in {"unset", "inactive", "active"} /\ app_info[d] \in {"none", "inactive", "active"}
  BY DEF RestTypeOK
<1>2. CASE xattr[d] # "unset"
  BY <1>1, <1>2 DEF Timestamp
<1>3. CASE xattr[d] = "unset" /\ app_info[d] = "none"
  BY <1>3 DEF Timestamp
<1>4. CASE xattr[d] = "unset" /\ app_info[d] # "none"
  <2>1. Timestamp(d) = app_info[d]
    BY <1>4 DEF Timestamp
  <2>2. QED
    BY <1>1, <1>4, <2>1
<1>5. QED
  BY <1>2, <1>3, <1>4

LEMMA AddedWatch ==
  ASSUME MapInv, NEW d \in Paths, InotifyAddCgroupDir(d)
  PROVE  /\ WatchesTypeOK' /\ NoWatchLeak'
         /\ app_info' \in [Dirs -> {"none", "inactive", "active"}]
         /\ killed' = (killed \/ wdOf[d] # 0)
         /\ wdOf[d] = 0 => wdOf'[d] # 0
         /\ path_to_wd'[d] # 0
         /\ \A p \in Paths \ {d} : wdOf'[p] = wdOf[p] /\ path_to_wd'[p] = path_to_wd[p]
         /\ d \in Apps => app_info'[d] = Timestamp(d)
         /\ d \notin Apps => app_info' = app_info
         /\ \A p \in Dirs \ {d} : app_info'[p] = app_info[p]
<1> DEFINE old == path_to_wd[d]
           wd  == IF wdOf[d] # 0 THEN wdOf[d] ELSE lastWd + 1
           cut == IF old = 0 THEN wd_to_path ELSE Without(old)
<1>1. /\ lastWd' = IF wdOf[d] # 0 THEN lastWd ELSE wd
      /\ wdOf' = [wdOf EXCEPT ![d] = IF old = wd THEN 0 ELSE wd]
      /\ path_to_wd' = [path_to_wd EXCEPT ![d] = wd]
      /\ wd_to_path' = [w \in DOMAIN cut \cup {wd} |-> IF w = wd THEN d ELSE cut[w]]
      /\ killed' = (killed \/ old = wd)
      /\ IF d \in Apps THEN GetAppInfoFromPath(d) ELSE UNCHANGED app_info
  BY Zenon DEF InotifyAddCgroupDir
<1>2. /\ wdOf \in [Paths -> Nat] /\ lastWd \in Nat /\ path_to_wd \in [Paths -> Nat]
      /\ DOMAIN wd_to_path \subseteq 1..lastWd
      /\ \A w \in DOMAIN wd_to_path : wd_to_path[w] \in Paths
  BY DEF MapInv, WatchesTypeOK
<1>3. \A p \in Paths : /\ wdOf[p] \in 0..lastWd /\ path_to_wd[p] \in 0..lastWd
                       /\ wdOf[p] # 0 => path_to_wd[p] = wdOf[p]
                       /\ path_to_wd[p] # 0 => path_to_wd[p] \in DOMAIN wd_to_path
                                               /\ wd_to_path[path_to_wd[p]] = p
  BY LiveWatches DEF MapInv
<1>4. \A w \in DOMAIN wd_to_path : path_to_wd[wd_to_path[w]] = w
  BY DEF MapInv, NoWatchLeak
<1>5. /\ old = wd <=> wdOf[d] # 0
      /\ wd \in 1..lastWd' /\ lastWd' \in Nat /\ lastWd <= lastWd'
      /\ wd \in DOMAIN wd_to_path => wd = old
  BY <1>1, <1>2, <1>3
<1>6. /\ DOMAIN cut = DOMAIN wd_to_path \ {old}
      /\ \A w \in DOMAIN cut : cut[w] = wd_to_path[w]
  <2>1. CASE old = 0
    <3>1. 0 \notin DOMAIN wd_to_path
      BY <1>2
    <3>2. cut = wd_to_path
      BY <2>1, Zenon
    <3> HIDE DEF cut
    <3>3. QED
      BY <2>1, <3>1, <3>2
  <2>2. CASE old # 0
    BY <2>2 DEF Without
  <2>3. QED
    BY <2>1, <2>2
<1> HIDE DEF cut
<1>7. /\ DOMAIN wd_to_path' = (DOMAIN wd_to_path \ {old}) \cup {wd}
      /\ wd_to_path'[wd] = d
      /\ \A w \in DOMAIN wd_to_path \ {old} : w # wd /\ wd_to_path'[w] = wd_to_path[w]
  BY <1>1, <1>5, <1>6
<1>8. /\ wdOf' \in [Paths -> Nat] /\ path_to_wd' \in [Paths -> Nat]
      /\ path_to_wd'[d] = wd
      /\ wdOf'[d] = IF old = wd THEN 0 ELSE wd
      /\ \A p \in Paths \ {d} : wdOf'[p] = wdOf[p] /\ path_to_wd'[p] = path_to_wd[p]
  BY <1>1, <1>2, <1>5
<1> HIDE DEF wd, old
<1>9. WatchesTypeOK'
  <2>1. DOMAIN wd_to_path' \subseteq 1..lastWd'
    BY <1>2, <1>5, <1>7
  <2>2. QED
    BY <1>2, <1>5, <1>7, <1>8, <2>1 DEF WatchesTypeOK
<1>10. NoWatchLeak'
  <2>1. ASSUME NEW p \in Paths, path_to_wd'[p] # 0
        PROVE  path_to_wd'[p] \in DOMAIN wd_to_path' /\ wd_to_path'[path_to_wd'[p]] = p
    <3>1. CASE p = d
      BY <1>7, <1>8, <3>1
    <3>2. CASE p # d
      <4>1. path_to_wd[p] \in DOMAIN wd_to_path /\ wd_to_path[path_to_wd[p]] = p
        BY <1>3, <1>8, <2>1, <3>2
      <4>2. path_to_wd[p] # old
        <5>1. old # 0 => wd_to_path[old] = d
          BY <1>3 DEF old
        <5>2. QED
          BY <1>8, <2>1, <3>2, <4>1, <5>1
      <4>3. QED
        BY <1>7, <1>8, <3>2, <4>1, <4>2
    <3>3. QED
      BY <3>1, <3>2
  <2>2. ASSUME NEW w \in DOMAIN wd_to_path'
        PROVE  path_to_wd'[wd_to_path'[w]] = w
    <3>1. CASE w = wd
      BY <1>7, <1>8, <3>1
    <3>2. CASE w # wd
      <4>1. w \in DOMAIN wd_to_path \ {old} /\ wd_to_path'[w] = wd_to_path[w]
        BY <1>7, <2>2, <3>2
      <4>2. wd_to_path[w] \in Paths /\ path_to_wd[wd_to_path[w]] = w
        BY <1>2, <1>4, <4>1
      <4>3. wd_to_path[w] # d
        BY <4>1, <4>2 DEF old
      <4>4. QED
        BY <1>8, <4>1, <4>2, <4>3
    <3>3. QED
      BY <3>1, <3>2
  <2>3. ASSUME NEW p \in Paths, wdOf'[p] # 0
        PROVE  path_to_wd'[p] = wdOf'[p]
    BY <1>3, <1>8, <2>3
  <2>4. QED
    BY <2>1, <2>2, <2>3 DEF NoWatchLeak, Live
<1>11. /\ app_info' \in [Dirs -> {"none", "inactive", "active"}]
       /\ d \in Apps => app_info'[d] = Timestamp(d)
       /\ d \notin Apps => app_info' = app_info
       /\ \A p \in Dirs \ {d} : app_info'[p] = app_info[p]
  <2>1. app_info \in [Dirs -> {"none", "inactive", "active"}] /\ Apps \subseteq Dirs
    BY TreeAssumption DEF MapInv, RestTypeOK
  <2>2. CASE d \in Apps
    <3>1. app_info' = [app_info EXCEPT ![d] = Timestamp(d)]
      BY <1>1, <2>2 DEF GetAppInfoFromPath
    <3>2. Timestamp(d) \in {"inactive", "active"}
      BY <2>1, <2>2, TimestampRead DEF MapInv
    <3>3. QED
      BY <2>1, <2>2, <3>1, <3>2
  <2>3. CASE d \notin Apps
    BY <1>1, <2>1, <2>3
  <2>4. QED
    BY <2>2, <2>3
<1>12. QED
  BY <1>1, <1>5, <1>8, <1>9, <1>10, <1>11

(* What in_delete takes from the maps, and from the kernel. *)
LEMMA DroppedWatch ==
  ASSUME MapInv, NEW d \in Paths, path_to_wd' = [path_to_wd EXCEPT ![d] = 0],
         wd_to_path' = Without(path_to_wd[d]),
         wdOf' = [p \in Paths |-> IF wdOf[p] = path_to_wd[d] THEN 0 ELSE wdOf[p]],
         lastWd' = lastWd
  PROVE  /\ WatchesTypeOK' /\ NoWatchLeak'
         /\ path_to_wd'[d] = 0 /\ wdOf'[d] = 0
         /\ \A p \in Paths \ {d} : wdOf'[p] = wdOf[p] /\ path_to_wd'[p] = path_to_wd[p]
<1>1. /\ wdOf \in [Paths -> Nat] /\ lastWd \in Nat /\ path_to_wd \in [Paths -> Nat]
      /\ DOMAIN wd_to_path \subseteq 1..lastWd
      /\ \A w \in DOMAIN wd_to_path : wd_to_path[w] \in Paths
  BY DEF MapInv, WatchesTypeOK
<1>2. \A p \in Paths : /\ wdOf[p] # 0 => path_to_wd[p] = wdOf[p]
                       /\ path_to_wd[p] # 0 => path_to_wd[p] \in DOMAIN wd_to_path
                                               /\ wd_to_path[path_to_wd[p]] = p
  BY LiveWatches DEF MapInv
<1>3. \A w \in DOMAIN wd_to_path : path_to_wd[wd_to_path[w]] = w
  BY DEF MapInv, NoWatchLeak
<1>4. /\ DOMAIN wd_to_path' = DOMAIN wd_to_path \ {path_to_wd[d]}
      /\ \A w \in DOMAIN wd_to_path' : wd_to_path'[w] = wd_to_path[w]
  BY DEF Without
<1>5. /\ path_to_wd' \in [Paths -> Nat] /\ path_to_wd'[d] = 0
      /\ \A p \in Paths \ {d} : path_to_wd'[p] = path_to_wd[p]
  BY <1>1
<1>6. /\ wdOf' \in [Paths -> Nat] /\ wdOf'[d] = 0
      /\ \A p \in Paths \ {d} : wdOf'[p] = wdOf[p]
  BY <1>1, <1>2
<1>7. WatchesTypeOK'
  BY <1>1, <1>4, <1>5, <1>6 DEF WatchesTypeOK
<1>8. NoWatchLeak'
  <2>1. ASSUME NEW p \in Paths, path_to_wd'[p] # 0
        PROVE  path_to_wd'[p] \in DOMAIN wd_to_path' /\ wd_to_path'[path_to_wd'[p]] = p
    BY <1>2, <1>4, <1>5, <2>1
  <2>2. ASSUME NEW w \in DOMAIN wd_to_path'
        PROVE  path_to_wd'[wd_to_path'[w]] = w
    BY <1>1, <1>3, <1>4, <1>5, <2>2
  <2>3. ASSUME NEW p \in Paths, wdOf'[p] # 0
        PROVE  path_to_wd'[p] = wdOf'[p]
    BY <1>2, <1>5, <1>6, <2>3
  <2>4. QED
    BY <2>1, <2>2, <2>3 DEF NoWatchLeak, Live
<1>9. QED
  BY <1>5, <1>6, <1>7, <1>8

LEMMA MapInit == Init => MapInv
<1> SUFFICES ASSUME Init PROVE MapInv
  OBVIOUS
<1>1. WatchesTypeOK
  BY DEF Init, WatchesTypeOK
<1>2. RestTypeOK
  <2>1. changes \in 0..MaxChanges
    BY TreeAssumption DEF Init
  <2>2. <<>> \in Seq(Event)
    OBVIOUS
  <2>3. exists \in SUBSET Dirs
    BY DEF Init
  <2>4. QED
    BY <2>1, <2>2, <2>3 DEF Init, RestTypeOK, Paths
<1>3. NoWatchLeak
  BY DEF Init, NoWatchLeak, Live
<1>4. QED
  BY <1>1, <1>2, <1>3 DEF MapInv

(* The monitor's tables are left alone. *)
LEMMA MapsKept ==
  ASSUME MapInv, UNCHANGED <<lastWd, path_to_wd, wd_to_path>>, wdOf' \in [Paths -> Nat],
         \A d \in Paths : wdOf'[d] \in {0, wdOf[d]}
  PROVE  WatchesTypeOK' /\ NoWatchLeak'
<1>1. WatchesTypeOK'
  BY DEF MapInv, WatchesTypeOK
<1>2. NoWatchLeak'
  BY DEF MapInv, NoWatchLeak, Live
<1>3. QED
  BY <1>1, <1>2

LEMMA TreeMaps == MapInv /\ Tree => MapInv'
<1> SUFFICES ASSUME MapInv, Tree PROVE MapInv'
  OBVIOUS
<1>1. TreeStep
  BY DEF Tree, Mkdir, Rmdir, SetAttr
<1>2. changes' \in 0..MaxChanges
  BY <1>1, TreeAssumption DEF TreeStep, MapInv, RestTypeOK
<1>3. UNCHANGED <<lastWd, path_to_wd, wd_to_path, app_info, pc, at, listed, killed>>
  BY <1>1 DEF TreeStep, tableVars, scanVars
<1>4. queue \in Seq(Event) /\ wdOf \in [Paths -> Nat]
  BY DEF MapInv, RestTypeOK, WatchesTypeOK
<1>5. ASSUME NEW d \in Dirs, Mkdir(d)
      PROVE  MapInv'
  <2>1. queue' \in Seq(Event) /\ wdOf' = wdOf
    BY <1>4, <1>5, ReportQueues DEF Mkdir
  <2>2. RestTypeOK'
    BY <1>2, <1>3, <1>5, <2>1 DEF Mkdir, MapInv, RestTypeOK
  <2>3. QED
    BY <1>3, <1>4, <2>1, <2>2, MapsKept DEF MapInv
<1>6. ASSUME NEW d \in Dirs, Rmdir(d)
      PROVE  MapInv'
  <2>1. queue' \in Seq(Event)
    BY <1>4, <1>6, ReportQueues DEF Rmdir
  <2>2. wdOf' = [wdOf EXCEPT ![d] = 0]
    BY <1>6 DEF Rmdir
  <2>3. RestTypeOK'
    BY <1>2, <1>3, <1>6, <2>1 DEF Rmdir, MapInv, RestTypeOK
  <2>4. QED
    BY <1>3, <1>4, <2>2, <2>3, MapsKept DEF MapInv
<1>7. ASSUME NEW d \in Dirs, SetAttr(d)
      PROVE  MapInv'
  <2>1. queue' \in Seq(Event) /\ wdOf' = wdOf
    BY <1>4, <1>7, ReportQueues DEF SetAttr
  <2>2. xattr' \in [Dirs -> {"unset", "inactive", "active"}]
    BY <1>7 DEF SetAttr, MapInv, RestTypeOK
  <2>3. RestTypeOK'
    BY <1>2, <1>3, <1>7, <2>1, <2>2 DEF SetAttr, MapInv, RestTypeOK
  <2>4. QED
    BY <1>3, <1>4, <2>1, <2>3, MapsKept DEF MapInv
<1>8. QED
  BY <1>5, <1>6, <1>7 DEF Tree

LEMMA ScanMaps == MapInv /\ (NextName \/ VisitDir \/ OpenDir) => MapInv'
<1> SUFFICES ASSUME MapInv, NextName \/ VisitDir \/ OpenDir PROVE MapInv'
  OBVIOUS
<1> USE DEF treeVars, tableVars
<1>1. CASE NextName
  <2>1. WatchesTypeOK' /\ NoWatchLeak'
    BY <1>1, MapsKept DEF NextName, MapInv, WatchesTypeOK
  <2>2. RestTypeOK'
    BY <1>1 DEF NextName, MapInv, RestTypeOK, Paths
  <2>3. QED
    BY <2>1, <2>2 DEF MapInv
<1>2. CASE VisitDir
  <2>1. at \in Paths
    BY DEF MapInv, RestTypeOK
  <2>2. CASE InotifyAddCgroupDir(at) /\ pc' = "open"
    <3>1. WatchesTypeOK' /\ NoWatchLeak'
          /\ app_info' \in [Dirs -> {"none", "inactive", "active"}]
      BY <2>1, <2>2, AddedWatch
    <3>2. killed' \in BOOLEAN
      BY <2>2, Zenon DEF InotifyAddCgroupDir
    <3>3. RestTypeOK'
      BY <1>2, <2>2, <3>1, <3>2 DEF VisitDir, MapInv, RestTypeOK
    <3>4. QED
      BY <3>1, <3>3 DEF MapInv
  <2>3. CASE pc' = "scan" /\ UNCHANGED <<wdOf, lastWd, tableVars, killed>>
    <3>1. WatchesTypeOK' /\ NoWatchLeak'
      BY <2>3, MapsKept DEF MapInv, WatchesTypeOK
    <3>2. RestTypeOK'
      BY <1>2, <2>3 DEF VisitDir, MapInv, RestTypeOK
    <3>3. QED
      BY <3>1, <3>2 DEF MapInv
  <2>4. QED
    BY <1>2, <2>2, <2>3 DEF VisitDir
<1>3. CASE OpenDir
  <2>1. WatchesTypeOK' /\ NoWatchLeak'
    BY <1>3, MapsKept DEF OpenDir, MapInv, WatchesTypeOK
  <2>2. RestTypeOK'
    BY <1>3 DEF OpenDir, MapInv, RestTypeOK, Children
  <2>3. QED
    BY <2>1, <2>2 DEF MapInv
<1>4. QED
  BY <1>1, <1>2, <1>3

(* What handling an event comes to, by whether a watch is known for it. *)
LEMMA AttribHandled ==
  ASSUME InAttrib, NEW d, d = Head(queue).dir
  PROVE  /\ NextEvent("attrib")
         /\ UNCHANGED <<wdOf, lastWd, path_to_wd, wd_to_path, scanVars, killed>>
         /\ Known /\ d \in exists => /\ app_info' = [app_info EXCEPT ![d] = Timestamp(d)]
                                     /\ told' = [told EXCEPT ![d] = app_info'[d]]
         /\ ~(Known /\ d \in exists) => UNCHANGED <<app_info, told>>
BY Zenon DEF InAttrib, GetAppInfoFromPath

LEMMA CreateHandled ==
  ASSUME InCreate, NEW d, d = Head(queue).dir
  PROVE  /\ NextEvent("create") /\ UNCHANGED <<told, listed>>
         /\ Known => pc' = "open" /\ at' = d
         /\ Known /\ CanWatch(d) => InotifyAddCgroupDir(d)
         /\ Known /\ ~CanWatch(d) => UNCHANGED <<wdOf, lastWd, tableVars, killed>>
         /\ ~Known => UNCHANGED <<wdOf, lastWd, tableVars, pc, at, killed>>
BY Zenon DEF InCreate

LEMMA DeleteHandled ==
  ASSUME InDelete, NEW d, d = Head(queue).dir
  PROVE  /\ NextEvent("delete") /\ UNCHANGED <<lastWd, told, scanVars>>
         /\ Known => /\ path_to_wd' = [path_to_wd EXCEPT ![d] = 0]
                     /\ wd_to_path' = Without(path_to_wd[d])
                     /\ app_info' = [app_info EXCEPT ![d] = "none"]
                     /\ wdOf' = [p \in Paths |->
                                   IF wdOf[p] = path_to_wd[d] THEN 0 ELSE wdOf[p]]
                     /\ killed' = (killed \/ (wdOf[d] # 0 /\ wdOf[d] = path_to_wd[d]))
         /\ ~Known => UNCHANGED <<tableVars, wdOf, killed>>
BY Zenon DEF InDelete

LEMMA DeleteDrops ==
  ASSUME MapInv, InDelete, Known, NEW d \in Paths, d = Head(queue).dir
  PROVE  /\ WatchesTypeOK' /\ NoWatchLeak'
         /\ path_to_wd'[d] = 0 /\ wdOf'[d] = 0
         /\ \A p \in Paths \ {d} : wdOf'[p] = wdOf[p] /\ path_to_wd'[p] = path_to_wd[p]
         /\ app_info' = [app_info EXCEPT ![d] = "none"]
         /\ killed' = (killed \/ (wdOf[d] # 0 /\ wdOf[d] = path_to_wd[d]))
<1>1. /\ path_to_wd' = [path_to_wd EXCEPT ![d] = 0]
      /\ wd_to_path' = Without(path_to_wd[d])
      /\ wdOf' = [p \in Paths |-> IF wdOf[p] = path_to_wd[d] THEN 0 ELSE wdOf[p]]
      /\ app_info' = [app_info EXCEPT ![d] = "none"]
      /\ killed' = (killed \/ (wdOf[d] # 0 /\ wdOf[d] = path_to_wd[d]))
  BY Zenon DEF InDelete
<1>2. lastWd' = lastWd
  BY DEF InDelete
<1>3. /\ WatchesTypeOK' /\ NoWatchLeak'
      /\ path_to_wd'[d] = 0 /\ wdOf'[d] = 0
      /\ \A p \in Paths \ {d} : wdOf'[p] = wdOf[p] /\ path_to_wd'[p] = path_to_wd[p]
  BY <1>1, <1>2, DroppedWatch
<1>4. QED
  BY <1>1, <1>3

LEMMA HandledKind ==
  ASSUME InAttrib \/ InCreate \/ InDelete
  PROVE  \E kind : NextEvent(kind) /\ (InAttrib => kind = "attrib")
                   /\ (InCreate => kind = "create") /\ (InDelete => kind = "delete")
<1>1. /\ InAttrib => NextEvent("attrib")
      /\ InCreate => NextEvent("create")
      /\ InDelete => NextEvent("delete")
  BY Zenon DEF InAttrib, InCreate, InDelete
<1>2. \A kind : NextEvent(kind) => Head(queue).kind = kind
  BY DEF NextEvent
<1>3. QED
  BY <1>1, <1>2

LEMMA EventMaps == MapInv /\ (InAttrib \/ InCreate \/ InDelete) => MapInv'
<1> SUFFICES ASSUME MapInv, InAttrib \/ InCreate \/ InDelete PROVE MapInv'
  OBVIOUS
<1> DEFINE d == Head(queue).dir
<1> USE DEF treeVars, tableVars, scanVars
<1>1. queue \in Seq(Event)
  BY DEF MapInv, RestTypeOK
<1>2. ASSUME NEW kind, NextEvent(kind)
      PROVE  queue' \in Seq(Event) /\ d \in Dirs /\ d \in Paths /\ UNCHANGED treeVars
  <2>1. UNCHANGED treeVars
    BY <1>2 DEF NextEvent
  <2>2. QED
    BY <1>1, <1>2, <2>1, EventRead DEF Paths
<1>3. CASE InAttrib
  <2>1. NextEvent("attrib")
    BY <1>3 DEF InAttrib
  <2>2. WatchesTypeOK' /\ NoWatchLeak'
    BY <1>3, MapsKept DEF InAttrib, MapInv, WatchesTypeOK
  <2>3. /\ app_info' \in [Dirs -> {"none", "inactive", "active"}]
        /\ told' \in [Dirs -> {"none", "inactive", "active"}]
    <3>1. CASE Known /\ d \in exists
      <4>1. /\ app_info' = [app_info EXCEPT ![d] = Timestamp(d)]
            /\ told' = [told EXCEPT ![d] = app_info'[d]]
        BY <1>3, <3>1, AttribHandled
      <4>2. d \in Dirs /\ Timestamp(d) \in {"inactive", "active"}
        BY <1>2, <2>1, TimestampRead DEF MapInv
      <4> HIDE DEF d
      <4>3. QED
        BY <4>1, <4>2 DEF MapInv, RestTypeOK
    <3>2. CASE ~(Known /\ d \in exists)
      BY <1>3, <3>2, AttribHandled DEF MapInv, RestTypeOK
    <3>3. QED
      BY <3>1, <3>2
  <2>4. RestTypeOK'
    BY <1>2, <1>3, <2>1, <2>3 DEF InAttrib, MapInv, RestTypeOK
  <2>5. QED
    BY <2>2, <2>4 DEF MapInv
<1>4. CASE InCreate
  <2>1. NextEvent("create") /\ UNCHANGED <<told, listed>>
    BY <1>4 DEF InCreate
  <2>2. d \in Paths /\ queue' \in Seq(Event) /\ UNCHANGED treeVars
    BY <1>2, <2>1
  <2>3. pc' \in {"idle", "scan", "visit", "open"} /\ at' \in Paths
    BY <1>4, <2>2, CreateHandled DEF MapInv, RestTypeOK
  <2>4. CASE Known /\ CanWatch(d)
    <3>1. InotifyAddCgroupDir(d)
      BY <1>4, <2>4, CreateHandled
    <3>2. WatchesTypeOK' /\ NoWatchLeak'
          /\ app_info' \in [Dirs -> {"none", "inactive", "active"}]
      BY <2>2, <3>1, AddedWatch
    <3>3. killed' \in BOOLEAN
      BY <3>1, Zenon DEF InotifyAddCgroupDir
    <3>4. RestTypeOK'
      BY <2>1, <2>2, <2>3, <3>2, <3>3 DEF MapInv, RestTypeOK
    <3>5. QED
      BY <3>2, <3>4 DEF MapInv
  <2>5. CASE ~(Known /\ CanWatch(d))
    <3>1. UNCHANGED <<wdOf, lastWd, tableVars, killed>>
      BY <1>4, <2>5, CreateHandled
    <3>2. WatchesTypeOK' /\ NoWatchLeak'
      BY <3>1, MapsKept DEF MapInv, WatchesTypeOK
    <3>3. RestTypeOK'
      BY <2>1, <2>2, <2>3, <3>1 DEF MapInv, RestTypeOK
    <3>4. QED
      BY <3>2, <3>3 DEF MapInv
  <2>6. QED
    BY <2>4, <2>5
<1>5. CASE InDelete
  <2>1. NextEvent("delete") /\ UNCHANGED <<lastWd, told, scanVars>>
    BY <1>5 DEF InDelete
  <2>2. d \in Paths /\ queue' \in Seq(Event) /\ UNCHANGED treeVars
    BY <1>2, <2>1
  <2>3. CASE Known
    <3>1. /\ WatchesTypeOK' /\ NoWatchLeak'
          /\ app_info' = [app_info EXCEPT ![d] = "none"]
          /\ killed' = (killed \/ (wdOf[d] # 0 /\ wdOf[d] = path_to_wd[d]))
      BY <1>5, <2>2, <2>3, DeleteDrops
    <3>2. killed' \in BOOLEAN
      BY <3>1, Zenon
    <3> HIDE DEF d
    <3>3. app_info' \in [Dirs -> {"none", "inactive", "active"}]
      BY <3>1 DEF MapInv, RestTypeOK
    <3>4. RestTypeOK'
      BY <2>1, <2>2, <3>2, <3>3 DEF MapInv, RestTypeOK
    <3>5. QED
      BY <3>1, <3>4 DEF MapInv
  <2>4. CASE ~Known
    <3>1. UNCHANGED <<wdOf, lastWd, tableVars, killed>>
      BY <1>5, <2>1, <2>4, DeleteHandled
    <3>2. WatchesTypeOK' /\ NoWatchLeak'
      BY <3>1, MapsKept DEF MapInv, WatchesTypeOK
    <3>3. RestTypeOK'
      BY <2>1, <2>2, <3>1 DEF MapInv, RestTypeOK
    <3>4. QED
      BY <3>2, <3>3 DEF MapInv
  <2>5. QED
    BY <2>3, <2>4
<1>6. QED
  BY <1>3, <1>4, <1>5

LEMMA MapInductive == MapInv /\ [Next]_vars => MapInv'
<1>1. MapInv /\ UNCHANGED vars => MapInv'
  BY DEF vars, treeVars, tableVars, scanVars, MapInv, WatchesTypeOK, RestTypeOK, NoWatchLeak, Live
<1>2. QED
  BY <1>1, TreeMaps, ScanMaps, EventMaps DEF Next, Monitor

(* Every variable of the monitor and of the kernel keeps its type. *)
THEOREM TypeCorrect == Spec => []TypeOK
<1>1. MapInv => TypeOK
  BY TypeParts DEF MapInv
<1>2. QED
  BY <1>1, MapInit, MapInductive, PTL DEF Spec

(***************************************************************************)
(* The monitor's two maps stay each other's inverse and no live watch is   *)
(* missing from them, in whatever order inotify_add_cgroup_dir and         *)
(* in_delete meet a path that is removed and created again.                *)
(***************************************************************************)
THEOREM NoWatchLeaks == Spec => []NoWatchLeak
<1>1. MapInv => NoWatchLeak
  BY DEF MapInv
<1>2. QED
  BY <1>1, MapInit, MapInductive, PTL DEF Spec

-----------------------------------------------------------------------------
(***************************************************************************)
(* The mirror.  A directory that is there is watched, or the monitor will  *)
(* come to it: from the scan, or by an event that the watch of its parent  *)
(* has reported.  A parent without a watch is itself a directory that the  *)
(* monitor will come to.                                                   *)
(***************************************************************************)
EnoughWatches == IsFiniteSet(Dirs) /\ Cardinality(Dirs) < WatchLimit

OnItsWay(kind, d) ==
  \E i \in 1..Len(queue) : queue[i] = [wd |-> wdOf[Parent[d]], kind |-> kind, dir |-> d]

ToVisit(d) == d \in listed \/ (pc = "visit" /\ at = d)

Coming(d) ==
  \/ wdOf[Parent[d]] = 0
  \/ ToVisit(d) \/ (pc = "open" /\ at = Parent[d])
  \/ OnItsWay("create", d)

(* The entry of an application has the timestamp of its xattr. *)
Entered(a) == app_info[a] # "none" /\ (xattr[a] # "unset" => app_info[a] = xattr[a])

TreeInv ==
  /\ \A d \in exists : Parent[d] \in exists \cup {top}
  /\ \A d \in Dirs : wdOf[d] # 0 => d \in exists
  /\ pc = "idle" => listed = {}

Covered ==
  /\ wdOf[top] # 0 \/ (pc = "visit" /\ at = top)
  /\ \A d \in exists : wdOf[d] # 0 \/ Coming(d)
  /\ \A a \in Apps \cap exists : Entered(a) \/ OnItsWay("attrib", a) \/ Coming(a)

(* A path that was never used has no entry, and only one that is used      *)
(* again may have an entry that says -1 for an xattr that was never set.   *)
Fresh    == \A d \in Dirs \ used : app_info[d] = "none"
Unmarked == \A d \in exists : xattr[d] = "unset" => app_info[d] # "active"
EntryInv == Fresh /\ (~reused => Unmarked)

MirrorInv == MapInv /\ TreeInv /\ EntryInv /\ (~killed => Covered)

(* There is a watch for whatever is there. *)
LEMMA WatchFree ==
  ASSUME EnoughWatches, WatchesTypeOK, NEW d \in exists \cup {top}, d \in Paths
  PROVE  CanWatch(d)
<1>1. CASE wdOf[d] # 0
  BY <1>1 DEF CanWatch
<1>2. CASE wdOf[d] = 0
  <2>1. /\ IsFiniteSet(Paths)
        /\ Cardinality(Paths) = Cardinality(Dirs) + 1 /\ Cardinality(Dirs) \in Nat
    BY FS_AddElement, FS_CardinalityType, TreeAssumption DEF EnoughWatches, Paths
  <2>2. /\ IsFiniteSet(Paths \ {d})
        /\ Cardinality(Paths \ {d}) = Cardinality(Dirs)
    <3>1. d \in Paths
      OBVIOUS
    <3>2. IsFiniteSet(Paths \ {d}) /\ Cardinality(Paths \ {d}) = Cardinality(Paths) - 1
      BY <2>1, <3>1, FS_RemoveElement
    <3>3. QED
      BY <2>1, <3>2
  <2>3. Live \subseteq Paths \ {d}
    BY <1>2 DEF Live
  <2>4. IsFiniteSet(Live) /\ Cardinality(Live) <= Cardinality(Paths \ {d})
    BY <2>2, <2>3, FS_Subset
  <2>5. Cardinality(Live) \in Nat /\ WatchLimit \in Nat
    BY <2>4, FS_CardinalityType, TreeAssumption
  <2>6. QED
    BY <2>1, <2>2, <2>4, <2>5 DEF EnoughWatches, CanWatch
<1>3. QED
  BY <1>1, <1>2

LEMMA StaysOnItsWay ==
  ASSUME NEW kind, NEW d, OnItsWay(kind, d), wdOf'[Parent[d]] = wdOf[Parent[d]],
         \A i \in 1..Len(queue) : queue[i].dir = d /\ queue[i].kind = kind =>
           \E j \in 1..Len(queue') : queue'[j] = queue[i]
  PROVE  OnItsWay(kind, d)'
<1>1. PICK i \in 1..Len(queue) :
        queue[i] = [wd |-> wdOf[Parent[d]], kind |-> kind, dir |-> d]
  BY DEF OnItsWay
<1>2. PICK j \in 1..Len(queue') : queue'[j] = queue[i]
  BY <1>1
<1>3. QED
  BY <1>1, <1>2 DEF OnItsWay

LEMMA TreeInvStep == MapInv /\ TreeInv /\ [Next]_vars => TreeInv'
<1> SUFFICES ASSUME MapInv, TreeInv, [Next]_vars PROVE TreeInv'
  OBVIOUS
<1> USE DEF TreeInv, treeVars, tableVars, scanVars
<1>0. /\ \A d \in Dirs : Parent[d] \in Paths /\ d \in Paths /\ d # top
      /\ wdOf \in [Paths -> Nat] /\ exists \in SUBSET Dirs
      /\ top \in Paths /\ \A d \in Paths : d # top => d \in Dirs
  BY TreeAssumption DEF Paths, MapInv, WatchesTypeOK, RestTypeOK
<1>1. ASSUME NEW d \in Dirs, Mkdir(d)
      PROVE  TreeInv'
  BY <1>0, <1>1 DEF Mkdir, TreeStep
<1>2. ASSUME NEW d \in Dirs, Rmdir(d)
      PROVE  TreeInv'
  <2>1. /\ exists' = exists \ {d} /\ wdOf' = [wdOf EXCEPT ![d] = 0]
        /\ Children(d) = {} /\ pc' = pc /\ listed' = listed
    BY <1>2 DEF Rmdir, TreeStep
  <2>2. \A e \in exists : Parent[e] # d
    BY <1>0, <2>1 DEF Children
  <2>3. QED
    BY <1>0, <2>1, <2>2
<1>3. ASSUME NEW d \in Dirs, SetAttr(d)
      PROVE  TreeInv'
  BY <1>3 DEF SetAttr, TreeStep
<1>4. CASE NextName
  BY <1>4 DEF NextName
(* A directory that is given a watch is there. *)
<1>5. ASSUME NEW d \in Paths, CanWatch(d), InotifyAddCgroupDir(d), exists' = exists,
             pc' = "open"
      PROVE  TreeInv'
  <2>1. \A p \in Paths \ {d} : wdOf'[p] = wdOf[p]
    BY <1>5, AddedWatch
  <2>2. d \in exists \cup {top}
    BY <1>5 DEF CanWatch
  <2>3. QED
    BY <1>0, <1>5, <2>1, <2>2
<1>6. CASE VisitDir
  <2>1. at \in Paths
    BY DEF MapInv, RestTypeOK
  <2>2. QED
    BY <1>5, <1>6, <2>1 DEF VisitDir
<1>7. CASE OpenDir
  BY <1>7 DEF OpenDir
<1>8. CASE InAttrib
  BY <1>8 DEF InAttrib, NextEvent
<1>9. CASE InCreate
  <2> DEFINE d == Head(queue).dir
  <2>1. NextEvent("create") /\ exists' = exists /\ listed' = listed
    BY <1>9 DEF InCreate, NextEvent
  <2>2. d \in Paths
    BY <1>0, <2>1, EventRead DEF MapInv, RestTypeOK
  <2>3. CASE Known /\ CanWatch(d)
    BY <1>5, <1>9, <2>1, <2>2, <2>3, CreateHandled
  <2>4. CASE ~(Known /\ CanWatch(d))
    <3>1. wdOf' = wdOf /\ (pc' = "open" \/ pc' = pc)
      BY <1>9, <2>4, CreateHandled
    <3>2. QED
      BY <2>1, <3>1
  <2>5. QED
    BY <2>3, <2>4
<1>10. CASE InDelete
  <2> DEFINE d == Head(queue).dir
  <2>1. exists' = exists /\ pc' = pc /\ listed' = listed
    BY <1>10 DEF InDelete, NextEvent
  <2>2. \A p \in Paths : wdOf'[p] \in {0, wdOf[p]}
    <3>1. CASE Known
      BY <1>10, <3>1, DeleteHandled
    <3>2. CASE ~Known
      BY <1>10, <3>2, DeleteHandled
    <3>3. QED
      BY <3>1, <3>2
  <2>3. QED
    BY <1>0, <2>1, <2>2
<1>11. CASE UNCHANGED vars
  BY <1>11 DEF vars
<1>12. QED
  BY <1>1, <1>2, <1>3, <1>4, <1>6, <1>7, <1>8, <1>9, <1>10, <1>11 DEF Next, Tree, Monitor

(* systemd and the shell: what they change is reported, or comes with the  *)
(* parent.                                                                 *)
LEMMA TreeCovers ==
  ASSUME MapInv, TreeInv, Covered, Tree
  PROVE  Covered'
<1>0. /\ \A d \in Dirs : Parent[d] \in Paths /\ d \in Paths /\ d # top
      /\ wdOf \in [Paths -> Nat] /\ exists \in SUBSET Dirs /\ top \in Paths
      /\ queue \in Seq(Event) /\ Apps \subseteq Dirs
  BY TreeAssumption DEF Paths, MapInv, WatchesTypeOK, RestTypeOK
<1>1. UNCHANGED <<lastWd, path_to_wd, wd_to_path, app_info, pc, at, listed, killed>>
  BY DEF Tree, Mkdir, Rmdir, SetAttr, TreeStep, tableVars, scanVars
(* What was coming for e still is. *)
<1>2. ASSUME NEW e \in Dirs, wdOf'[Parent[e]] = wdOf[Parent[e]],
             \A i \in 1..Len(queue) : i \in 1..Len(queue') /\ queue'[i] = queue[i]
      PROVE  /\ Coming(e) => Coming(e)'
             /\ OnItsWay("attrib", e) => OnItsWay("attrib", e)'
  <2>1. \A kind : OnItsWay(kind, e) => OnItsWay(kind, e)'
    BY <1>2, StaysOnItsWay
  <2>2. QED
    BY <1>1, <1>2, <2>1 DEF Coming, ToVisit
<1>3. ASSUME NEW d \in Dirs, Mkdir(d)
      PROVE  Covered'
  <2>1. exists' = exists \cup {d} /\ UNCHANGED <<xattr, wdOf>> /\ Report("create", d)
    BY <1>3 DEF Mkdir
  <2>2. /\ \A i \in 1..Len(queue) : i \in 1..Len(queue') /\ queue'[i] = queue[i]
        /\ wdOf[Parent[d]] # 0 => OnItsWay("create", d)'
    BY <1>0, <2>1, ReportQueues DEF OnItsWay
  <2>3. Coming(d)'
    BY <2>1, <2>2 DEF Coming
  <2>4. \A e \in exists : e # d =>
          /\ Coming(e) => Coming(e)'
          /\ OnItsWay("attrib", e) => OnItsWay("attrib", e)'
    BY <1>0, <1>2, <2>1, <2>2
  <2>5. \A e : Entered(e)' = Entered(e)
    BY <1>1, <2>1 DEF Entered
  <2>6. QED
    BY <1>0, <1>1, <2>1, <2>3, <2>4, <2>5 DEF Covered
<1>4. ASSUME NEW d \in Dirs, Rmdir(d)
      PROVE  Covered'
  <2>1. /\ exists' = exists \ {d} /\ wdOf' = [wdOf EXCEPT ![d] = 0] /\ Report("delete", d)
        /\ xattr' = [xattr EXCEPT ![d] = "unset"]
        /\ Children(d) = {}
    BY <1>4 DEF Rmdir
  <2>2. \A i \in 1..Len(queue) : i \in 1..Len(queue') /\ queue'[i] = queue[i]
    BY <1>0, <2>1, ReportQueues
  <2>3. \A e \in exists : Parent[e] # d
    BY <1>0, <2>1 DEF Children
  <2>4. \A e \in exists : /\ Coming(e) => Coming(e)'
                          /\ OnItsWay("attrib", e) => OnItsWay("attrib", e)'
    BY <1>0, <1>2, <2>1, <2>2, <2>3
  <2>5. /\ \A e \in exists' : e \in exists /\ wdOf'[e] = wdOf[e]
        /\ wdOf'[top] = wdOf[top]
        /\ \A a \in Apps \cap exists' : Entered(a)' = Entered(a)
    BY <1>0, <1>1, <2>1 DEF Entered, MapInv, RestTypeOK
  <2>6. QED
    BY <1>1, <2>4, <2>5 DEF Covered
<1>5. ASSUME NEW d \in Dirs, SetAttr(d)
      PROVE  Covered'
  <2>1. exists' = exists /\ wdOf' = wdOf /\ Report("attrib", d)
    BY <1>5 DEF SetAttr
  <2>2. \A e \in Dirs : e # d => xattr'[e] = xattr[e]
    BY <1>5 DEF SetAttr, MapInv, RestTypeOK
  <2>3. \A e \in Dirs : e # d => Entered(e)' = Entered(e)
    BY <1>1, <2>2 DEF Entered
  <2>4. /\ \A i \in 1..Len(queue) : i \in 1..Len(queue') /\ queue'[i] = queue[i]
        /\ wdOf[Parent[d]] # 0 => OnItsWay("attrib", d)'
    BY <1>0, <2>1, ReportQueues DEF OnItsWay
  <2>5. OnItsWay("attrib", d)' \/ Coming(d)'
    BY <2>1, <2>4 DEF Coming
  <2>6. \A e \in exists : /\ Coming(e) => Coming(e)'
                          /\ OnItsWay("attrib", e) => OnItsWay("attrib", e)'
    BY <1>0, <1>2, <2>1, <2>4
  <2>7. QED
    BY <1>0, <1>1, <2>1, <2>3, <2>5, <2>6 DEF Covered
<1>6. QED
  BY <1>3, <1>4, <1>5 DEF Tree

(* A watch is added, and what is below the directory will be looked at.    *)
LEMMA AddCovers ==
  ASSUME MapInv, TreeInv, Covered, NEW d \in Paths, InotifyAddCgroupDir(d), ~killed',
         UNCHANGED <<exists, xattr, listed>>, pc' = "open", at' = d,
         pc = "visit" => at = d, pc # "open",
         \A i \in 1..Len(queue) : queue[i].dir # d =>
           \E j \in 1..Len(queue') : queue'[j] = queue[i]
  PROVE  Covered'
<1>0. /\ \A e \in Dirs : Parent[e] \in Paths /\ e \in Paths
      /\ exists \in SUBSET Dirs /\ top \in Paths /\ Apps \subseteq Dirs
  BY TreeAssumption DEF Paths, MapInv, RestTypeOK
<1>1. /\ wdOf[d] = 0 /\ wdOf'[d] # 0
      /\ \A p \in Paths \ {d} : wdOf'[p] = wdOf[p]
      /\ d \in Apps => app_info'[d] = Timestamp(d)
      /\ \A p \in Dirs \ {d} : app_info'[p] = app_info[p]
  BY AddedWatch
<1>2. ASSUME NEW e \in exists, e # d
      PROVE  /\ Coming(e) => Coming(e)'
             /\ OnItsWay("attrib", e) => OnItsWay("attrib", e)' \/ Coming(e)'
  <2>1. CASE Parent[e] = d
    BY <2>1 DEF Coming
  <2>2. CASE Parent[e] # d
    <3>1. wdOf'[Parent[e]] = wdOf[Parent[e]]
      BY <1>0, <1>1, <2>2
    <3>2. \A kind : OnItsWay(kind, e) => OnItsWay(kind, e)'
      BY <1>2, <3>1, StaysOnItsWay
    <3>3. QED
      BY <1>2, <3>1, <3>2 DEF Coming, ToVisit
  <2>3. QED
    BY <2>1, <2>2
<1>3. wdOf'[top] # 0
  BY <1>0, <1>1 DEF Covered
<1>4. \A e \in exists' : wdOf'[e] # 0 \/ Coming(e)'
  BY <1>0, <1>1, <1>2 DEF Covered
<1>5. \A a \in Apps \cap exists' : Entered(a)' \/ OnItsWay("attrib", a)' \/ Coming(a)'
  <2>1. d \in Apps => Entered(d)'
    BY <1>0, <1>1, TimestampRead DEF Entered, MapInv
  <2>2. \A a \in Apps : a # d => Entered(a)' = Entered(a)
    BY <1>0, <1>1 DEF Entered
  <2>3. QED
    BY <1>2, <2>1, <2>2 DEF Covered
<1>6. QED
  BY <1>3, <1>4, <1>5 DEF Covered

LEMMA ScanCovers ==
  ASSUME MapInv, TreeInv, Covered, NextName \/ VisitDir \/ OpenDir, ~killed'
  PROVE  Covered'
<1>0. UNCHANGED <<exists, xattr, queue>>
  BY DEF NextName, VisitDir, OpenDir, treeVars
<1>1. ASSUME UNCHANGED <<wdOf, app_info>>,
             \A d \in exists : Coming(d) => Coming(d)',
             wdOf[top] = 0 => pc # "visit" \/ at # top
      PROVE  Covered'
  BY <1>0, <1>1, Zenon DEF Covered, OnItsWay, Entered
<1>2. CASE NextName
  <2>1. pc = "scan" /\ UNCHANGED <<wdOf, app_info>> /\ pc' # "open"
    BY <1>2 DEF NextName, tableVars
  <2>2. \A d \in listed : d \in listed' \/ (pc' = "visit" /\ at' = d)
    BY <1>2 DEF NextName
  <2>3. \A d \in exists : Coming(d) => Coming(d)'
    BY <1>0, <2>1, <2>2 DEF Coming, ToVisit, OnItsWay
  <2>4. QED
    BY <1>1, <2>1, <2>3
<1>3. CASE VisitDir
  <2>1. at \in Paths /\ pc = "visit" /\ UNCHANGED <<at, listed>>
    BY <1>3 DEF VisitDir, MapInv, RestTypeOK
  <2>2. CASE InotifyAddCgroupDir(at) /\ pc' = "open"
    BY <1>0, <2>1, <2>2, AddCovers
  <2>3. CASE at \notin exists \cup {top} /\ pc' = "scan" /\ UNCHANGED <<wdOf, tableVars>>
    <3>1. \A d \in exists : Coming(d) => Coming(d)'
      BY <1>0, <2>1, <2>3 DEF Coming, ToVisit, OnItsWay
    <3>2. QED
      BY <1>1, <2>3, <3>1 DEF tableVars
  <2>4. QED
    BY <1>3, <2>2, <2>3 DEF VisitDir
<1>4. CASE OpenDir
  <2>1. /\ pc = "open" /\ UNCHANGED <<wdOf, app_info>>
        /\ listed' = listed \cup Children(at)
    BY <1>4 DEF OpenDir, tableVars
  <2>2. \A d \in exists : Coming(d) => Coming(d)'
    BY <1>0, <2>1 DEF Coming, ToVisit, OnItsWay, Children, MapInv, RestTypeOK
  <2>3. QED
    BY <1>1, <2>1, <2>2
<1>5. QED
  BY <1>2, <1>3, <1>4

(* An event is read.  The monitor knows the watches that are live.         *)
LEMMA EventLeaves ==
  ASSUME MapInv, NEW kind, NextEvent(kind), NEW e \in Dirs, NEW k, OnItsWay(k, e),
         wdOf'[Parent[e]] = wdOf[Parent[e]]
  PROVE  \/ OnItsWay(k, e)'
         \/ k = kind /\ Head(queue).dir = e /\ (Known \/ wdOf[Parent[e]] = 0)
<1>1. PICK i \in 1..Len(queue) : queue[i] = [wd |-> wdOf[Parent[e]], kind |-> k, dir |-> e]
  BY DEF OnItsWay
<1>2. /\ Head(queue) = queue[1] /\ Head(queue).kind = kind
      /\ i = 1 \/ (i - 1 \in 1..Len(queue') /\ queue'[i - 1] = queue[i])
  BY EventRead DEF MapInv, RestTypeOK
<1>3. CASE i = 1
  <2>1. k = kind /\ Head(queue).dir = e /\ Head(queue).wd = wdOf[Parent[e]]
    BY <1>1, <1>2, <1>3
  <2>2. wdOf[Parent[e]] # 0 => wdOf[Parent[e]] \in DOMAIN wd_to_path
    BY LiveWatches, TreeAssumption DEF MapInv, Paths
  <2>3. QED
    BY <2>1, <2>2 DEF Known
<1>4. CASE i # 1
  BY <1>1, <1>2, <1>4 DEF OnItsWay
<1>5. QED
  BY <1>3, <1>4

LEMMA EventCovers ==
  ASSUME EnoughWatches, MapInv, TreeInv, Covered, InAttrib \/ InCreate \/ InDelete, ~killed'
  PROVE  Covered'
<1> DEFINE h == Head(queue)
           d == h.dir
<1>0. /\ \A e \in Dirs : Parent[e] \in Paths /\ e \in Paths /\ e # top
      /\ exists \in SUBSET Dirs /\ top \in Paths /\ queue \in Seq(Event) /\ Apps \subseteq Dirs
      /\ wdOf \in [Paths -> Nat] /\ \A p \in Paths : p \in Dirs \cup {top}
  BY TreeAssumption DEF Paths, MapInv, WatchesTypeOK, RestTypeOK
<1>1. PICK kind : NextEvent(kind) /\ (InAttrib => kind = "attrib")
                 /\ (InCreate => kind = "create") /\ (InDelete => kind = "delete")
  BY HandledKind
<1>2. /\ pc = "idle" /\ h = queue[1] /\ h.kind = kind /\ d \in Dirs /\ d \in Paths
      /\ UNCHANGED <<exists, xattr>> /\ listed = {}
      /\ \A i \in 1..Len(queue) : i = 1 \/ (i - 1 \in 1..Len(queue') /\ queue'[i - 1] = queue[i])
  BY <1>0, <1>1, EventRead DEF NextEvent, treeVars, TreeInv
<1>3. \A i \in 1..Len(queue) : queue[i].dir # d \/ queue[i].kind # kind =>
        \E j \in 1..Len(queue') : queue'[j] = queue[i]
  BY <1>2
<1>4. ASSUME NEW e \in Dirs, NEW k, OnItsWay(k, e), wdOf'[Parent[e]] = wdOf[Parent[e]]
      PROVE  \/ OnItsWay(k, e)'
             \/ k = kind /\ d = e /\ (Known \/ wdOf[Parent[e]] = 0)
  BY <1>1, <1>4, EventLeaves
<1> HIDE DEF h
<1>5. CASE InAttrib
  <2>1. kind = "attrib" /\ UNCHANGED <<wdOf, pc, at, listed>>
    BY <1>1, <1>5 DEF InAttrib, scanVars
  <2>2. ASSUME NEW e \in exists, Coming(e)
        PROVE  Coming(e)'
    BY <1>0, <1>4, <2>1, <2>2 DEF Coming, ToVisit
  <2>3. ASSUME NEW a \in Apps \cap exists
        PROVE  Entered(a)' \/ OnItsWay("attrib", a)' \/ Coming(a)'
    <3>1. Known /\ a = d => Entered(a)'
      <4>1. ASSUME Known, a = d
            PROVE  app_info'[a] = Timestamp(a)
        BY <1>0, <1>5, <4>1, AttribHandled DEF MapInv, RestTypeOK, h
      <4>2. QED
        BY <1>0, <1>2, <4>1, TimestampRead DEF Entered, MapInv
    <3>2. CASE Entered(a)
      <4>1. ~(Known /\ a = d) => app_info'[a] = app_info[a]
        BY <1>5, AttribHandled DEF MapInv, RestTypeOK, h
      <4>2. QED
        BY <1>2, <3>1, <3>2, <4>1 DEF Entered
    <3>3. CASE Coming(a)
      BY <2>2, <3>3
    <3>4. CASE OnItsWay("attrib", a) /\ ~OnItsWay("attrib", a)'
      <4>1. d = a /\ (Known \/ wdOf[Parent[a]] = 0)
        BY <1>0, <1>4, <2>1, <3>4
      <4>2. QED
        BY <2>1, <3>1, <4>1 DEF Coming
    <3>5. QED
      BY <3>2, <3>3, <3>4 DEF Covered
  <2>4. QED
    BY <1>2, <2>1, <2>2, <2>3 DEF Covered
<1>6. CASE InCreate
  <2>1. kind = "create"
    BY <1>1, <1>6
  <2>2. CASE Known /\ CanWatch(d)
    <3>1. InotifyAddCgroupDir(d) /\ pc' = "open" /\ at' = d /\ listed' = listed
      BY <1>6, <2>2, CreateHandled DEF h
    <3>2. QED
      BY <1>2, <1>3, <3>1, AddCovers
  <2>3. CASE ~(Known /\ CanWatch(d))
    <3>1. UNCHANGED <<wdOf, app_info, listed>>
      BY <1>6, <2>3, CreateHandled DEF h, tableVars
    <3>2. d \in exists => ~Known
      BY <1>2, <2>3, WatchFree DEF MapInv
    <3>3. ASSUME NEW e \in exists
          PROVE  Coming(e) => Coming(e)'
      BY <1>0, <1>2, <1>4, <1>4, <2>1, <3>1, <3>2 DEF Coming, ToVisit
    <3>4. ASSUME NEW e \in exists
          PROVE  OnItsWay("attrib", e) => OnItsWay("attrib", e)'
      BY <1>0, <1>4, <2>1, <3>1
    <3>5. \A e : Entered(e)' = Entered(e)
      BY <1>2, <3>1 DEF Entered
    <3>6. QED
      BY <1>2, <3>1, <3>3, <3>4, <3>5 DEF Covered
  <2>4. QED
    BY <2>2, <2>3
<1>7. CASE InDelete
  <2>1. kind = "delete" /\ UNCHANGED <<pc, at, listed>>
    BY <1>1, <1>7 DEF InDelete, scanVars
  <2>2. CASE Known
    <3>1. /\ wdOf'[d] = 0 /\ \A p \in Paths \ {d} : wdOf'[p] = wdOf[p]
          /\ app_info' = [app_info EXCEPT ![d] = "none"]
          /\ killed' = (killed \/ (wdOf[d] # 0 /\ wdOf[d] = path_to_wd[d]))
      BY <1>2, <1>7, <2>2, DeleteDrops DEF h
    <3>2. wdOf[d] = 0
      BY <1>2, <3>1, LiveWatches DEF MapInv
    <3>3. \A p \in Paths : wdOf'[p] = wdOf[p]
      BY <3>1, <3>2
    <3>4. ASSUME NEW e \in exists
          PROVE  /\ Coming(e) => Coming(e)'
                 /\ OnItsWay("attrib", e) => OnItsWay("attrib", e)'
      BY <1>0, <1>4, <2>1, <3>3 DEF Coming, ToVisit
    <3>5. \A a \in Apps \cap exists : a # d => Entered(a)' = Entered(a)
      BY <1>0, <1>2, <3>1 DEF Entered, MapInv, RestTypeOK
    <3>6. d \in exists => Coming(d)
      BY <3>2 DEF Covered
    <3>7. QED
      BY <1>0, <1>2, <3>3, <3>4, <3>5, <3>6, <2>1 DEF Covered
  <2>3. CASE ~Known
    <3>1. UNCHANGED <<wdOf, app_info>>
      BY <1>7, <2>3, DeleteHandled DEF h, tableVars
    <3>2. ASSUME NEW e \in exists
          PROVE  /\ Coming(e) => Coming(e)'
                 /\ OnItsWay("attrib", e) => OnItsWay("attrib", e)'
      BY <1>0, <1>4, <2>1, <3>1 DEF Coming, ToVisit
    <3>3. \A e : Entered(e)' = Entered(e)
      BY <1>2, <3>1 DEF Entered
    <3>4. QED
      BY <1>2, <2>1, <3>1, <3>2, <3>3 DEF Covered
  <2>4. QED
    BY <2>2, <2>3
<1>8. QED
  BY <1>5, <1>6, <1>7

(* The history is not forgotten. *)
LEMMA StaysTrue == [Next]_vars => (killed => killed') /\ (reused => reused')
<1> SUFFICES ASSUME [Next]_vars PROVE (killed => killed') /\ (reused => reused')
  OBVIOUS
<1>1. ASSUME NEW d, InotifyAddCgroupDir(d) PROVE killed => killed'
  BY <1>1, Zenon DEF InotifyAddCgroupDir
<1>2. CASE Tree
  <2>1. killed' = killed
    BY <1>2, Zenon DEF Tree, Mkdir, Rmdir, SetAttr, TreeStep
  <2>2. reused => reused'
    BY <1>2, Zenon DEF Tree, Mkdir, Rmdir, SetAttr
  <2>3. QED
    BY <2>1, <2>2
<1>3. CASE NextName \/ VisitDir \/ OpenDir
  <2>1. killed => killed'
    BY <1>1, <1>3, Zenon DEF NextName, VisitDir, OpenDir
  <2>2. reused' = reused
    BY <1>3, Zenon DEF NextName, VisitDir, OpenDir, treeVars
  <2>3. QED
    BY <2>1, <2>2
<1>4. CASE InAttrib \/ InCreate \/ InDelete
  <2>1. killed => killed'
    BY <1>1, <1>4, Zenon DEF InAttrib, InCreate, InDelete
  <2>2. reused' = reused
    BY <1>4, Zenon DEF InAttrib, InCreate, InDelete, NextEvent, treeVars
  <2>3. QED
    BY <2>1, <2>2
<1>5. CASE UNCHANGED vars
  BY <1>5, Zenon DEF vars, treeVars
<1>6. QED
  BY <1>2, <1>3, <1>4, <1>5 DEF Next, Monitor

LEMMA EntryStep == MapInv /\ EntryInv /\ [Next]_vars => EntryInv'
<1> SUFFICES ASSUME MapInv, EntryInv, [Next]_vars, ~reused' => ~reused
             PROVE  Fresh' /\ (~reused' /\ Unmarked => Unmarked')
  BY StaysTrue, Zenon DEF EntryInv
<1>0. /\ Fresh /\ exists \subseteq used /\ used \subseteq Dirs
      /\ app_info \in [Dirs -> {"none", "inactive", "active"}]
      /\ xattr \in [Dirs -> {"unset", "inactive", "active"}]
      /\ Apps \subseteq Dirs /\ top \notin Dirs
  BY TreeAssumption DEF MapInv, RestTypeOK, EntryInv
<1>1. CASE Tree
  <2>1. app_info' = app_info
    BY <1>1 DEF Tree, Mkdir, Rmdir, SetAttr, TreeStep, tableVars
  <2>2. ASSUME NEW d \in Dirs, Mkdir(d)
        PROVE  Fresh' /\ (~reused' /\ Unmarked => Unmarked')
    <3>1. exists' = exists \cup {d} /\ used' = used \cup {d} /\ xattr' = xattr
      BY <2>2 DEF Mkdir
    <3>2. ~reused' => d \notin used
      BY <2>2, Zenon DEF Mkdir
    <3>3. Fresh'
      BY <1>0, <2>1, <3>1 DEF Fresh
    <3>4. d \notin used /\ Unmarked => Unmarked'
      BY <1>0, <2>1, <3>1 DEF Fresh, Unmarked
    <3>5. QED
      BY <3>2, <3>3, <3>4
  <2>3. ASSUME NEW d \in Dirs, Rmdir(d)
        PROVE  Fresh' /\ (Unmarked => Unmarked')
    BY <1>0, <2>1, <2>3 DEF Rmdir, Fresh, Unmarked
  <2>4. ASSUME NEW d \in Dirs, SetAttr(d)
        PROVE  Fresh' /\ (Unmarked => Unmarked')
    <3>1. \A e \in Dirs : xattr'[e] = "unset" => xattr[e] = "unset"
      BY <1>0, <2>4 DEF SetAttr
    <3>2. UNCHANGED <<exists, used>>
      BY <2>4 DEF SetAttr
    <3>3. QED
      BY <1>0, <2>1, <3>1, <3>2 DEF Fresh, Unmarked
  <2>5. QED
    BY <1>1, <2>2, <2>3, <2>4 DEF Tree
(* The monitor reads of a directory that is there, and forgets. *)
<1> DEFINE Read(e) == IF e \in exists THEN Timestamp(e) ELSE app_info[e]
<1>2. ASSUME UNCHANGED <<exists, used, xattr>>,
             \A e \in Dirs : app_info'[e] \in {app_info[e], Read(e), "none"}
      PROVE  Fresh' /\ (Unmarked => Unmarked')
  <2>1. ASSUME NEW e \in exists, xattr[e] = "unset", app_info[e] # "active"
        PROVE  Timestamp(e) # "active"
    <3>1. e \in Dirs /\ RestTypeOK
      BY <1>0 DEF MapInv
    <3>2. Timestamp(e) = "inactive"
      BY <2>1, <3>1, TimestampRead
    <3>3. QED
      BY <3>2
  <2>2. Fresh'
    BY <1>0, <1>2 DEF Fresh
  <2>3. ASSUME Unmarked PROVE Unmarked'
    BY <1>0, <1>2, <2>1, <2>3 DEF Unmarked
  <2>4. QED
    BY <2>2, <2>3
<1>3. ASSUME NEW d \in Paths, CanWatch(d), InotifyAddCgroupDir(d),
             UNCHANGED <<exists, used, xattr>>
      PROVE  Fresh' /\ (Unmarked => Unmarked')
  <2>1. d \in exists \cup {top}
    BY <1>3 DEF CanWatch
  <2>2. /\ d \in Apps => app_info'[d] = Timestamp(d)
        /\ d \notin Apps => app_info' = app_info
        /\ \A e \in Dirs \ {d} : app_info'[e] = app_info[e]
    BY <1>3, AddedWatch
  <2>3. ASSUME NEW e \in Dirs
        PROVE  app_info'[e] \in {app_info[e], Read(e), "none"}
    BY <1>0, <2>1, <2>2
  <2>4. QED
    BY <1>2, <1>3, <2>3
<1>4. CASE Monitor
  <2>1. UNCHANGED <<exists, used, xattr>>
    BY <1>4 DEF Monitor, NextName, VisitDir, OpenDir, InAttrib, InCreate, InDelete, NextEvent,
                treeVars
  <2>2. CASE app_info' = app_info
    BY <1>2, <2>1, <2>2
  <2>3. CASE VisitDir
    <3>1. at \in Paths
      BY DEF MapInv, RestTypeOK
    <3>2. QED
      BY <1>3, <2>1, <2>2, <2>3, <3>1 DEF VisitDir, tableVars
  <2>4. CASE InAttrib \/ InCreate \/ InDelete
    <3> DEFINE d == Head(queue).dir
    <3>1. d \in Dirs /\ d \in Paths
      BY <2>4, HandledKind, EventRead DEF MapInv, RestTypeOK, Paths
    <3>2. CASE InAttrib
      <4>1. \/ d \in exists /\ app_info' = [app_info EXCEPT ![d] = Timestamp(d)]
            \/ app_info' = app_info
        BY <3>2, AttribHandled
      <4> HIDE DEF d
      <4>2. \A e \in Dirs : app_info'[e] \in {app_info[e], Read(e), "none"}
        BY <1>0, <3>1, <4>1
      <4>3. QED
        BY <1>2, <2>1, <4>2
    <3>3. CASE InCreate
      <4>1. (CanWatch(d) /\ InotifyAddCgroupDir(d)) \/ app_info' = app_info
        BY <3>3, CreateHandled DEF tableVars
      <4>2. QED
        BY <1>3, <2>1, <2>2, <3>1, <4>1
    <3>4. CASE InDelete
      <4>1. app_info' = [app_info EXCEPT ![d] = "none"] \/ app_info' = app_info
        BY <3>4, DeleteHandled DEF tableVars
      <4> HIDE DEF d
      <4>2. \A e \in Dirs : app_info'[e] \in {app_info[e], Read(e), "none"}
        BY <1>0, <3>1, <4>1
      <4>3. QED
        BY <1>2, <2>1, <4>2
    <3>5. QED
      BY <2>4, <3>2, <3>3, <3>4
  <2>5. CASE NextName \/ OpenDir
    BY <2>2, <2>5 DEF NextName, OpenDir, tableVars
  <2>6. QED
    BY <1>4, <2>3, <2>4, <2>5 DEF Monitor
<1>5. CASE UNCHANGED vars
  BY <1>0, <1>5 DEF vars, treeVars, tableVars, Fresh, Unmarked
<1>6. QED
  BY <1>1, <1>4, <1>5 DEF Next

LEMMA MirrorInit == Init => MirrorInv
<1> SUFFICES ASSUME Init PROVE MirrorInv
  OBVIOUS
<1>1. \A d \in Dirs : wdOf[Parent[d]] = 0 /\ wdOf[d] = 0
  BY TreeAssumption DEF Init, Paths
<1>2. TreeInv
  BY <1>1 DEF Init, TreeInv
<1>3. Covered
  BY <1>1 DEF Init, Covered, Coming
<1>4. EntryInv
  BY DEF Init, EntryInv, Fresh, Unmarked
<1>5. QED
  BY <1>2, <1>3, <1>4, MapInit DEF MirrorInv

LEMMA MirrorInductive == ASSUME EnoughWatches PROVE MirrorInv /\ [Next]_vars => MirrorInv'
<1> SUFFICES ASSUME MirrorInv, [Next]_vars PROVE MirrorInv'
  OBVIOUS
<1>1. MapInv' /\ TreeInv' /\ EntryInv'
  BY MapInductive, TreeInvStep, EntryStep DEF MirrorInv
<1>2. ASSUME ~killed' PROVE ~killed
  BY <1>2, StaysTrue
<1>3. ASSUME ~killed' PROVE Covered'
  <2>1. MapInv /\ TreeInv /\ Covered
    BY <1>2, <1>3 DEF MirrorInv
  <2>2. CASE UNCHANGED vars
    BY <2>1, <2>2 DEF vars, treeVars, tableVars, scanVars, Covered, Coming, ToVisit,
                      OnItsWay, Entered
  <2>3. QED
    BY <1>3, <2>1, <2>2, TreeCovers, ScanCovers, EventCovers DEF Next, Monitor
<1>4. QED
  BY <1>1, <1>3 DEF MirrorInv

(* Nothing is coming any more, so that whoever is not watched has a parent *)
(* that is not, and the tree ends.                                         *)
LEMMA MirrorSettled == MirrorInv => WatchesUnlessKilled
<1> SUFFICES ASSUME MirrorInv, Settled, ~killed
             PROVE  /\ \A d \in exists : wdOf[d] # 0
                    /\ \A a \in Apps \cap exists :
                         /\ app_info[a] # "none"
                         /\ xattr[a] # "unset" \/ ~reused => app_info[a] = Shown(a)
  BY DEF WatchesUnlessKilled
<1>1. /\ pc = "idle" /\ listed = {} /\ Len(queue) = 0
      /\ exists \in SUBSET Dirs /\ \A d \in exists : Parent[d] \in exists \cup {top}
  BY DEF MirrorInv, Settled, TreeInv, MapInv, RestTypeOK
<1>2. \A d \in exists : Coming(d) => wdOf[Parent[d]] = 0
  BY <1>1 DEF Coming, ToVisit, OnItsWay
<1>3. wdOf[top] # 0
  BY <1>1 DEF MirrorInv, Covered
<1>4. \A d \in exists : wdOf[d] # 0
  <2> DEFINE Lost == {d \in exists : wdOf[d] = 0}
  <2>1. \A d \in Lost : Parent[d] \in Lost
    BY <1>1, <1>2, <1>3 DEF MirrorInv, Covered
  <2>2. Lost \in SUBSET Dirs
    BY <1>1
  <2>3. Lost = {}
    <3> HIDE DEF Lost
    <3>1. QED
      BY <2>1, <2>2, TreeAssumption
  <2>4. QED
    BY <2>3
<1>5. ASSUME NEW a \in Apps \cap exists
      PROVE  /\ app_info[a] # "none"
             /\ xattr[a] # "unset" \/ ~reused => app_info[a] = Shown(a)
  <2>1. wdOf[Parent[a]] # 0
    BY <1>1, <1>3, <1>4
  <2>2. ~OnItsWay("attrib", a)
    BY <1>1 DEF OnItsWay
  <2>3. Entered(a)
    BY <1>2, <2>1, <2>2 DEF MirrorInv, Covered
  <2>4. ~reused /\ xattr[a] = "unset" => app_info[a] # "active"
    BY DEF MirrorInv, EntryInv, Unmarked
  <2>5. app_info[a] \in {"none", "inactive", "active"}
    BY TreeAssumption DEF MirrorInv, MapInv, RestTypeOK
  <2>6. QED
    BY <2>3, <2>4, <2>5 DEF Entered, Shown
<1>6. QED
  BY <1>4, <1>5

(***************************************************************************)
(* When the events are handled every directory that is there is watched    *)
(* and every application has an entry with the timestamp of its xattr,     *)
(* unless a live watch was removed: the scan of                            *)
(* inotify_add_recursive_watch_on_dir and the events together miss         *)
(* nothing.  Where the xattr was never set the entry says so if no path is *)
(* used again.  It takes a watch for every path: when there is none        *)
(* in_create does not try again.                                           *)
(***************************************************************************)
THEOREM TreeMirrored == ASSUME EnoughWatches PROVE Spec => []WatchesUnlessKilled
<1>1. QED
  BY MirrorInit, MirrorInductive, MirrorSettled, PTL DEF Spec

-----------------------------------------------------------------------------
(***************************************************************************)
(* Paths that are used once.  Whatever the monitor has noted of a          *)
(* directory that is gone, a "delete" with the watch of its parent will    *)
(* take away - and comes before the one of the parent itself, after which  *)
(* that watch would be unknown.  Whatever is noted, listed or reported of  *)
(* a directory that is there has a parent with a watch, so that there will *)
(* be such an event.                                                       *)
(***************************************************************************)
Noted(d) == path_to_wd[d] # 0 \/ app_info[d] # "none"

Gone(q, d, wd) ==
  \E i \in 1..Len(q) :
    /\ q[i] = [wd |-> wd, kind |-> "delete", dir |-> d]
    /\ \A j \in 1..i : q[j].kind = "delete" => q[j].dir # Parent[d]

Once ==
  /\ listed \subseteq used /\ at \in used \cup {top}
  /\ \A i \in 1..Len(queue) : LET d == queue[i].dir IN
       /\ d \in used
       /\ queue[i].kind = "delete" => d \notin exists
       /\ d \in exists => wdOf[Parent[d]] # 0
  /\ \A d \in exists : Noted(d) \/ ToVisit(d) => wdOf[Parent[d]] # 0
  /\ pc = "open" /\ at \in exists \cup {top} => wdOf[at] # 0
  /\ \A d \in exists \cup {top} : path_to_wd[d] # 0 => wdOf[d] = path_to_wd[d]
  /\ \A d \in Dirs \ exists : Noted(d) =>
       path_to_wd[Parent[d]] # 0 /\ Gone(queue, d, path_to_wd[Parent[d]])

ToldRight ==
  \A d \in Dirs : told[d] # "none" =>
    /\ d \in exists /\ wdOf[Parent[d]] # 0
    /\ told[d] = Shown(d) \/ OnItsWay("attrib", d)

OnceInv == MapInv /\ TreeInv /\ EntryInv /\ (~killed /\ ~reused => Once /\ ToldRight)

(* The queue grows at its end, and is read at its head. *)
LEMMA GoneStays ==
  ASSUME NEW d, NEW wd, Gone(queue, d, wd),
         \A i \in 1..Len(queue) : i \in 1..Len(queue') /\ queue'[i] = queue[i]
  PROVE  Gone(queue', d, wd)
<1>1. PICK i \in 1..Len(queue) :
        /\ queue[i] = [wd |-> wd, kind |-> "delete", dir |-> d]
        /\ \A j \in 1..i : queue[j].kind = "delete" => queue[j].dir # Parent[d]
  BY DEF Gone
<1>2. \A j \in 1..i : j \in 1..Len(queue)
  OBVIOUS
<1>3. QED
  BY <1>1, <1>2 DEF Gone

LEMMA GoneRead ==
  ASSUME queue \in Seq(Event), NEW kind, NextEvent(kind), NEW d, NEW wd, Gone(queue, d, wd)
  PROVE  /\ \/ Gone(queue', d, wd)
            \/ kind = "delete" /\ Head(queue).dir = d /\ Head(queue).wd = wd
         /\ kind = "delete" => Head(queue).dir # Parent[d]
<1>1. PICK i \in 1..Len(queue) :
        /\ queue[i] = [wd |-> wd, kind |-> "delete", dir |-> d]
        /\ \A j \in 1..i : queue[j].kind = "delete" => queue[j].dir # Parent[d]
  BY DEF Gone
<1>2. /\ Head(queue) = queue[1] /\ Head(queue).kind = kind
      /\ \A j \in 1..Len(queue') : queue'[j] = queue[j + 1]
      /\ \A j \in 1..Len(queue) : j = 1 \/ (j - 1 \in 1..Len(queue') /\ queue'[j - 1] = queue[j])
      /\ queue' \in Seq(Event)
  BY EventRead
<1>3. CASE i = 1
  BY <1>1, <1>2, <1>3
<1>4. CASE i # 1
  <2>1. i - 1 \in 1..Len(queue') /\ queue'[i - 1] = queue[i]
    BY <1>2, <1>4
  <2>2. Len(queue') \in Nat /\ Len(queue) \in Nat
    BY <1>2
  <2>3. ASSUME NEW j \in 1..(i - 1) PROVE j \in 1..Len(queue') /\ j + 1 \in 1..i
    BY <2>1, <2>2
  <2>4. \A j \in 1..(i - 1) : queue'[j].kind = "delete" => queue'[j].dir # Parent[d]
    BY <1>1, <1>2, <2>3
  <2>5. Gone(queue', d, wd)
    BY <1>1, <2>1, <2>4 DEF Gone
  <2>6. 1 \in 1..i
    BY <2>2
  <2>7. QED
    BY <1>1, <1>2, <2>5, <2>6
<1>5. QED
  BY <1>3, <1>4

LEMMA TreeOnce ==
  ASSUME MapInv, TreeInv, Once, Tree, ~reused'
  PROVE  Once'
<1>0. /\ \A d \in Dirs : Parent[d] \in Paths /\ d \in Paths /\ d # top
      /\ wdOf \in [Paths -> Nat] /\ exists \in SUBSET used /\ used \in SUBSET Dirs
      /\ top \in Paths /\ top \notin Dirs /\ queue \in Seq(Event) /\ Apps \subseteq Dirs
  BY TreeAssumption DEF Paths, MapInv, WatchesTypeOK, RestTypeOK
<1>1. /\ UNCHANGED <<lastWd, path_to_wd, wd_to_path, app_info, pc, at, listed>>
      /\ \A d : Noted(d)' = Noted(d) /\ ToVisit(d)' = ToVisit(d)
  <2>1. UNCHANGED <<lastWd, path_to_wd, wd_to_path, app_info, pc, at, listed>>
    BY DEF Tree, Mkdir, Rmdir, SetAttr, TreeStep, tableVars, scanVars
  <2>2. QED
    BY <2>1 DEF Noted, ToVisit
<1>2. ASSUME NEW i \in 1..Len(queue)
      PROVE  queue[i].dir \in Dirs
  <2>1. queue[i] \in Event
    <3> HIDE DEF Event
    <3>1. QED
      BY <1>0
  <2>2. QED
    BY <2>1 DEF Event
<1>3. \A d \in exists : Parent[d] \in exists \cup {top}
  BY DEF TreeInv
<1>4. ASSUME NEW d \in Dirs, Mkdir(d)
      PROVE  Once'
  <2>1. /\ exists' = exists \cup {d} /\ used' = used \cup {d} /\ d \notin exists
        /\ wdOf' = wdOf /\ Report("create", d) /\ d \notin used
    BY <1>4 DEF Mkdir
  <2>2. /\ \A i \in 1..Len(queue) : i \in 1..Len(queue') /\ queue'[i] = queue[i]
        /\ \A i \in 1..Len(queue') :
             \/ i \in 1..Len(queue)
             \/ wdOf[Parent[d]] # 0
                /\ queue'[i] = [wd |-> wdOf[Parent[d]], kind |-> "create", dir |-> d]
    BY <1>0, <2>1, ReportQueues
  (* A path that was never used is known to nobody. *)
  <2>3. ~Noted(d) /\ ~ToVisit(d)
    <3>1. \A wd : ~Gone(queue, d, wd)
      BY <2>1 DEF Gone, Once
    <3>2. ~Noted(d)
      BY <2>1, <3>1 DEF Once
    <3>3. ~ToVisit(d)
      BY <1>0, <2>1 DEF Once, ToVisit
    <3>4. QED
      BY <3>2, <3>3
  <2>4. listed' \subseteq used' /\ at' \in used' \cup {top}
    BY <1>1, <2>1 DEF Once
  <2>5. ASSUME NEW i \in 1..Len(queue')
        PROVE  LET e == queue'[i].dir IN
                 /\ e \in used'
                 /\ queue'[i].kind = "delete" => e \notin exists'
                 /\ e \in exists' => wdOf'[Parent[e]] # 0
    <3>1. CASE i \in 1..Len(queue)
      <4>1. queue'[i] = queue[i] /\ queue[i].dir \in used
        BY <2>2, <3>1 DEF Once
      <4>2. QED
        BY <2>1, <3>1, <4>1 DEF Once
    <3>2. CASE i \notin 1..Len(queue)
      BY <2>1, <2>2, <3>2
    <3>3. QED
      BY <3>1, <3>2
  <2>6. \A e \in exists' : Noted(e)' \/ ToVisit(e)' => wdOf'[Parent[e]] # 0
    BY <1>1, <2>1, <2>3 DEF Once
  <2>7. pc' = "open" /\ at' \in exists' \cup {top} => wdOf'[at'] # 0
    BY <1>0, <1>1, <2>1 DEF Once
  <2>8. \A e \in exists' \cup {top} : path_to_wd'[e] # 0 => wdOf'[e] = path_to_wd'[e]
    BY <1>1, <2>1, <2>3 DEF Once, Noted
  <2>9. \A e \in Dirs \ exists' : Noted(e)' =>
          path_to_wd'[Parent[e]] # 0 /\ Gone(queue', e, path_to_wd'[Parent[e]])
    <3>1. \A e, wd : Gone(queue, e, wd) => Gone(queue', e, wd)
      BY <2>2, GoneStays
    <3>2. QED
      BY <1>1, <2>1, <3>1 DEF Once
  <2>10. QED
    BY <2>4, <2>5, <2>6, <2>7, <2>8, <2>9 DEF Once
<1>5. ASSUME NEW d \in Dirs, Rmdir(d)
      PROVE  Once'
  <2>1. /\ exists' = exists \ {d} /\ used' = used /\ d \in exists /\ Children(d) = {}
        /\ wdOf' = [wdOf EXCEPT ![d] = 0] /\ Report("delete", d)
    BY <1>5 DEF Rmdir
  <2>2. /\ \A i \in 1..Len(queue) : i \in 1..Len(queue') /\ queue'[i] = queue[i]
        /\ \A i \in 1..Len(queue') :
             \/ i \in 1..Len(queue)
             \/ queue'[i] = [wd |-> wdOf[Parent[d]], kind |-> "delete", dir |-> d]
        /\ wdOf[Parent[d]] # 0 => \E i \in 1..Len(queue') :
             queue'[i] = [wd |-> wdOf[Parent[d]], kind |-> "delete", dir |-> d]
        /\ queue' \in Seq(Event)
    BY <1>0, <2>1, ReportQueues
  <2>3. /\ \A e \in exists : Parent[e] # d
        /\ \A p \in Paths \ {d} : wdOf'[p] = wdOf[p]
    BY <1>0, <2>1 DEF Children
  <2>4. \A e \in exists : wdOf'[Parent[e]] = wdOf[Parent[e]]
    BY <1>0, <2>3
  <2>5. ASSUME NEW i \in 1..Len(queue')
        PROVE  LET e == queue'[i].dir IN
                 /\ e \in used'
                 /\ queue'[i].kind = "delete" => e \notin exists'
                 /\ e \in exists' => wdOf'[Parent[e]] # 0
    <3>1. CASE i \in 1..Len(queue)
      BY <2>1, <2>2, <2>4, <3>1 DEF Once
    <3>2. CASE i \notin 1..Len(queue)
      BY <1>0, <2>1, <2>2, <3>2
    <3>3. QED
      BY <3>1, <3>2
  <2>6. \A e \in exists' : Noted(e)' \/ ToVisit(e)' => wdOf'[Parent[e]] # 0
    BY <1>1, <2>1, <2>4 DEF Once
  <2>7. \A p \in exists' \cup {top} : wdOf'[p] = wdOf[p]
    BY <1>0, <2>1, <2>3
  <2>8. /\ pc' = "open" /\ at' \in exists' \cup {top} => wdOf'[at'] # 0
        /\ \A e \in exists' \cup {top} : path_to_wd'[e] # 0 => wdOf'[e] = path_to_wd'[e]
    BY <1>1, <2>1, <2>7 DEF Once
  (* The watch of the parent, which is there, tells. *)
  <2>9. ASSUME Noted(d)
        PROVE  path_to_wd[Parent[d]] # 0 /\ Gone(queue', d, path_to_wd[Parent[d]])
    <3>1. wdOf[Parent[d]] # 0 /\ path_to_wd[Parent[d]] = wdOf[Parent[d]]
      BY <1>0, <2>1, <2>9, LiveWatches DEF Once, MapInv
    <3>2. \A j \in 1..Len(queue') : queue'[j].kind = "delete" => queue'[j].dir # Parent[d]
      <4>1. ASSUME NEW j \in 1..Len(queue), queue[j].kind = "delete"
            PROVE  queue[j].dir # Parent[d]
        BY <1>0, <1>2, <1>3, <2>1, <4>1 DEF Once
      <4>2. QED
        BY <2>1, <2>2, <2>3, <4>1
    <3>3. PICK i \in 1..Len(queue') :
            queue'[i] = [wd |-> wdOf[Parent[d]], kind |-> "delete", dir |-> d]
      BY <2>2, <3>1
    <3>4. \A j \in 1..i : j \in 1..Len(queue')
      BY <2>2
    <3>5. QED
      BY <3>1, <3>2, <3>3, <3>4 DEF Gone
  <2>10. \A e \in Dirs \ exists' : Noted(e)' =>
           path_to_wd'[Parent[e]] # 0 /\ Gone(queue', e, path_to_wd'[Parent[e]])
    <3>1. \A e, wd : Gone(queue, e, wd) => Gone(queue', e, wd)
      BY <2>2, GoneStays
    <3>2. QED
      BY <1>1, <2>1, <2>9, <3>1 DEF Once
  <2>11. QED
    BY <1>1, <2>1, <2>5, <2>6, <2>8, <2>10 DEF Once
<1>6. ASSUME NEW d \in Dirs, SetAttr(d)
      PROVE  Once'
  <2>1. UNCHANGED <<exists, used, wdOf>> /\ d \in exists /\ Report("attrib", d)
    BY <1>6 DEF SetAttr
  <2>2. /\ \A i \in 1..Len(queue) : i \in 1..Len(queue') /\ queue'[i] = queue[i]
        /\ \A i \in 1..Len(queue') :
             \/ i \in 1..Len(queue)
             \/ wdOf[Parent[d]] # 0
                /\ queue'[i] = [wd |-> wdOf[Parent[d]], kind |-> "attrib", dir |-> d]
    BY <1>0, <2>1, ReportQueues
  <2>3. \A i \in 1..Len(queue') : LET e == queue'[i].dir IN
          /\ e \in used'
          /\ queue'[i].kind = "delete" => e \notin exists'
          /\ e \in exists' => wdOf'[Parent[e]] # 0
    BY <1>0, <2>1, <2>2 DEF Once
  <2>4. \A e, wd : Gone(queue, e, wd) => Gone(queue', e, wd)
    BY <2>2, GoneStays
  <2>5. QED
    BY <1>1, <2>1, <2>3, <2>4 DEF Once
<1>7. QED
  BY <1>4, <1>5, <1>6 DEF Tree

(* A watch is added to a directory that is there and had none. *)
LEMMA AddOnce ==
  ASSUME MapInv, TreeInv, Once, NEW d \in exists \cup {top}, d \in Paths,
         InotifyAddCgroupDir(d), ~killed', d \in exists => wdOf[Parent[d]] # 0,
         UNCHANGED <<exists, used, listed>>, pc' = "open", at' = d,
         \A i \in 1..Len(queue') : \E j \in 1..Len(queue) : queue'[i] = queue[j],
         \A e, wd : Gone(queue, e, wd) => Gone(queue', e, wd)
  PROVE  Once'
<1>0. /\ \A e \in Dirs : Parent[e] \in Paths /\ e \in Paths /\ e # top /\ top \in Paths
      /\ exists \in SUBSET used /\ used \in SUBSET Dirs /\ Apps \subseteq Dirs
  BY TreeAssumption DEF Paths, MapInv, RestTypeOK
<1>1. /\ NoWatchLeak' /\ wdOf[d] = 0 /\ wdOf'[d] # 0
      /\ \A p \in Paths \ {d} : wdOf'[p] = wdOf[p] /\ path_to_wd'[p] = path_to_wd[p]
      /\ \A e \in Dirs \ {d} : app_info'[e] = app_info[e]
  BY AddedWatch
<1>2. \A p \in Paths : wdOf[p] # 0 => wdOf'[p] # 0
  BY <1>1
<1>3. \A e \in Dirs : e # d => Noted(e)' = Noted(e)
  BY <1>0, <1>1 DEF Noted
<1>4. \A i \in 1..Len(queue') : LET e == queue'[i].dir IN
        /\ e \in used'
        /\ queue'[i].kind = "delete" => e \notin exists'
        /\ e \in exists' => wdOf'[Parent[e]] # 0
  BY <1>0, <1>2 DEF Once
<1>5. \A e \in exists' : Noted(e)' \/ ToVisit(e)' => wdOf'[Parent[e]] # 0
  <2>1. ASSUME NEW e \in exists, Noted(e)' \/ ToVisit(e)'
        PROVE  wdOf[Parent[e]] # 0
    <3>1. CASE e = d
      BY <3>1
    <3>2. CASE e # d
      BY <1>0, <1>3, <2>1, <3>2 DEF Once, ToVisit
    <3>3. QED
      BY <3>1, <3>2
  <2>2. QED
    BY <1>0, <1>2, <2>1
<1>6. \A e \in exists' \cup {top} : path_to_wd'[e] # 0 => wdOf'[e] = path_to_wd'[e]
  <2>1. path_to_wd'[d] = wdOf'[d]
    BY <1>1 DEF NoWatchLeak, Live
  <2>2. QED
    BY <1>0, <1>1, <2>1 DEF Once
(* The maps had nothing for d, so that no watch anything waits for changes. *)
<1>7. path_to_wd[d] = 0
  BY <1>1 DEF Once
<1>8. \A e \in Dirs \ exists' : Noted(e)' =>
        path_to_wd'[Parent[e]] # 0 /\ Gone(queue', e, path_to_wd'[Parent[e]])
  BY <1>0, <1>1, <1>3, <1>7 DEF Once
<1>9. QED
  BY <1>0, <1>1, <1>4, <1>5, <1>6, <1>8 DEF Once

LEMMA ScanOnce ==
  ASSUME MapInv, TreeInv, Once, NextName \/ VisitDir \/ OpenDir, ~killed'
  PROVE  Once'
<1>0. /\ \A d \in Dirs : Parent[d] \in Paths /\ d \in Paths
      /\ exists \in SUBSET used /\ used \in SUBSET Dirs /\ at \in Paths
  BY TreeAssumption DEF Paths, MapInv, RestTypeOK
<1>1. UNCHANGED <<exists, used, queue>>
  BY DEF NextName, VisitDir, OpenDir, treeVars
(* A step of the scan that touches no watch. *)
<1>2. ASSUME UNCHANGED <<wdOf, path_to_wd, app_info>>, listed' \subseteq used,
             at' \in used \cup {top}, pc' # "open",
             \A d \in exists : ToVisit(d)' => ToVisit(d) \/ wdOf[Parent[d]] # 0
      PROVE  Once'
  <2>1. \A d : Noted(d)' = Noted(d)
    BY <1>2 DEF Noted
  <2>2. QED
    BY <1>1, <1>2, <2>1 DEF Once
<1>3. CASE NextName
  <2>1. /\ UNCHANGED <<wdOf, path_to_wd, app_info>> /\ pc' # "open"
        /\ listed' \subseteq listed /\ at' \in listed \cup {at}
    BY <1>3 DEF NextName, tableVars
  <2>2. \A d : ToVisit(d)' => ToVisit(d)
    BY <1>3 DEF NextName, ToVisit
  <2>3. QED
    BY <1>2, <2>1, <2>2 DEF Once
<1>4. CASE VisitDir
  <2>1. pc = "visit" /\ UNCHANGED <<at, listed>>
    BY <1>4 DEF VisitDir
  <2>2. CASE CanWatch(at) /\ InotifyAddCgroupDir(at) /\ pc' = "open"
    <3>1. at \in exists \cup {top} /\ (at \in exists => wdOf[Parent[at]] # 0)
      BY <2>1, <2>2 DEF CanWatch, Once, ToVisit
    <3>2. QED
      BY <1>0, <1>1, <2>1, <2>2, <3>1, AddOnce
  <2>3. CASE at \notin exists \cup {top} /\ pc' = "scan" /\ UNCHANGED <<wdOf, tableVars>>
    <3>1. \A d : ToVisit(d)' => ToVisit(d)
      BY <2>1, <2>3 DEF ToVisit
    <3>2. QED
      BY <1>2, <2>1, <2>3, <3>1 DEF tableVars, Once
  <2>4. QED
    BY <1>4, <2>2, <2>3 DEF VisitDir
<1>5. CASE OpenDir
  <2>1. /\ UNCHANGED <<wdOf, path_to_wd, app_info, at>> /\ pc = "open" /\ pc' = "scan"
        /\ listed' = listed \cup Children(at) /\ Children(at) \subseteq exists
    BY <1>5 DEF OpenDir, tableVars, Children
  <2>2. \A d \in Children(at) : wdOf[Parent[d]] # 0
    BY <1>0, <2>1 DEF Once, Children, TreeInv
  <2>3. \A d \in exists : ToVisit(d)' => ToVisit(d) \/ wdOf[Parent[d]] # 0
    BY <2>1, <2>2 DEF ToVisit
  <2>4. QED
    BY <1>0, <1>2, <2>1, <2>3 DEF Once
<1>6. QED
  BY <1>3, <1>4, <1>5

LEMMA EventOnce ==
  ASSUME EnoughWatches, MapInv, TreeInv, Once, InAttrib \/ InCreate \/ InDelete, ~killed'
  PROVE  Once'
<1> DEFINE h == Head(queue)
           d == h.dir
<1>0. /\ \A e \in Dirs : Parent[e] \in Paths /\ e \in Paths /\ e # top /\ top \in Paths
      /\ exists \in SUBSET used /\ used \in SUBSET Dirs /\ queue \in Seq(Event)
      /\ Apps \subseteq Dirs /\ wdOf \in [Paths -> Nat] /\ path_to_wd \in [Paths -> Nat]
  BY TreeAssumption DEF Paths, MapInv, RestTypeOK, WatchesTypeOK
<1>1. PICK kind : NextEvent(kind) /\ (InAttrib => kind = "attrib")
                 /\ (InCreate => kind = "create") /\ (InDelete => kind = "delete")
  BY HandledKind
<1>2. /\ pc = "idle" /\ h = queue[1] /\ 1 \in 1..Len(queue) /\ h.kind = kind
      /\ d \in Dirs /\ d \in Paths /\ UNCHANGED <<exists, used>> /\ listed = {}
      /\ \A i \in 1..Len(queue') : \E j \in 1..Len(queue) : queue'[i] = queue[j]
  BY <1>0, <1>1, EventRead DEF NextEvent, treeVars, TreeInv
<1>3. ASSUME NEW e, NEW wd, Gone(queue, e, wd)
      PROVE  /\ Gone(queue', e, wd) \/ (kind = "delete" /\ d = e /\ h.wd = wd)
             /\ kind = "delete" => d # Parent[e]
  BY <1>0, <1>1, <1>3, GoneRead
<1> HIDE DEF h
<1>4. /\ d \in used /\ (kind = "delete" => d \notin exists)
      /\ d \in exists => wdOf[Parent[d]] # 0
  BY <1>2 DEF Once
(* No event takes a watch from a path that is there. *)
<1>5. ASSUME wdOf' = wdOf
      PROVE  \A i \in 1..Len(queue') : LET e == queue'[i].dir IN
               /\ e \in used'
               /\ queue'[i].kind = "delete" => e \notin exists'
               /\ e \in exists' => wdOf'[Parent[e]] # 0
  BY <1>2, <1>5 DEF Once
<1>6. CASE InAttrib
  <2>1. kind = "attrib" /\ UNCHANGED <<wdOf, path_to_wd, pc, at, listed>>
    BY <1>1, <1>6 DEF InAttrib, scanVars
  <2>2. \A e \in Dirs : Noted(e)' => Noted(e) \/ (e = d /\ d \in exists)
    BY <1>6, <2>1, AttribHandled DEF Noted, h, MapInv, RestTypeOK
  <2>3. \A e, wd : Gone(queue, e, wd) => Gone(queue', e, wd)
    BY <1>2, <1>3, <2>1
  <2>4. \A e \in exists' : Noted(e)' \/ ToVisit(e)' => wdOf'[Parent[e]] # 0
    BY <1>0, <1>2, <1>4, <2>1, <2>2 DEF Once, ToVisit
  <2>5. \A e \in Dirs \ exists' : Noted(e)' =>
          path_to_wd'[Parent[e]] # 0 /\ Gone(queue', e, path_to_wd'[Parent[e]])
    BY <1>2, <2>1, <2>2, <2>3 DEF Once
  <2>6. QED
    BY <1>2, <1>5, <2>1, <2>4, <2>5 DEF Once
<1>7. CASE InCreate
  <2>1. kind = "create" /\ listed' = listed
    BY <1>1, <1>7 DEF InCreate
  <2>2. \A e, wd : Gone(queue, e, wd) => Gone(queue', e, wd)
    BY <1>2, <1>3, <2>1
  <2>3. CASE Known /\ CanWatch(d)
    <3>1. InotifyAddCgroupDir(d) /\ pc' = "open" /\ at' = d
      BY <1>7, <2>3, CreateHandled DEF h
    <3>2. d \in exists \cup {top}
      BY <2>3 DEF CanWatch
    <3>3. QED
      BY <1>2, <1>4, <2>1, <2>2, <3>1, <3>2, AddOnce
  <2>4. CASE ~(Known /\ CanWatch(d))
    <3>1. UNCHANGED <<wdOf, path_to_wd, app_info>>
      BY <1>7, <2>4, CreateHandled DEF h, tableVars
    <3>2. \/ d \notin exists \cup {top} /\ at' = d
          \/ UNCHANGED <<pc, at>>
      BY <1>2, <1>7, <2>4, WatchFree, CreateHandled DEF h, MapInv
    <3>3. \A e : Noted(e)' = Noted(e)
      BY <3>1 DEF Noted
    <3>4. \A e \in exists' : Noted(e)' \/ ToVisit(e)' => wdOf'[Parent[e]] # 0
      <4>1. \A e \in exists : ToVisit(e)' => ToVisit(e)
        BY <1>2, <1>7, <2>1, CreateHandled DEF ToVisit, h
      <4>2. QED
        BY <1>2, <3>1, <3>3, <4>1 DEF Once
    <3>5. \A e \in Dirs \ exists' : Noted(e)' =>
            path_to_wd'[Parent[e]] # 0 /\ Gone(queue', e, path_to_wd'[Parent[e]])
      BY <1>2, <2>2, <3>1, <3>3 DEF Once
    <3>6. /\ at' \in used' \cup {top}
          /\ pc' = "open" /\ at' \in exists' \cup {top} => wdOf'[at'] # 0
      BY <1>2, <1>4, <3>1, <3>2 DEF Once
    <3>7. QED
      BY <1>2, <1>5, <2>1, <3>1, <3>4, <3>5, <3>6 DEF Once
  <2>5. QED
    BY <2>3, <2>4
<1>8. CASE InDelete
  <2>1. kind = "delete" /\ UNCHANGED <<lastWd, pc, at, listed>> /\ d \notin exists
    BY <1>1, <1>4, <1>8 DEF InDelete, scanVars
  <2>2. CASE Known
    <3>1. /\ WatchesTypeOK' /\ path_to_wd'[d] = 0 /\ wdOf'[d] = 0
          /\ \A p \in Paths \ {d} : wdOf'[p] = wdOf[p] /\ path_to_wd'[p] = path_to_wd[p]
          /\ app_info' = [app_info EXCEPT ![d] = "none"]
      BY <1>2, <1>8, <2>2, DeleteDrops DEF h
    <3>2. wdOf[d] = 0
      BY <1>2, <2>1 DEF TreeInv
    <3>3. /\ path_to_wd'[d] = 0
          /\ \A p \in Paths \ {d} : path_to_wd'[p] = path_to_wd[p]
      BY <3>1
    <3>4. wdOf' = wdOf
      <4>1. \A p \in Paths : wdOf'[p] = wdOf[p]
        BY <3>1, <3>2
      <4>2. QED
        BY <1>0, <3>1, <4>1 DEF WatchesTypeOK
    <3>5. ASSUME NEW e \in Dirs
          PROVE  IF e = d THEN ~Noted(e)' ELSE Noted(e)' = Noted(e)
      <4>1. CASE e = d
        BY <1>2, <3>1, <4>1 DEF Noted, MapInv, RestTypeOK
      <4>2. CASE e # d
        <5>1. path_to_wd'[e] = path_to_wd[e] /\ app_info'[e] = app_info[e]
          BY <1>0, <1>2, <3>1, <4>2 DEF MapInv, RestTypeOK
        <5>2. QED
          BY <4>2, <5>1 DEF Noted
      <4>3. QED
        BY <4>1, <4>2
    <3>6. ASSUME NEW e \in Dirs \ exists', Noted(e)'
          PROVE  path_to_wd'[Parent[e]] # 0 /\ Gone(queue', e, path_to_wd'[Parent[e]])
      <4>1. e # d /\ path_to_wd[Parent[e]] # 0 /\ Gone(queue, e, path_to_wd[Parent[e]])
        BY <1>2, <3>5, <3>6 DEF Once
      <4>2. Gone(queue', e, path_to_wd[Parent[e]]) /\ d # Parent[e]
        BY <1>3, <2>1, <4>1
      <4>3. QED
        BY <1>0, <3>3, <4>1, <4>2
    <3>7. \A e \in exists' : Noted(e)' \/ ToVisit(e)' => wdOf'[Parent[e]] # 0
      <4>1. \A e \in exists : e \in Dirs /\ e # d /\ (ToVisit(e)' => ToVisit(e))
        BY <1>0, <2>1 DEF ToVisit
      <4>2. \A e \in exists : Noted(e)' => Noted(e)
        BY <3>5, <4>1
      <4>3. QED
        BY <1>2, <3>4, <4>1, <4>2 DEF Once
    <3>8. \A e \in exists' \cup {top} : path_to_wd'[e] # 0 => wdOf'[e] = path_to_wd'[e]
      <4>1. \A e \in exists \cup {top} : e \in Paths /\ e # d
        BY <1>0, <1>2, <2>1
      <4>2. QED
        BY <1>2, <3>3, <3>4, <4>1 DEF Once
    <3>9. QED
      BY <1>2, <1>5, <2>1, <3>4, <3>6, <3>7, <3>8 DEF Once
  <2>3. CASE ~Known
    <3>1. UNCHANGED <<wdOf, path_to_wd, app_info>>
      BY <1>8, <2>3, DeleteHandled DEF h, tableVars
    <3>2. \A e : Noted(e)' = Noted(e) /\ ToVisit(e)' = ToVisit(e)
      BY <2>1, <3>1 DEF Noted, ToVisit
    (* The watch that is waited for is known. *)
    <3>3. ASSUME NEW e \in Dirs, path_to_wd[Parent[e]] # 0,
                 Gone(queue, e, path_to_wd[Parent[e]])
          PROVE  Gone(queue', e, path_to_wd[Parent[e]])
      <4>1. path_to_wd[Parent[e]] \in DOMAIN wd_to_path
        BY <1>0, <3>3 DEF MapInv, NoWatchLeak
      <4>2. h.wd # path_to_wd[Parent[e]]
        BY <2>3, <4>1 DEF Known, h
      <4>3. QED
        BY <1>3, <3>3, <4>2
    <3>4. \A e \in Dirs \ exists' : Noted(e)' =>
            path_to_wd'[Parent[e]] # 0 /\ Gone(queue', e, path_to_wd'[Parent[e]])
      BY <1>2, <3>1, <3>2, <3>3 DEF Once
    <3>5. QED
      BY <1>2, <1>5, <2>1, <3>1, <3>2, <3>4 DEF Once
  <2>4. QED
    BY <2>2, <2>3
<1>9. QED
  BY <1>6, <1>7, <1>8

(* The policy: what it was told of an application is what the xattr says,  *)
(* or an event will tell it again.                                         *)
LEMMA TreeTold ==
  ASSUME MapInv, TreeInv, ToldRight, Tree
  PROVE  ToldRight'
<1>0. /\ \A d \in Dirs : Parent[d] \in Paths /\ d \in Paths
      /\ wdOf \in [Paths -> Nat] /\ queue \in Seq(Event) /\ Apps \subseteq Dirs
  BY TreeAssumption DEF Paths, MapInv, WatchesTypeOK, RestTypeOK
<1>1. ASSUME NEW kind \in {"create", "delete", "attrib"}, NEW d \in Dirs, Report(kind, d)
      PROVE  /\ \A e : OnItsWay("attrib", e) /\ wdOf'[Parent[e]] = wdOf[Parent[e]]
                       => OnItsWay("attrib", e)'
             /\ wdOf[Parent[d]] # 0 /\ wdOf'[Parent[d]] = wdOf[Parent[d]] => OnItsWay(kind, d)'
  <2>1. /\ \A i \in 1..Len(queue) : i \in 1..Len(queue') /\ queue'[i] = queue[i]
        /\ wdOf[Parent[d]] # 0 => \E i \in 1..Len(queue') :
             queue'[i] = [wd |-> wdOf[Parent[d]], kind |-> kind, dir |-> d]
    BY <1>0, <1>1, ReportQueues
  <2>2. QED
    BY <2>1, StaysOnItsWay DEF OnItsWay
<1>2. ASSUME NEW d \in Dirs, Mkdir(d)
      PROVE  ToldRight'
  <2>1. UNCHANGED <<wdOf, xattr, told>> /\ exists \subseteq exists' /\ Report("create", d)
    BY <1>2 DEF Mkdir
  <2>2. QED
    BY <1>1, <2>1 DEF ToldRight, Shown
<1>3. ASSUME NEW d \in Dirs, Rmdir(d)
      PROVE  ToldRight'
  <2>1. /\ exists' = exists \ {d} /\ wdOf' = [wdOf EXCEPT ![d] = 0] /\ Report("delete", d)
        /\ xattr' = [xattr EXCEPT ![d] = "unset"]
        /\ told' = [told EXCEPT ![d] = "none"]
        /\ Children(d) = {}
    BY <1>3 DEF Rmdir
  <2>2. \A a \in Dirs : a \in exists => wdOf'[Parent[a]] = wdOf[Parent[a]]
    BY <1>0, <2>1 DEF Children
  <2>3. \A a \in Dirs : a \in exists /\ OnItsWay("attrib", a) => OnItsWay("attrib", a)'
    BY <1>1, <2>1, <2>2
  <2>4. \A e \in Dirs : e # d => Shown(e)' = Shown(e) /\ told'[e] = told[e]
    BY <2>1 DEF MapInv, RestTypeOK, Shown
  <2>5. told'[d] = "none"
    BY <2>1 DEF MapInv, RestTypeOK
  <2>6. QED
    BY <2>1, <2>3, <2>5, <2>2, <2>4 DEF ToldRight
<1>4. ASSUME NEW d \in Dirs, SetAttr(d)
      PROVE  ToldRight'
  <2>1. UNCHANGED <<exists, wdOf, told>> /\ Report("attrib", d)
    BY <1>4 DEF SetAttr
  <2>2. \A e \in Dirs : e # d => Shown(e)' = Shown(e)
    BY <1>4 DEF SetAttr, MapInv, RestTypeOK, Shown
  <2>3. \A e \in Dirs : wdOf[Parent[e]] # 0 /\ (e = d \/ OnItsWay("attrib", e))
                       => OnItsWay("attrib", e)'
    BY <1>0, <1>1, <2>1
  <2>4. QED
    BY <2>1, <2>2, <2>3 DEF ToldRight
<1>5. QED
  BY <1>2, <1>3, <1>4 DEF Tree

(* What is not an "attrib" tells nothing and takes no watch that is needed. *)
LEMMA ToldKept ==
  ASSUME ToldRight, UNCHANGED <<exists, xattr, told>>,
         \A a \in Dirs : a \in exists /\ wdOf[Parent[a]] # 0 =>
           /\ wdOf'[Parent[a]] = wdOf[Parent[a]]
           /\ OnItsWay("attrib", a) => OnItsWay("attrib", a)'
  PROVE  ToldRight'
BY DEF ToldRight, Shown

LEMMA MonitorTold ==
  ASSUME MapInv, TreeInv, EntryInv, Once, ToldRight, Monitor, ~killed', ~reused
  PROVE  ToldRight'
<1> DEFINE d == Head(queue).dir
<1>0. /\ \A e \in Dirs : Parent[e] \in Paths /\ e \in Paths
      /\ Apps \subseteq Dirs /\ at \in Paths /\ wdOf \in [Paths -> Nat]
  BY TreeAssumption DEF Paths, MapInv, WatchesTypeOK, RestTypeOK
<1>1. UNCHANGED <<exists, xattr>>
  BY DEF Monitor, NextName, VisitDir, OpenDir, InAttrib, InCreate, InDelete, NextEvent, treeVars
<1>2. ASSUME NEW p \in Paths, InotifyAddCgroupDir(p)
      PROVE  \A q \in Paths : wdOf[q] # 0 => wdOf'[q] = wdOf[q]
  BY <1>2, AddedWatch
<1>3. CASE NextName \/ VisitDir \/ OpenDir
  <2>1. queue' = queue /\ told' = told
    BY <1>3 DEF NextName, VisitDir, OpenDir
  <2>2. wdOf' = wdOf \/ InotifyAddCgroupDir(at)
    BY <1>3 DEF NextName, VisitDir, OpenDir
  <2>3. \A q \in Paths : wdOf[q] # 0 => wdOf'[q] = wdOf[q]
    BY <1>0, <1>2, <2>2
  <2>4. \A a \in Dirs : wdOf[Parent[a]] # 0 /\ OnItsWay("attrib", a) => OnItsWay("attrib", a)'
    BY <1>0, <2>1, <2>3 DEF OnItsWay
  <2>5. QED
    BY <1>0, <1>1, <2>1, <2>3, <2>4, ToldKept
<1>4. CASE InAttrib
  <2>1. NextEvent("attrib") /\ wdOf' = wdOf
    BY <1>4 DEF InAttrib
  <2>2. ASSUME NEW a \in Dirs
        PROVE  told'[a] = IF Known /\ a \in exists /\ a = d THEN Shown(a) ELSE told[a]
    <3>1. CASE Known /\ d \in exists
      <4>1. /\ app_info' = [app_info EXCEPT ![d] = Timestamp(d)]
            /\ told' = [told EXCEPT ![d] = app_info'[d]]
        BY <1>4, <3>1, AttribHandled
      <4>2. d \in Dirs /\ Timestamp(d) = Shown(d)
        <5>1. d \in Dirs /\ (xattr[d] = "unset" => app_info[d] # "active")
          BY <3>1 DEF EntryInv, Unmarked, MapInv, RestTypeOK
        <5>2. QED
          BY <5>1, TimestampRead DEF MapInv, Shown
      <4> HIDE DEF d
      <4>3. QED
        BY <3>1, <4>1, <4>2 DEF MapInv, RestTypeOK
    <3>2. CASE ~(Known /\ d \in exists)
      BY <1>4, <3>2, AttribHandled
    <3>3. QED
      BY <3>1, <3>2
  <2>3. d \in exists => wdOf[Parent[d]] # 0
    <3>1. Head(queue) = queue[1] /\ 1 \in 1..Len(queue)
      BY <2>1, EventRead DEF MapInv, RestTypeOK
    <3>2. QED
      BY <3>1 DEF Once
  <2>4. \A a \in Dirs : OnItsWay("attrib", a) =>
          OnItsWay("attrib", a)' \/ (d = a /\ (Known \/ wdOf[Parent[a]] = 0))
    BY <1>0, <2>1, EventLeaves
  <2> HIDE DEF d
  <2>5. QED
    BY <1>1, <2>1, <2>2, <2>3, <2>4 DEF ToldRight, Shown
<1>5. CASE InCreate \/ InDelete
  <2>1. PICK kind \in {"create", "delete"} : NextEvent(kind)
    <3>1. NextEvent("create") \/ NextEvent("delete")
      BY <1>5, Zenon DEF InCreate, InDelete
    <3>2. QED
      BY <3>1
  <2>2. told' = told /\ d \in Paths
    BY <1>0, <1>5, <2>1, EventRead DEF InCreate, InDelete, MapInv, RestTypeOK
  <2>3. \A q \in Paths : wdOf[q] # 0 /\ q \in exists \cup {top} => wdOf'[q] = wdOf[q]
    <3>1. CASE InCreate
      <4>1. wdOf' = wdOf \/ InotifyAddCgroupDir(d)
        BY <3>1, CreateHandled
      <4>2. QED
        BY <1>2, <2>2, <4>1
    <3>2. CASE InDelete
      <4>1. d \notin exists \cup {top}
        <5>1. NextEvent("delete")
          BY <3>2 DEF InDelete
        <5>2. d \in Dirs /\ Head(queue) = queue[1] /\ 1 \in 1..Len(queue)
              /\ Head(queue).kind = "delete"
          BY <5>1, EventRead DEF MapInv, RestTypeOK
        <5>3. d \notin exists
          BY <5>2 DEF Once
        <5>4. QED
          BY <5>1, <5>2, <5>3, TreeAssumption
      <4>2. CASE Known
        <5>1. \A p \in Paths \ {d} : wdOf'[p] = wdOf[p]
          BY <2>2, <3>2, <4>2, DeleteDrops
        <5>2. QED
          BY <4>1, <5>1
      <4>3. CASE ~Known
        BY <3>2, <4>3, DeleteHandled
      <4>4. QED
        BY <4>2, <4>3
    <3>3. QED
      BY <1>5, <3>1, <3>2
  <2>4. \A a \in Dirs : a \in exists /\ wdOf[Parent[a]] # 0 => wdOf'[Parent[a]] = wdOf[Parent[a]]
    BY <1>0, <2>3 DEF TreeInv
  <2>5. \A a \in Dirs : a \in exists /\ wdOf[Parent[a]] # 0 /\ OnItsWay("attrib", a)
          => OnItsWay("attrib", a)'
    BY <1>0, <2>1, <2>4, EventLeaves
  <2>6. QED
    BY <1>1, <2>2, <2>4, <2>5, ToldKept
<1>6. QED
  BY <1>3, <1>4, <1>5 DEF Monitor

LEMMA OnceInit == Init => OnceInv
<1> SUFFICES ASSUME Init PROVE OnceInv
  OBVIOUS
<1>1. MapInv /\ TreeInv /\ EntryInv
  BY MapInit, MirrorInit DEF MirrorInv
<1>2. \A d \in Paths : path_to_wd[d] = 0 /\ wdOf[d] = 0
  BY DEF Init
<1>3. \A d \in Dirs : ~Noted(d) /\ ~ToVisit(d)
  BY <1>2, TreeAssumption DEF Init, Noted, ToVisit, Paths
<1>4. Once
  BY <1>2, <1>3 DEF Init, Once, Paths
<1>5. ToldRight
  BY DEF Init, ToldRight
<1>6. QED
  BY <1>1, <1>4, <1>5 DEF OnceInv

LEMMA OnceInductive == ASSUME EnoughWatches PROVE OnceInv /\ [Next]_vars => OnceInv'
<1> SUFFICES ASSUME OnceInv, [Next]_vars PROVE OnceInv'
  OBVIOUS
<1>1. MapInv' /\ TreeInv' /\ EntryInv'
  BY MapInductive, TreeInvStep, EntryStep DEF OnceInv
<1>2. ASSUME ~killed', ~reused' PROVE Once' /\ ToldRight'
  <2>1. ~killed /\ ~reused
    BY <1>2, StaysTrue
  <2>2. MapInv /\ TreeInv /\ EntryInv /\ Once /\ ToldRight
    BY <2>1 DEF OnceInv
  <2>3. CASE UNCHANGED vars
    BY <2>2, <2>3 DEF vars, treeVars, tableVars, scanVars, Once, ToldRight, Noted, ToVisit,
                      OnItsWay, Shown
  <2>4. CASE Tree
    BY <1>2, <2>2, <2>4, TreeOnce, TreeTold
  <2>5. CASE Monitor
    BY <1>2, <2>1, <2>2, <2>5, ScanOnce, EventOnce, MonitorTold DEF Monitor
  <2>6. QED
    BY <2>3, <2>4, <2>5 DEF Next
<1>3. QED
  BY <1>1, <1>2 DEF OnceInv

(***************************************************************************)
(* When the events are handled nothing is held of a path that is gone:     *)
(* in_delete has been told of each, by a watch the maps still had.         *)
(***************************************************************************)
THEOREM GoneForgotten == ASSUME EnoughWatches PROVE Spec => []ForgetsUnlessKilled
<1>1. OnceInv => ForgetsUnlessKilled
  <2> SUFFICES ASSUME OnceInv, ~killed, ~reused, Settled
               PROVE  /\ \A d \in Dirs \ exists : path_to_wd[d] = 0
                      /\ \A d \in Dirs \ exists : app_info[d] = "none"
    BY DEF ForgetsUnlessKilled, Forgets
  <2>1. Once /\ Len(queue) = 0
    BY DEF OnceInv, Settled
  <2>2. \A d \in Dirs \ exists : ~Noted(d)
    BY <2>1 DEF Once, Gone
  <2>3. QED
    BY <2>2 DEF Noted
<1>2. QED
  BY <1>1, OnceInit, OnceInductive, PTL DEF Spec

(***************************************************************************)
(* ... and the policy, if it was told of a directory at all, was last told *)
(* what its xattr says now: no later change of the focus was lost or told  *)
(* before an earlier one, while no path is used again and no live watch    *)
(* was removed.                                                            *)
(***************************************************************************)
THEOREM PolicyToldLast == ASSUME EnoughWatches PROVE Spec => []PolicyCurrent
<1>1. OnceInv => PolicyCurrent
  <2> SUFFICES ASSUME OnceInv, Settled, ~killed, ~reused, NEW d \in exists, told[d] # "none"
               PROVE  told[d] = Shown(d)
    BY DEF PolicyCurrent
  <2>1. ToldRight /\ Len(queue) = 0 /\ d \in Dirs
    BY DEF OnceInv, Settled, MapInv, RestTypeOK
  <2>2. ~OnItsWay("attrib", d)
    BY <2>1 DEF OnItsWay
  <2>3. QED
    BY <2>1, <2>2 DEF ToldRight
<1>2. QED
  BY <1>1, OnceInit, OnceInductive, PTL DEF Spec
=============================================================================
