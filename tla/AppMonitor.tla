----------------------------- MODULE AppMonitor -----------------------------
(***************************************************************************)
(* The application monitor of the user daemon, src/r-app-monitor.c.        *)
(*                                                                         *)
(* RAppMonitor mirrors the cgroup tree below app.slice: an inotify watch   *)
(* for every directory and an RAppInfo for every application, whose        *)
(* timestamp follows the xattr xdg.inactive-since (-1 while the            *)
(* application is focused, absent until the desktop's shell first sets     *)
(* it).  inotify watches one directory, not a tree, so the monitor scans   *)
(* each directory it learns of, while systemd goes on creating and         *)
(* removing directories and the kernel goes on queueing events.            *)
(*                                                                         *)
(* A directory is a path; a watch belongs to what the path named when it   *)
(* was added and is gone with it.  The kernel never uses a watch           *)
(* descriptor (wd) twice; 0 is none.                                       *)
(***************************************************************************)
EXTENDS Integers, Sequences, FiniteSets

CONSTANTS
  Dirs,       \* the paths that may exist below app.slice
  top,        \* app.slice itself
  Parent,     \* [Dirs -> Dirs \cup {top}]
  Apps,       \* the paths that do not end in ".slice"
  AllowReuse, \* whether a path that was removed may be created again
  WatchLimit, \* the watches the kernel allows
  MaxChanges  \* bound on the changes of the tree

(* Going up from any path ends at app.slice. *)
ASSUME TreeAssumption ==
  /\ top \notin Dirs
  /\ Parent \in [Dirs -> Dirs \cup {top}]
  /\ \A D \in SUBSET Dirs : D # {} => \E d \in D : Parent[d] \notin D
  /\ Apps \subseteq Dirs
  /\ AllowReuse \in BOOLEAN
  /\ WatchLimit \in Nat
  /\ MaxChanges \in Nat

VARIABLES
  exists,      \* kernel: the paths that exist
  used,        \* the paths that exist or have existed
  reused,      \* history: a path was created again
  xattr,       \* kernel: xdg.inactive-since, "active" for -1, "unset" for none
  wdOf,        \* kernel: the live watch of each path
  lastWd,      \* kernel: the last watch descriptor given out
  queue,       \* kernel: inotify events not yet read
  changes,     \* changes of the tree so far
  path_to_wd,  \* path_to_wd_map, 0 for no entry
  wd_to_path,  \* wd_to_path_map
  app_info,    \* app_info_map: the timestamp held, "none" for no entry
  told,        \* the timestamp last sent with "changed"
  pc,          \* "idle", or where the recursive scan is
  at,          \* the directory it is at
  listed,      \* names it has read and not yet visited
  killed       \* history: a live watch of a directory still there was removed

treeVars  == <<exists, used, reused, xattr, changes>>
tableVars == <<path_to_wd, wd_to_path, app_info>>
scanVars  == <<pc, at, listed>>
vars == <<treeVars, wdOf, lastWd, queue, tableVars, told, scanVars, killed>>

Paths == Dirs \cup {top}
Children(d) == {c \in exists : c \in Dirs /\ Parent[c] = d}
Live == {d \in Paths : wdOf[d] # 0}

Init ==
  /\ exists \in {E \in SUBSET Dirs : \A d \in E : Parent[d] \in E \cup {top}}
  /\ used = exists /\ reused = FALSE
  /\ xattr \in [Dirs -> {"unset", "inactive", "active"}]
  /\ \A d \in Dirs : d \notin Apps \cap exists => xattr[d] = "unset"
  /\ wdOf = [d \in Paths |-> 0]
  /\ lastWd = 0
  /\ queue = <<>>
  /\ changes = 0
  /\ path_to_wd = [d \in Paths |-> 0]
  /\ wd_to_path = <<>>
  /\ app_info = [d \in Dirs |-> "none"]
  /\ told = [d \in Dirs |-> "none"]
  /\ pc = "visit" /\ at = top    \* r_app_monitor_start begins with app.slice
  /\ listed = {}
  /\ killed = FALSE

-----------------------------------------------------------------------------
(***************************************************************************)
(* The kernel and who uses it.  What happens to a directory is reported to *)
(* the watch of its parent; an event like the last one in the queue is     *)
(* merged into it.                                                         *)
(***************************************************************************)
Report(kind, d) ==
  LET e == [wd |-> wdOf[Parent[d]], kind |-> kind, dir |-> d] IN
  queue' = IF wdOf[Parent[d]] = 0 \/ (queue # <<>> /\ queue[Len(queue)] = e)
           THEN queue ELSE Append(queue, e)

TreeStep ==
  /\ changes < MaxChanges
  /\ changes' = changes + 1
  /\ UNCHANGED <<lastWd, tableVars, scanVars, killed>>

Mkdir(d) ==
  /\ TreeStep
  /\ d \notin exists /\ (AllowReuse \/ d \notin used)
  /\ Parent[d] \in exists \cup {top}
  /\ exists' = exists \cup {d}
  /\ used' = used \cup {d}
  /\ reused' = (reused \/ d \in used)
  /\ Report("create", d)
  /\ UNCHANGED <<xattr, wdOf, told>>

Rmdir(d) ==
  /\ TreeStep
  /\ d \in exists /\ Children(d) = {}
  /\ exists' = exists \ {d}
  /\ UNCHANGED <<used, reused>>
  /\ wdOf' = [wdOf EXCEPT ![d] = 0]
  /\ xattr' = [xattr EXCEPT ![d] = "unset"]
  /\ told' = [told EXCEPT ![d] = "none"]
  /\ Report("delete", d)

(* The desktop's shell marks the cgroup of an application with its focus.   *)
(* Other attributes (the mode, the owner, other xattrs) change on any       *)
(* directory, a slice too, and are reported alike.                          *)
SetAttr(d) ==
  /\ TreeStep
  /\ d \in exists
  /\ \E x \in {xattr[d]} \cup (IF d \in Apps THEN {"inactive", "active"} ELSE {}) :
       xattr' = [xattr EXCEPT ![d] = x]
  /\ Report("attrib", d)
  /\ UNCHANGED <<exists, used, reused, wdOf, told>>

Tree == \E d \in Dirs : Mkdir(d) \/ Rmdir(d) \/ SetAttr(d)

-----------------------------------------------------------------------------
(* r_app_monitor_get_app_info_from_path, for a path that exists: without    *)
(* the xattr a new entry has the time of day, and one that is there already *)
(* keeps what it has.                                                       *)
Timestamp(d) ==
  CASE xattr[d] # "unset" -> xattr[d]
    [] xattr[d] = "unset" /\ app_info[d] = "none" -> "inactive"
    [] OTHER -> app_info[d]

GetAppInfoFromPath(d) == app_info' = [app_info EXCEPT ![d] = Timestamp(d)]

CanWatch(d) ==
  d \in exists \cup {top} /\ (wdOf[d] # 0 \/ Cardinality(Live) < WatchLimit)

(* The wd_to_path_map without one key. *)
Without(wd) == [w \in DOMAIN wd_to_path \ {wd} |-> wd_to_path[w]]

(***************************************************************************)
(* inotify_add_cgroup_dir for a directory that can be watched.  The kernel *)
(* answers with the wd the directory has already, if it has one.  The wd   *)
(* the path had in the map is removed - also when it is the same.          *)
(***************************************************************************)
InotifyAddCgroupDir(d) ==
  LET old == path_to_wd[d]
      wd  == IF wdOf[d] # 0 THEN wdOf[d] ELSE lastWd + 1
      cut == IF old = 0 THEN wd_to_path ELSE Without(old)
  IN /\ lastWd' = IF wdOf[d] # 0 THEN lastWd ELSE wd
     /\ wdOf' = [wdOf EXCEPT ![d] = IF old = wd THEN 0 ELSE wd]
     /\ path_to_wd' = [path_to_wd EXCEPT ![d] = wd]
     /\ wd_to_path' = [w \in DOMAIN cut \cup {wd} |-> IF w = wd THEN d ELSE cut[w]]
     /\ killed' = (killed \/ old = wd)
     /\ IF d \in Apps THEN GetAppInfoFromPath(d) ELSE UNCHANGED app_info

(***************************************************************************)
(* inotify_add_recursive_watch_on_dir: one round of its loop is NextName,  *)
(* VisitDir and OpenDir.  The order of the visits is not modelled.  A      *)
(* watch that cannot be added to a directory that is there is tried again, *)
(* with the same name, for ever.                                           *)
(***************************************************************************)
NextName ==
  /\ pc = "scan"
  /\ \/ /\ listed = {}
        /\ pc' = "idle"
        /\ UNCHANGED <<at, listed>>
     \/ \E d \in listed :
          /\ at' = d
          /\ listed' = listed \ {d}
          /\ pc' = "visit"
  /\ UNCHANGED <<treeVars, wdOf, lastWd, queue, tableVars, told, killed>>

(* Mutant: a name that is no directory any more is tried again as well. *)
VisitDirInsisting ==
  /\ pc = "visit"
  /\ CanWatch(at)
  /\ InotifyAddCgroupDir(at)
  /\ pc' = "open"
  /\ UNCHANGED <<treeVars, queue, told, at, listed>>

VisitDir ==
  /\ pc = "visit"
  /\ \/ /\ CanWatch(at)
        /\ InotifyAddCgroupDir(at)
        /\ pc' = "open"
     \/ /\ at \notin exists \cup {top}
        /\ pc' = "scan"
        /\ UNCHANGED <<wdOf, lastWd, tableVars, killed>>
  /\ UNCHANGED <<treeVars, queue, told, at, listed>>

OpenDir ==
  /\ pc = "open"
  /\ listed' = listed \cup Children(at)
  /\ pc' = "scan"
  /\ UNCHANGED <<treeVars, wdOf, lastWd, queue, tableVars, told, at, killed>>

-----------------------------------------------------------------------------
(***************************************************************************)
(* handle_inotify_event, for the oldest event in the queue.  An event of a *)
(* watch the maps do not know names no path.                               *)
(***************************************************************************)
NextEvent(kind) ==
  /\ pc = "idle"
  /\ queue # <<>>
  /\ Head(queue).kind = kind
  /\ queue' = Tail(queue)
  /\ UNCHANGED treeVars

Known == Head(queue).wd \in DOMAIN wd_to_path

(* Mutant: the policy is told before the xattr is read. *)
InAttribEarly ==
  /\ NextEvent("attrib")
  /\ LET d == Head(queue).dir IN
     IF Known /\ d \in exists
     THEN GetAppInfoFromPath(d) /\ told' = [told EXCEPT ![d] = app_info[d]]
     ELSE UNCHANGED <<app_info, told>>
  /\ UNCHANGED <<wdOf, lastWd, path_to_wd, wd_to_path, scanVars, killed>>

(* in_attrib, for a slice as well as for an application. *)
InAttrib ==
  /\ NextEvent("attrib")
  /\ LET d == Head(queue).dir IN
     IF Known /\ d \in exists
     THEN GetAppInfoFromPath(d) /\ told' = [told EXCEPT ![d] = app_info'[d]]
     ELSE UNCHANGED <<app_info, told>>
  /\ UNCHANGED <<wdOf, lastWd, path_to_wd, wd_to_path, scanVars, killed>>

(* Mutant: what is below the new directory is not looked at. *)
InCreateFlat ==
  /\ NextEvent("create")
  /\ LET d == Head(queue).dir IN
     IF Known /\ CanWatch(d)
     THEN InotifyAddCgroupDir(d)
     ELSE UNCHANGED <<wdOf, lastWd, tableVars, killed>>
  /\ UNCHANGED <<told, scanVars>>

(* Mutant: the answer of inotify_add_watch is not looked at. *)
InCreateUnchecked ==
  /\ NextEvent("create")
  /\ LET d == Head(queue).dir IN
     IF Known
     THEN /\ IF CanWatch(d)
             THEN InotifyAddCgroupDir(d)
             ELSE /\ path_to_wd' = [path_to_wd EXCEPT ![d] = -1]
                  /\ UNCHANGED <<wdOf, lastWd, wd_to_path, app_info, killed>>
          /\ pc' = "open" /\ at' = d
     ELSE UNCHANGED <<wdOf, lastWd, tableVars, pc, at, killed>>
  /\ UNCHANGED <<told, listed>>

(* The directory is scanned whether or not the watch could be added. *)
InCreate ==
  /\ NextEvent("create")
  /\ LET d == Head(queue).dir IN
     IF Known
     THEN /\ IF CanWatch(d)
             THEN InotifyAddCgroupDir(d)
             ELSE UNCHANGED <<wdOf, lastWd, tableVars, killed>>
          /\ pc' = "open" /\ at' = d
     ELSE UNCHANGED <<wdOf, lastWd, tableVars, pc, at, killed>>
  /\ UNCHANGED <<told, listed>>

(* Mutant: the path stays in wd_to_path_map. *)
InDeleteHalf ==
  /\ NextEvent("delete")
  /\ LET d == Head(queue).dir IN
     IF Known
     THEN /\ path_to_wd' = [path_to_wd EXCEPT ![d] = 0]
          /\ app_info' = [app_info EXCEPT ![d] = "none"]
          /\ wdOf' = [p \in Paths |-> IF wdOf[p] = path_to_wd[d] THEN 0 ELSE wdOf[p]]
     ELSE UNCHANGED <<path_to_wd, app_info, wdOf>>
  /\ UNCHANGED <<wd_to_path, lastWd, told, scanVars, killed>>

(* Mutant: the application stays in app_info_map. *)
InDeleteKeepingInfo ==
  /\ NextEvent("delete")
  /\ LET d == Head(queue).dir IN
     IF Known
     THEN /\ path_to_wd' = [path_to_wd EXCEPT ![d] = 0]
          /\ wd_to_path' = Without(path_to_wd[d])
          /\ wdOf' = [p \in Paths |-> IF wdOf[p] = path_to_wd[d] THEN 0 ELSE wdOf[p]]
     ELSE UNCHANGED <<path_to_wd, wd_to_path, wdOf>>
  /\ UNCHANGED <<app_info, lastWd, told, scanVars, killed>>

(* The path may name a new directory by now; its watch goes as well. *)
InDelete ==
  /\ NextEvent("delete")
  /\ LET d == Head(queue).dir IN
     IF Known
     THEN /\ path_to_wd' = [path_to_wd EXCEPT ![d] = 0]
          /\ wd_to_path' = Without(path_to_wd[d])
          /\ app_info' = [app_info EXCEPT ![d] = "none"]
          /\ wdOf' = [p \in Paths |-> IF wdOf[p] = path_to_wd[d] THEN 0 ELSE wdOf[p]]
          /\ killed' = (killed \/ (wdOf[d] # 0 /\ wdOf[d] = path_to_wd[d]))
     ELSE UNCHANGED <<tableVars, wdOf, killed>>
  /\ UNCHANGED <<lastWd, told, scanVars>>

Monitor ==
  \/ NextName \/ VisitDir \/ OpenDir
  \/ InAttrib \/ InCreate \/ InDelete

Next == Tree \/ Monitor

(* The main loop dispatches the channel when the inotify fd is readable.   *)
Spec == Init /\ [][Next]_vars /\ WF_vars(Monitor)

-----------------------------------------------------------------------------
(* Every variable has its type. *)
TypeOK ==
  /\ exists \in SUBSET used /\ used \in SUBSET Dirs /\ reused \in BOOLEAN
  /\ xattr \in [Dirs -> {"unset", "inactive", "active"}]
  /\ wdOf \in [Paths -> Nat]
  /\ lastWd \in Nat
  /\ queue \in Seq([wd : Nat, kind : {"create", "delete", "attrib"}, dir : Dirs])
  /\ changes \in 0..MaxChanges
  /\ path_to_wd \in [Paths -> Nat]
  /\ DOMAIN wd_to_path \subseteq 1..lastWd
  /\ \A w \in DOMAIN wd_to_path : wd_to_path[w] \in Paths
  /\ app_info \in [Dirs -> {"none", "inactive", "active"}]
  /\ told \in [Dirs -> {"none", "inactive", "active"}]
  /\ pc \in {"idle", "scan", "visit", "open"}
  /\ at \in Paths
  /\ listed \in SUBSET Dirs
  /\ killed \in BOOLEAN

(***************************************************************************)
(* The two maps of the monitor are each other's inverse, and no live watch *)
(* of the kernel is missing from them (NEWS 0.5.4: "Fix inotify leak in    *)
(* uresourced application manager"), whatever the order in which a path is *)
(* removed, created again, scanned and reported.                           *)
(***************************************************************************)
NoWatchLeak ==
  /\ \A d \in Paths : path_to_wd[d] # 0 =>
       path_to_wd[d] \in DOMAIN wd_to_path /\ wd_to_path[path_to_wd[d]] = d
  /\ \A w \in DOMAIN wd_to_path : path_to_wd[wd_to_path[w]] = w
  /\ \A d \in Live : path_to_wd[d] = wdOf[d]

(***************************************************************************)
(* When all events are handled every directory that is there is watched,   *)
(* and every application has an entry with the timestamp of its xattr: as  *)
(* long as the monitor has not removed the live watch of a directory that  *)
(* is there, for a late event of its path.  An application whose xattr was *)
(* never set counts as not focused, but only if no path is used again: the *)
(* entry of an earlier directory, found at the path once more, keeps the   *)
(* -1 it may have.  All this takes, as do the next two properties, that    *)
(* there is a watch for every path: in_create does not try again.          *)
(***************************************************************************)
Settled == pc = "idle" /\ queue = <<>>

(* What the xattr says, to whoever reads it for the first time. *)
Shown(d) == IF xattr[d] = "unset" THEN "inactive" ELSE xattr[d]

WatchesUnlessKilled ==
  (Settled /\ ~killed) =>
    /\ \A d \in exists : wdOf[d] # 0
    /\ \A a \in Apps \cap exists :
         /\ app_info[a] # "none"
         /\ xattr[a] # "unset" \/ ~reused => app_info[a] = Shown(a)

(***************************************************************************)
(* Nothing is held of a path that is gone either; this takes, beside, that *)
(* no path is used again: the scan may otherwise find a child of the new   *)
(* directory while the maps still have the watch of the old one.           *)
(***************************************************************************)
Forgets ==
  Settled => /\ \A d \in Dirs \ exists : path_to_wd[d] = 0
             /\ \A d \in Dirs \ exists : app_info[d] = "none"

ForgetsUnlessKilled == (~killed /\ ~reused) => Forgets

(***************************************************************************)
(* The policy acts on the last change of the focus of a directory it was   *)
(* told about, not on an earlier one, under the same conditions: an event  *)
(* of the old directory otherwise tells it about the new one, whose own    *)
(* events nobody watches yet.                                              *)
(***************************************************************************)
PolicyCurrent ==
  (Settled /\ ~killed /\ ~reused) =>
    \A d \in exists : told[d] # "none" => told[d] = Shown(d)

(* Every scan ends and every event is handled once the tree is left alone. *)
Settles == <>[]Settled

(***************************************************************************)
(* The comment on handle_inotify_event: "New directory created. Adds a     *)
(* recursive watch on the directory and all its subdirectories".           *)
(***************************************************************************)
WatchesTree == Settled => \A d \in exists : wdOf[d] # 0
=============================================================================
