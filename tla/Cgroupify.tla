------------------------------ MODULE Cgroupify ------------------------------
(***************************************************************************)
(* cgroupify/cgroupify.c: a helper that moves every process of one unit    *)
(* into a cgroup of its own, named after its pid, so that systemd-oomd     *)
(* kills single processes of the unit.                                     *)
(*                                                                         *)
(* It is one thread, and what is hard about it is the kernel: processes    *)
(* fork, exit and have their pids reused between any two of its system     *)
(* calls.  Every system call that touches the cgroup tree is therefore an  *)
(* action of its own.  A zombie cannot be moved and does not populate its  *)
(* cgroup; it is the same here as a process that is gone.                  *)
(***************************************************************************)
EXTENDS Naturals, Sequences, FiniteSets

CONSTANTS
  Pids,        \* the pids of the unit's processes, which name their cgroups
  root,        \* the unit's own cgroup
  gone,        \* where a process is that does not exist
  First,       \* the sets of processes the unit may have at first
  Chunk,       \* pids that fit into the buffer for cgroup.procs
  MaxForks,    \* bound on forks
  MaxFailures  \* bound on the inotify watches that cannot be added

ASSUME CgroupifyAssumption ==
  /\ IsFiniteSet(Pids)
  /\ root \notin Pids /\ gone \notin Pids /\ root # gone
  /\ First \subseteq SUBSET Pids
  /\ Chunk \in Nat \ {0, 1}
  /\ MaxForks \in Nat /\ MaxFailures \in Nat

VARIABLES
  where,    \* kernel: the cgroup of each process
  used,     \* kernel: pids that were given out
  reused,   \* kernel: pids that were given out more than once
  dirs,     \* kernel: the subgroups that exist
  unitUp,   \* kernel: the unit's cgroup exists
  watch,    \* the event sources of subgroups
  pending,  \* those with an event to be dispatched
  pc,       \* the system call cgroupify makes next
  sub,      \* the cgroup the current pass moves away from
  todo,     \* pids read from it and not yet handled
  found,    \* a pid of this round had to be moved
  cur,      \* the subgroup being made or reaped
  failed,   \* moving into it failed
  clashed,  \* history: mkdirat failed for a pid that was used again
  namelist, \* subgroups the timer's pass has still to visit
  forks, failures   \* counters, bounded by the constants

kernelVars == <<where, used, reused, dirs, unitUp>>
eventVars  == <<watch, pending>>
passVars   == <<sub, todo, found, namelist>>
moveVars   == <<cur, failed, clashed>>
counters   == <<forks, failures>>
vars == <<kernelVars, eventVars, pc, passVars, moveVars, counters>>

Groups == Pids \cup {root}
Alive(p) == where[p] # gone
Populated(g) == \E p \in Pids : where[p] = g

(* What one read of cgroup.procs may return: a bufferful of the group's    *)
(* processes, of which the kernel promises no order.                       *)
InGroup(g) == {p \in Pids : where[p] = g}
Fitting(n) == IF n < Chunk THEN n ELSE Chunk
Listings(g) ==
  {list \in [1..Fitting(Cardinality(InGroup(g))) -> InGroup(g)] :
     \A i, j \in DOMAIN list : list[i] = list[j] => i = j}

Init ==
  /\ used \in First /\ reused = {}
  /\ where = [p \in Pids |-> IF p \in used THEN root ELSE gone]
  /\ dirs = {} /\ unitUp = TRUE
  /\ watch = {} /\ pending = {}
  /\ pc = "open" /\ sub = root /\ todo = <<>> /\ found = FALSE
  /\ cur = root /\ failed = FALSE /\ clashed = FALSE
  /\ namelist = {}
  /\ forks = 0 /\ failures = 0

-----------------------------------------------------------------------------
(***************************************************************************)
(* The kernel and the unit.  A group that becomes empty, or stops being    *)
(* so, has its cgroup.events modified, which marks its event source.       *)
(***************************************************************************)
Modified(G) == pending' = pending \cup (G \cap watch)

Fork(p, child) ==
  /\ forks < MaxForks
  /\ Alive(p) /\ ~Alive(child)
  /\ forks' = forks + 1
  /\ where' = [where EXCEPT ![child] = where[p]]
  /\ used' = used \cup {child}
  /\ reused' = reused \cup ({child} \cap used)
  /\ UNCHANGED <<dirs, unitUp, eventVars, pc, passVars, moveVars,
                 failures>>

Exit(p) ==
  /\ Alive(p)
  /\ where' = [where EXCEPT ![p] = gone]
  /\ Modified({g \in Groups : where[p] = g /\ \A q \in Pids \ {p} : where[q] # g})
  /\ UNCHANGED <<used, reused, dirs, unitUp, watch, pc, passVars, moveVars, counters>>

(* All processes are gone and systemd removes the unit's cgroups. *)
UnitRemoved ==
  /\ unitUp
  /\ \A p \in Pids : ~Alive(p)
  /\ unitUp' = FALSE
  /\ dirs' = {}
  /\ Modified(dirs)
  /\ UNCHANGED <<where, used, reused, watch, pc, passVars, moveVars, counters>>

Kernel ==
  \/ \E p, child \in Pids : Fork(p, child)
  \/ \E p \in Pids : Exit(p)
  \/ UnitRemoved

-----------------------------------------------------------------------------
(* move_pids_to_subgroups: its loop, and what follows on its return. *)

Returned(ok) ==
  pc' = IF sub # root THEN "next" ELSE IF ok THEN "enable" ELSE "failed"

(* open_procs; the cgroup may have disappeared. *)
OpenProcs ==
  /\ pc = "open"
  /\ IF unitUp /\ sub \in dirs \cup {root} THEN pc' = "read" ELSE Returned(FALSE)
  /\ UNCHANGED <<kernelVars, eventVars, passVars, moveVars, counters>>

(* One buffer of pids; a cgroup removed since it was opened is an exit(1). *)
ReadProcs ==
  /\ pc = "read"
  /\ IF unitUp /\ sub \in dirs \cup {root}
     THEN /\ pc' = "mkdir"
          /\ todo' \in Listings(sub)
          /\ found' = FALSE
     ELSE pc' = "failed" /\ UNCHANGED <<todo, found>>
  /\ UNCHANGED <<kernelVars, eventVars, sub, namelist, moveVars, counters>>

(* Mutant: one round must do. *)
EndOfOnlyRound ==
  /\ pc = "mkdir"
  /\ todo = <<>>
  /\ Returned(TRUE)
  /\ UNCHANGED <<kernelVars, eventVars, passVars, moveVars, counters>>

(* The buffer is through: once more, if something was found in it. *)
EndOfRound ==
  /\ pc = "mkdir"
  /\ todo = <<>>
  /\ IF found THEN pc' = "open" ELSE Returned(TRUE)
  /\ UNCHANGED <<kernelVars, eventVars, passVars, moveVars, counters>>

(* Mutant: the loop ends at the owner of the subgroup. *)
StopAtOwner ==
  /\ pc = "mkdir"
  /\ todo # <<>> /\ Head(todo) = sub
  /\ todo' = <<>>
  /\ UNCHANGED <<kernelVars, eventVars, pc, sub, found, namelist, moveVars,
                 counters>>

(* A process that gave the subgroup its name stays in it. *)
SkipOwner ==
  /\ pc = "mkdir"
  /\ todo # <<>> /\ Head(todo) = sub
  /\ todo' = Tail(todo)
  /\ UNCHANGED <<kernelVars, eventVars, pc, sub, found, namelist, moveVars,
                 counters>>

(* move_to_subgroup, mkdirat: a directory that exists ends the pass. *)
MkdirAt ==
  /\ pc = "mkdir"
  /\ todo # <<>> /\ Head(todo) # sub
  /\ todo' = Tail(todo)
  /\ found' = TRUE
  /\ IF unitUp /\ Head(todo) \notin dirs
     THEN /\ dirs' = dirs \cup {Head(todo)}
          /\ cur' = Head(todo)
          /\ failed' = FALSE
          /\ pc' = "watch"
          /\ UNCHANGED clashed
     ELSE /\ Returned(FALSE)
          /\ clashed' = (clashed \/ (unitUp /\ Head(todo) \in reused))
          /\ UNCHANGED <<dirs, cur, failed>>
  /\ UNCHANGED <<where, used, reused, unitUp, eventVars, sub, namelist,
                 counters>>

(* sd_event_add_inotify on cgroup.events of the new subgroup. *)
AddInotify ==
  /\ pc = "watch"
  /\ \/ /\ cur \in dirs
        /\ watch' = watch \cup {cur}
        /\ pc' = "write"
        /\ UNCHANGED <<failed, failures>>
     \/ /\ cur \notin dirs \/ failures < MaxFailures
        /\ failures' = IF cur \in dirs THEN failures + 1 ELSE failures
        /\ failed' = TRUE
        /\ pc' = "unlink"
        /\ UNCHANGED watch
  /\ UNCHANGED <<kernelVars, pending, passVars, cur, clashed, forks>>

(* The pid is written to the subgroup's cgroup.procs.  That the process    *)
(* does not exist any more is no error.                                    *)
WriteProcs ==
  /\ pc = "write"
  /\ pc' = "unlink"
  /\ failed' = (cur \notin dirs)
  /\ IF cur \in dirs /\ Alive(cur)
     THEN /\ where' = [where EXCEPT ![cur] = cur]
          /\ Modified({cur} \cup {g \in Groups : /\ where[cur] = g
                                   /\ \A q \in Pids \ {cur} : where[q] # g})
     ELSE UNCHANGED <<where, pending>>
  /\ UNCHANGED <<used, reused, dirs, unitUp, watch, passVars, cur, clashed,
                 counters>>

(* Mutant: an event is delivered for a source that is gone. *)
UnrefOnly(d) == watch' = watch \ {d} /\ UNCHANGED pending

(* The event source of a subgroup and what is pending for it. *)
DisableUnref(d) == watch' = watch \ {d} /\ pending' = pending \ {d}

(* Mutant: a subgroup is left to its event, which may never come. *)
NoUnlink ==
  /\ pc = "unlink"
  /\ IF failed THEN Returned(FALSE) ELSE pc' = "mkdir"
  /\ UNCHANGED <<kernelVars, eventVars, passVars, moveVars, counters>>

(* unlinkat: a subgroup that stayed empty will not send an event. *)
UnlinkAt ==
  /\ pc = "unlink"
  /\ IF Populated(cur)
     THEN UNCHANGED <<dirs, eventVars>>
     ELSE dirs' = dirs \ {cur} /\ DisableUnref(cur)
  /\ IF failed THEN Returned(FALSE) ELSE pc' = "mkdir"
  /\ UNCHANGED <<where, used, reused, unitUp, passVars, moveVars, counters>>

(* main: the memory controller can be enabled when no process is left. *)
EnableMemory ==
  /\ pc = "enable"
  /\ pc' = IF unitUp /\ ~Populated(root) THEN "idle" ELSE "failed"
  /\ UNCHANGED <<kernelVars, eventVars, passVars, moveVars, counters>>

-----------------------------------------------------------------------------
(* The event loop. *)

(* Mutant: the timer does not see that the unit has gone. *)
TimerFiresAlways ==
  /\ pc = "idle"
  /\ pc' = "next" /\ namelist' = dirs
  /\ UNCHANGED <<kernelVars, eventVars, sub, todo, found, moveVars, counters>>

(* move_pids_from_subgroups: the subgroups there are, or the end. *)
TimerFires ==
  /\ pc = "idle"
  /\ IF unitUp THEN pc' = "next" /\ namelist' = dirs
               ELSE pc' = "exited" /\ UNCHANGED namelist
  /\ UNCHANGED <<kernelVars, eventVars, sub, todo, found, moveVars, counters>>

NextSubgroup ==
  /\ pc = "next"
  /\ \/ \E d \in namelist :
          /\ sub' = d
          /\ namelist' = namelist \ {d}
          /\ pc' = "open"
     \/ /\ namelist = {}
        /\ pc' = "idle"
        /\ UNCHANGED <<sub, namelist>>
  /\ UNCHANGED <<kernelVars, eventVars, todo, found, moveVars, counters>>

(* subgroup_inotify_cb is called; it will rmdir. *)
SubgroupInotifyCb(d) ==
  /\ pc = "idle"
  /\ d \in pending
  /\ pending' = pending \ {d}
  /\ cur' = d
  /\ pc' = "rmdir"
  /\ UNCHANGED <<kernelVars, watch, passVars, failed, clashed, counters>>

(* EBUSY: it was not empty, and the source stays. *)
Rmdir ==
  /\ pc = "rmdir"
  /\ pc' = "idle"
  /\ IF Populated(cur)
     THEN UNCHANGED <<dirs, eventVars>>
     ELSE dirs' = dirs \ {cur} /\ DisableUnref(cur)
  /\ UNCHANGED <<where, used, reused, unitUp, passVars, moveVars, counters>>

Step ==
  \/ OpenProcs \/ ReadProcs \/ EndOfRound \/ SkipOwner
  \/ MkdirAt \/ AddInotify \/ WriteProcs \/ UnlinkAt
  \/ EnableMemory
  \/ NextSubgroup
  \/ Rmdir

Next ==
  \/ Step
  \/ TimerFires
  \/ \E d \in Pids : SubgroupInotifyCb(d)
  \/ Kernel

Spec == Init /\ [][Next]_vars

(***************************************************************************)
(* A system call returns, and sd-event dispatches pending sources of one   *)
(* priority in the order they became pending, so neither the timer nor the *)
(* subgroups' sources wait for ever.                                       *)
(***************************************************************************)
FairSpec ==
  /\ Spec
  /\ WF_vars(Step)
  /\ SF_vars(TimerFires)
  /\ SF_vars(\E d \in Pids : SubgroupInotifyCb(d))

-----------------------------------------------------------------------------
(* Every variable has its type. *)
TypeOK ==
  /\ where \in [Pids -> Groups \cup {gone}]
  /\ used \in SUBSET Pids /\ reused \in SUBSET used
  /\ dirs \in SUBSET Pids
  /\ unitUp \in BOOLEAN
  /\ watch \in SUBSET Pids /\ pending \in SUBSET watch
  /\ pc \in {"open", "read", "mkdir", "watch", "write", "unlink", "enable",
             "idle", "next", "rmdir", "exited", "failed"}
  /\ sub \in Groups /\ todo \in Seq(Pids) /\ found \in BOOLEAN
  /\ cur \in Groups /\ failed \in BOOLEAN /\ clashed \in BOOLEAN
  /\ namelist \in SUBSET Pids
  /\ forks \in 0..MaxForks /\ failures \in 0..MaxFailures

(***************************************************************************)
(* No subgroup is forgotten and no event source leaks (NEWS 0.5.4): but    *)
(* for the one being made or reaped, a subgroup that exists is watched, an *)
(* empty one has its event on the way, and a source without a subgroup too *)
(* - in whatever way exits interleave with mkdirat, the watch, the write,  *)
(* unlinkat and rmdir.                                                     *)
(***************************************************************************)
Busy(d) == d = cur /\ pc \in {"watch", "write", "unlink", "rmdir"}

NoLeak ==
  \A d \in Pids : ~Busy(d) =>
    /\ d \in dirs => d \in watch /\ (Populated(d) \/ d \in pending)
    /\ d \in watch \ dirs => d \in pending

(***************************************************************************)
(* cgroupify gives up only when the unit goes away under it, an inotify    *)
(* watch cannot be had, or a pid was reused while the subgroup named after *)
(* it was still there: no fork or exit during the first pass makes mkdirat *)
(* fail for a pid that was given out once, or the enabling of the memory   *)
(* controller fail.                                                        *)
(***************************************************************************)
NeverFails == (pc = "failed" /\ unitUp) => (failures > 0 \/ clashed)

(***************************************************************************)
(* NEWS 0.4.0: "moves every process in a unit into its own cgroup, so that *)
(* a systemd-oomd kill will only act on a single process".  Once the unit  *)
(* stops forking, no two processes share a cgroup and empty ones are gone: *)
(* unless subgroups clashed, also when pids are used again.                *)
(***************************************************************************)
Isolated ==
  /\ \A p, q \in Pids : (Alive(p) /\ p # q) => where[p] # where[q]
  /\ \A p \in Pids : where[p] # root
  /\ \A d \in dirs : Populated(d)

EventuallyIsolated == <>[](Isolated \/ pc = "failed" \/ clashed)

(* NEWS 0.4.1: when the unit has gone cgroupify quits. *)
Quits == ~unitUp ~> pc \in {"exited", "failed"}
=============================================================================
