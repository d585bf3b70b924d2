# uresourced in TLA+

uresourced gives the users who sit in front of a machine a protected share of
its memory and of its CPU and I/O time.  A system daemon follows
systemd-logind and tells systemd what each user's slice may have; a user daemon
follows the applications of one user and boosts those in use; a helper,
cgroupify, gives every process of a unit a cgroup of its own for systemd-oomd.

All three are small single threaded event loops.  What is hard about them is
outside: files that logind rewrites while they are read, D-Bus calls that are
answered later or never, a cgroup tree that systemd and the kernel change
between any two system calls, events of three sources about one application,
daemons that stop and start.  The modules model each loop completely in its
control and put that outside next to it, free to move whenever it really can.

## Inventory

| Component | State | Operations | What is hard | What makes it correct |
|---|---|---|---|---|
| Login monitor, `src/r-sd-login.c` | the lists of all and of graphical users, the 100ms timer | `logind_changed`, `logind_quiet` (a dozen reads), `"changed"` | torn reads, debouncing, failing reads | no change is lost; the lists converge to logind's |
| System manager, `src/r-manager.c` | lists of the last update, `pending_calls`, bus, name, object | bus, name, `Update`, change, answer, stop, flush | differential updates, call order, accounting, shutdown, restart | systemd ends up with what logind says, on the way user.slice has the share of those protected below it, and a stop ends when and only when nothing is pending |
| `src/main.c` | the main loop | run the system or the user part, signals, the user daemon's `Update` call | the race between login and the user daemon, a stop between any two callbacks | who sits at the machine is protected, memory is delegated in the end |
| Application monitor, `src/r-app-monitor.c` | watches, two maps, the table of applications | recursive scan, `IN_CREATE`, `IN_DELETE`, `IN_ATTRIB` | scan and queued events overlap; paths are used again | the mirror follows the tree and leaks nothing |
| Application policy, `src/r-app-policy.c` | weights, D-Bus proxy | `"changed"`, proxy ready, stop | the proxy arrives later; the range of weights | an application has the weight of its focus and boosts; what was raised is reset |
| PipeWire and game monitors, `src/r-pw-monitor.c`, `src/r-game-monitor.c` | boost flags in the application table | node states, GameMode signals | a process that is gone when its boost should be; one flag for many streams | boosts are taken back |
| cgroupify, `cgroupify/cgroupify.c` | event sources of subgroups | move, reap, timer | forks, exits, pid reuse between system calls | every process ends up alone, nothing leaks, it ends with the unit |
| Configuration, `config_get_memory`, `read_config` | amounts and weights | parse | units, 64 bit arithmetic, defaults | documented values mean what they say |
| `uid_cmp`, `src/utils.c` | none | order of uids | 32 bit difference | sorted lists can be searched |

Interaction: the login monitor emits `"changed"` to the manager; the user
daemon calls the manager's `Update` over D-Bus; the manager calls systemd.  The
application monitor, the PipeWire monitor and the game monitor write one table of
applications and emit `"changed"` to the policy, which calls the user's systemd.
cgroupify talks to the kernel only.

## Modules

Each component has one module with its state, its environment, its
specification and its properties; `MC*` modules give the constants for TLC and
`*Proofs` modules hold the theorems.  Operators with a comment that begins with
"Mutant" are deliberately wrong variants of the definition that follows them.
They are used by no specification: put in the place of that definition they must
make a property fail, which shows that the property depends on it.

    UidOrder, ManagerConfig        arithmetic of the manager
    ManagerData                    both with RManager: its arrays and amounts
    SdLogin, RManager              login monitor; manager
    SystemDaemon                   both in one main loop   --implements-->  Protection
    AppMonitor                     the mirror of app.slice
    AppWeights, AppPolicy          policy, PipeWire and game monitors, the table
    Cgroupify                      cgroupify

### SdLogin

`session` and `known` are logind's truth, `mon` says that the monitor's file
descriptor is readable, `mon_delay` that the timer is armed.  A pass of
`logind_quiet` is `LogindQuiet` (or the start), `GetSeats`, a `VisitSeat` for
each seat, a `VisitSession` for each session listed, and `GetUids` or
`QuietFails`; logind may change anything between them.  The uid and the activity
of a session are read in one step: a session's uid never changes.
`complete` is a history variable: no read of the last pass failed.

* `NoLostChange`: outside a pass, lists that differ from logind are due to be
  read again.  `PassSound` is the inductive strengthening: unless the descriptor
  has been marked since, the users found so far are those of the active sessions
  visited so far.
* `Converges`: once logind is quiet the lists are, and stay, logind's.

Both except passes in which a read failed.  The code does not try again; after a
failing `sd_get_seats` the manager takes everybody to be gone until logind's
next change.

### RManager

Each callback of `r-manager.c` is an action, named after it.
`UpdatUserAllocations` (the name is the code's) makes the groups of calls in the
order of the code; calls of one loop concern different units and form a group
(`NewCalls`).  `calls` is the D-Bus queue to systemd, which serves or refuses
one call at a time; the answer (`SetUnitResourcesCb`) comes at its own time,
also before systemd has served the call, as it does after the timeout.
`pending_calls` is the code's counter; `awaiting`, `notifies` and `unanswered`
say what really is outstanding.  A callback dispatched between `quit_mainloop`
and the end of the loop could as well have come before it, so callbacks happen
while `loop = "running"`.

The login monitor's lists change here by themselves, to any lists; with
`AllowTorn` also to ones in which a graphical user is not among all users, which
a torn read may give.  A stop revokes from `all_users` only, so the properties
about what a stop leaves speak of stops without torn lists.

* `NoOvercommit`: while the calls of several updates are on their way, user.slice
  always has at least the share documented for the users protected below it,
  min(n * ActiveUser's memory, MaxUsersMemory) for n of them: it is raised before
  them and lowered after.  It bounds the order of the calls and not their sum: once
  the maximum bites, the users' own amounts exceed user.slice, in the run 4 units
  below 3.
* `Converged`: when everything is served systemd holds what the login monitor
  says.  `Delegated`: and `user@.service` has the memory of every graphical user
  whose daemon has made its `Update` call, in whatever order login, cgroup and
  call come and whether or not the call found the system daemon.
* `PendingBalance`, `NothingAfterExit`: the account, and the assertion of
  `r_manager_finalize`.
* `StopRevokes`, `ShutdownWithBus`: what a stop leaves, and that it ends.

Calls that systemd refuses are only logged by the code: the properties speak of
units whose latest call was not refused.  `CPUWeight` and `IOWeight` travel with
`MemoryMin` and `MemoryLow` and are not modelled.

### UidOrder, ManagerConfig and ManagerData

Two pure modules say why `RManager` may take arrays for sets and amounts for
numbers.  `UidOrder` has `uid_cmp` with its 32 bit difference, sorting and the
binary search; `SearchIsMembership` (in `ManagerData`) says that the searches of
`updat_user_allocations` find exactly the members of the lists, for every set of
uids less than 2^31 apart.  Further apart the comparison turns round.
`ManagerConfig` has `config_get_memory` with its units, errors and 64 bit
wrap-around, `read_config` with the defaults of the session slice, and
`set_user_slice_resources`; `ShareAsDocumented` compares them with the comments
of `data/uresourced.conf.in` in numbers without a width.

### SystemDaemon and Protection

`SystemDaemon` puts `SdLogin` (as an `INSTANCE`) and `RManager` into one main
loop, as `main.c` does: `Emit` is the joint step in which the end of a pass hands
its lists to `active_users_changed_cb`, and no callback of the manager comes
within a pass.  The user daemon's `Update` reaches the manager here as well.

* `RestIsRight`: a daemon with nothing left to do has protected exactly the users
  who sit at the machine.  `EndToEnd` is the same as liveness, from logind's
  files to systemd.
* `Protects` is refinement: the daemon implements `Protection`, the abstract
  specification.  There a user is *owed* protection while seated, may be
  forgotten when away, and is protected only while owed.  The refinement mapping
  takes `owed` to be those whom logind, one of the four lists or a call on its way
  still names.  So no order of torn passes, forced updates and late calls protects
  a user from nowhere, or again after everybody forgot.

### AppWeights and AppPolicy

`AppWeights` is the arithmetic: `read_config` of the policy with GLib's `CLAMP`,
and the weight of an application.  `AppPolicy` has the three sources of events in
front of the policy: inotify's events of a unit (`inotify`, in their order),
PipeWire's on one queue (`pw`), GameMode's signals (`signals`).  `node` is the
truth of PipeWire, `bound` and `binding` the daemon's requests; a stream that is
bound is told with its state of that moment.  An event of the last two names a
process, and `Found` is `get_unit_cgroup_path_from_pid`: the process must still
be there when the event is handled.  `timestamp` and `boosted` are the table
`app_info_map`, `calls` the `SetUnitProperties` calls, `proxy` and `gproxy` the
proxies that arrive at some time or never.  `sent` and `missed` are history
variables: the applications a call was made for, and those something happened to
that no event tells.

* `PolicyFollows`: when everything is handled, the weight is what focus, streams
  and games ask for.
* `StopResets`: after the daemon has gone, what it had raised is back at the
  default, but for an application whose `IN_ATTRIB` was still to be read.  Its entry
  may have the new timestamp already, by a silent read, and the stop then makes no
  call for it (`r-app-monitor.c:298`).
* `Forgotten`: late events do not bring back an application that has gone.
* `WeightsInRange`: systemd is never asked for a weight it refuses.

What `missed` excepts is a list of what the daemon is not told, does not act on or
takes wrongly: a process that ends with an event on its way, a stream that is
removed or fails while running, a PipeWire that dies, signals before the proxy is
there - and, seen by the code but taken for the whole application, one stream or
game of several that falls idle, is bound while idle, or ends (one flag stands for
them all, see the findings).

How the table follows the directories is `AppMonitor`'s matter, with its scan and
its watches; `AppPolicy` takes the watches of the units right below app.slice as
given.

### Cgroupify

A program counter `pc` names the next system call, and `Fork`, `Exit` and
`UnitRemoved` interleave with all of them.  `where` is the cgroup of each
process, `dirs` the subgroups, `watch` and `pending` the event sources; `used` and
`reused` are the pids that have been given and given again.  The kernel lists the
processes of a cgroup in no particular order, so a read returns any bufferful of
those that are there.  A zombie cannot be moved and does not populate a cgroup, as
a process that is gone.

* `NoLeak`: apart from the one in hand every subgroup is watched and, when
  empty, due to be reaped, and every source without a subgroup is due to go.
* `NeverFails`: no fork or exit makes cgroupify give up, but for a `mkdirat` that
  meets the subgroup of an earlier process with the same pid.
* `EventuallyIsolated`, `Quits`: the purpose, once the unit stops forking, and
  the end.

### AppMonitor

`exists` is the tree, `wdOf` the kernel's watches, `queue` the inotify queue with
its merging of equal neighbours.  A scan is `VisitDir`, `OpenDir`, `NextName` in
turn with changes of the tree in between; the recursion of the code becomes the
set `listed` of names still to visit, in any order.  `xattr` is
`xdg.inactive-since`, which a new directory does not have until the desktop's shell
sets it; any other attribute of any directory may change as well, and is reported
alike (`SetAttr`).  `app_info` stands for the timestamp (focused or not) that the
table holds, of applications and of the slices an `IN_ATTRIB` was about.
`Timestamp` is what `r_app_monitor_get_app_info_from_path` makes of the xattr:
without one a new entry has the time of day and one that is there keeps what it
has.  `killed` is a history variable: the monitor has removed the live watch of a
directory that is still there.

* `NoWatchLeak`: the maps are inverse to each other and know every live watch.
* `WatchesUnlessKilled`, `ForgetsUnlessKilled`, `PolicyCurrent`: when all events
  are handled everything is watched, recorded and forgotten as it should, as long
  as no live watch was removed and the kernel has a watch for every path (9 of them
  in `app_monitor`; with fewer, a directory whose `IN_CREATE` finds none is not
  tried again).  The last two take that no path is used again; the first takes it
  only for an application whose xattr was never set, whose entry may be that of an
  earlier directory.
* `Settles`: scans end and events run out.

## Runs

| Run | Instance | Shows |
|---|---|---|
| `login_monitor` | 3 users, 2 graphical seats and another, 4 sessions, 3 changes, 1 failing read | `TypeOK`, `NoLostChange`, `PassSound`, `Converges` |
| `manager` | 2 users (symmetric), 2 events, 1 start; uids of 4 bits; amounts of 6 bits, all files of up to 2 keys | `TypeOK`, `PendingBalance`, `NothingAfterExit`, `NoOvercommit`, `StopRevokes`, `Converged`, `SearchIsMembership`, `ShareAsDocumented` |
| `manager_restart` | 1 user, torn lists, 1 event, 1 refusal, 1 crash, 2 starts | `Converged`, `Delegated`, `NoOvercommit`, `ShutdownWithBus` |
| `manager_no_bus` | 1 user, no event | `ShutdownCompletes` is violated |
| `cgroupify` | 3 pids, used again, 3 forks, 1 watch that fails | `TypeOK`, `NoLeak`, `NeverFails`, `EventuallyIsolated`, `Quits` |
| `app_monitor` | 3 directories, each in the one before, made again, 6 changes | `TypeOK`, `NoWatchLeak`, `WatchesUnlessKilled`, `ForgetsUnlessKilled`, `PolicyCurrent`, `Settles` |
| `app_monitor_killed` | 2 directories, 2 changes | `WatchesTree` is violated |
| `app_monitor_limit` | 2 directories, 2 watches | `Settles` is violated |
| `app_policy` | 1 application with 2 processes, each a stream and a game, 5 changes | `TypeOK`, `WeightsInRange`, `PolicyFollows`, `StopResets`, `Forgotten` |
| `app_policy_streams` | the same | `BoostWhilePlaying` is violated |
| `system_daemon` | 2 users, 2 seats, 1 change of logind, 1 of the user daemons, torn lists | `RestIsRight`, `Protects`, `EndToEnd` |
| `system_daemon_stop` | 2 users, 2 seats, 2 changes of logind | `StopDisables` is violated |

Why the bounds are enough.  A lost change needs one change before and one after
the read of its file; three changes and two seats give every order of them in a
pass.  An update of the manager compares two states of each user, so two users
show one going while another comes, and two events a second update made while
the calls of the first are queued; with two users at 2 units of memory each and 3
for user.slice the limit bites.  A restart needs one user: what differs is the
memory of the old and the new daemon, not the number of users.  A leak of
cgroupify needs a process that exits within the move and at most one that forks
before it; a mix-up of two processes with one pid needs a child that outlives its
parent, for which the third pid and the third fork leave room.  In the
application monitor what happens to a directory depends on it, its parent and its
children: a chain of three has each of them.  The removal and new creation of one
while the scan is at another is four changes; an entry that outlives its directory
takes six (the parent removed and made again under the scan, the child made,
focused, removed and made again), and without its exception for the unset xattr
`WatchesUnlessKilled` fails in this run.  Directories side by side share the queue
only; they are the proof's.  Applications share nothing in `AppPolicy` but the two
queues, and an event of another application leaves this one alone: one is enough,
and two processes with a stream and a game each make every way of sharing its
flags.  Five changes are a start, two changes of one source, one of another and an
exit.  The numbers of `WideFile` are out of range where they can be, and all four
sums of a weight and a boost differ.  Six bits hold every case of the amounts: in
range, clamped, wrapping in the product with a unit and in the product with the
users.  In `system_daemon` one change of logind, at any point of a pass or
between two, next to the state the daemon starts in gives a torn pass, a second
pass and calls of two updates; more changes are `SdLogin`'s and `RManager`'s own
runs, and, for `Protects`, the proof's.

User names are interchangeable, and symmetry is used in `manager` only, which has
invariants only.  Every run but those of the login monitor and the application
monitor really may stop (a daemon that has exited and is not started again), and
these two may when the bound on changes is used up; `CHECK_DEADLOCK` is off for
that reason.

Fairness.  `WF(Monitor)` of the login and application monitors is the GLib main
loop, which dispatches a ready source.  `FairSpec` of the manager assumes it of
answers, destroy notifications, stop and flush only: every call ends at the
latest by its 1000ms timeout; nobody has to log in, and the bus need not be
there.  `SystemFairness` assumes that the main loop goes on with the monitor's
callbacks, with an `Update` that has arrived and with a stop that was asked for,
and that systemd serves its calls; that the daemon is on the bus is a premise of
`EndToEnd` and not assumed.  `FairSpec` of cgroupify assumes that system calls
return (`WF(Step)`) and that neither the timer nor the subgroups' sources starve
(`SF`), since sd-event dispatches pending sources of one priority in the order in
which they became pending.  Nothing is assumed of logind, the unit or the tree.

## What the runs found

* A manager that never got a bus connection cannot be stopped gracefully: its
  stop counts a call that GDBus refuses without an answer, and the flush waits
  for ever (`manager_no_bus`).
* A directory that the scan of its parent and the queued event both report is
  added twice with one watch descriptor, which the second time is taken for an
  old one and removed (`app_monitor_killed`); what happens below is then missed,
  so an application that goes is never forgotten.
* A watch that cannot be added makes the scan loop for ever (`app_monitor_limit`).
* One flag stands for all streams of an application: a second stream that is
  bound while suspended, or falls idle, takes the boost of the one that plays
  (`app_policy_streams`).
* `r_manager_stop` walks the list of users only.  A user whose session was read
  and who had left when the users were read is in the other list, was granted
  memory, and keeps it when the daemon stops before the next pass
  (`system_daemon_stop`).

More are visible as exceptions the properties have to make.

* After a crash, a daemon that starts with nobody graphical does not reset
  user.slice, since it compares with its own empty list: `Converged` speaks of
  user.slice after a crash only when somebody is graphical.
* cgroupify takes a subgroup's name to be free (`cgroupify.c:201`).  With reused
  pids it is not, and a first pass that meets one fails: `NeverFails` excepts
  that `mkdirat`, and only for a pid that was used before.  Two subgroups that each
  hold a process named like the other one stay so: `EventuallyIsolated` excepts the
  units this has happened to.
* An application that is focused before there is a proxy, or before its directory
  is watched, gets no call until something else happens to it: `PolicyFollows` and
  `StopResets` speak of applications a call was made for.
* An entry of the application table keeps its timestamp when the directory has no
  xattr (`r-app-monitor.c:278-282`).  A directory that is removed and made again
  while nobody watches its parent, and is then found by the scan, inherits the -1
  of its predecessor and passes for focused until its xattr is set:
  `WatchesUnlessKilled` excepts the unset xattr once a path has been used again.
* A default weight above the active one plus the boost leaves the range, since the
  boost is clamped against the active weight: `WeightsInRange` excepts it.
* A weight that is missing in `[ActiveUser]` is 0 and not "ignored", which
  `r_manager_init` had set (`r-manager.c:293`, `:409`), and a negative percentage is
  100%: `ShareAsDocumented` speaks of amounts that are not negative.

## Theorems

Proved with TLAPS for all values of the constants that the named assumptions
allow: finitely many users, natural amounts and bounds, functions with their types;
for the manager's arrays, that all uids are less than 2^31 apart (`DataAssumption`).

* `SdLoginProofs!TypeCorrect`, `PassIsSound` (`[]PassSound`) and `NothingLost`
  (`[]NoLostChange`).  `NoLostChange` says nothing about a pass in progress, so it
  is not inductive; `PassSound` adds what the pass must have got right so far.
  Together they are: a change of logind marks the descriptor, which excuses the
  pass, and without one each visit moves a session from `ToVisit` to `Visited` with
  its owner.
* `RManagerProofs!TypeCorrect`: types, component by component.  `UpdateType`
  is the lemma about `UpdatUserAllocations`: it queues well-formed calls and
  counts each one it makes.
* `RManagerProofs!Balance` (`[]PendingBalance`) and `NothingPendingAfterExit`
  (`[]NothingAfterExit`).  The inductive invariant `IInv` adds that the object is
  registered only with a connection (or registering it twice would count once)
  and that after the stop neither name nor object is held.  Then a flush that sees
  `pending_calls <= 0` sees a sum of natural numbers that is 0, so each is.
* `RManagerQueueProofs!NeverOvercommitted` (`[]NoOvercommit`), `UpdatesConverge`
  (`[]Converged`), `MemoryIsDelegated` (`[]Delegated`) and `StopTakesBack`
  (`[]StopRevokes`): what the D-Bus queue does to systemd, for any number of users,
  amounts, torn lists, refusals and crashes.  See below.
* `CgroupifyProofs!TypeCorrect`, `NothingLeaks` (`[]NoLeak`) and `NothingFails`
  (`[]NeverFails`).  `NoLeak` excepts the subgroup in hand, so it is not inductive
  alone: `LeakInv` adds that processes are only in subgroups that exist (`Placed`)
  and that no process is in a subgroup in the making, so that the `unlinkat` after
  a failed watch does remove it (`InHand`).  `NameInv` says what a name tells: a
  pid given out once is in no subgroup but its own, and the pids of a pass's buffer
  are used and differ (`Past`, `Named`, `Distinct`), so a `mkdirat` that fails met
  a pid that was given out again.  `PassInv` is what a pass knows of the cgroups
  when it is about to make its decisions.
* `SystemDaemonProofs!Implements` (`SystemSpec => Protects`): the refinement.  The
  invariant `SInv` has the types of lists and queue and that a pass looks at
  graphical seats only; under it each step maps to a step of `Protection` or leaves
  it alone.  The two facts that matter are `UpdateAsks`, an update asks to protect
  graphical users only, and that a visit of a session adds an owner who is seated
  at that moment.  Everything else only forgets.
* `SystemDaemonProofs!RestsRight` (`[]RestIsRight`): from logind's files to systemd.
  It joins the two components' invariants: `SdLoginProofs`, taken with `INSTANCE` for
  the composition's variables, says that the monitor's copy is right or due to be
  read again; `RManagerQueueProofs` that the calls on their way end in what the
  manager knows; and `Linked` that between two passes the manager has the monitor's
  copy.  `Linked` must be false inside a pass, when the copy is emptied and the
  manager still has the old one: that is why it speaks of `pc = "idle"` only, and
  why it matters that no callback of the manager comes inside a pass.
* `ManagerDataProofs!UidCmpOrders`, `UidCmpTellsApart`, `UidCmpTurnsRound`: `uid_cmp`
  orders like the numbers within any 2^31 of them, never takes two users for one,
  and turns round beyond.
* `ManagerDataProofs!MembersFound` (`FindsMembers`) and `ListsSearched`
  (`[]SearchIsMembership`): the arrays are as good as sets, for any width.  Two
  recursions have to be solved.  `Lists` says that an array holds some users, each
  once, in order; every set of users has such an array, since one user can always be
  inserted (`InsertLists`), and only one (`OneList`): so these arrays solve the
  recursion of the fold, and whatever else solves it lists the users as well
  (`SortedLists`).  `SearchFinds` does the same for the binary search: whether the
  target is in a half solves it.  Each induction looks at the smallest case that is
  wrong (`SmallestOf`).
* `ManagerDataProofs!ReadAsDocumented` (`AsDocumented`) and `ShareDocumented`
  (`[]ShareAsDocumented`), for any file, any number of users and any width: what fits
  is read as it is in numbers without a width, and a percentage always fits since a
  machine's memory does, a hundred times (`ConfigAssumption`).
* `AppPolicyProofs!TypeCorrect`, `InRange` (`[]WeightsInRange`) and `Forgets`
  (`[]Forgotten`).  `InRange` rests on `ReadConfigBounds`, for any file active
  weight and boost together stay in range, and on `CallsInv`, that every queued
  weight was computed from these.  For `Forgets`, `GoneInv` adds that an entry of a
  unit that has gone waits for its "delete", and that a flag has an entry: without
  the second half the stop could make an entry of a flag.
* `AppPolicyProofs!Resets` (`[]StopResets`).  What is to be right after the stop is
  the last call about each application, so `AskInv` says of each call sequence, at
  any moment, that its last call asks for the weight of the application's entry or
  an "attrib" is on its way that will; and that the entry is read before the first
  call is made, so the loop of the stop finds every application it has to reset.  With
  such an "attrib" still to be read at the stop nothing follows, and the property
  excepts it.
* `AppPolicyProofs!Follows` (`[]PolicyFollows`).  With events under way the flags
  are behind; `FlagInv` says they are on their way to be right.  `Said` reads a
  queue as the flag it will leave: what its last event about the application says
  or, without one, the flag itself; and that is what the streams and games now are.
  It takes that the daemon knows of every stream or will (`Known`), that nothing is
  said of a unit that has not started (`Fresh`), and that a process that ends takes
  its streams and games with it, but in an application that has missed something
  (`Mourned`).

* `AppMonitorProofs!TypeCorrect` and `NoWatchLeaks` (`[]NoWatchLeak`).  `MapInv` is
  inductive because a new watch descriptor is above all that the maps hold.
* `AppMonitorProofs!TreeMirrored` (`[]WatchesUnlessKilled`), for any tree and if
  there is a watch for every path (`EnoughWatches`).  `Covered` is what holds while
  scans and events are under way: a directory that is there is watched, or the
  monitor comes to it by the names it has listed, by the directory it is about to
  open, by a "create" with the live watch of its parent - or the parent has no watch
  and is itself one the monitor comes to.  With no event left only the last remains,
  and going up ends at app.slice, which has a watch: here `TreeAssumption` is needed.
  `Covered` says the same of the timestamps: an application has an entry with that of
  the xattr, if it is set, or an "attrib" or a visit is still to come.  Of an xattr
  that is not set `EntryInv` says that the entry holds no -1, which is so while no path
  is used again: a path that was never used has no entry (`Fresh`), and a directory
  does not lose its xattr (`Unmarked`).
* `AppMonitorProofs!GoneForgotten` (`[]ForgetsUnlessKilled`) and `PolicyToldLast`
  (`[]PolicyCurrent`), under `EnoughWatches` as well.  `Once` says that whatever the
  monitor has noted of a directory that is gone, a "delete" on its way takes away,
  with a watch the maps still know because the parent's own "delete" comes later;
  and that whoever is there and is noted, listed or reported has a parent with a
  watch, so that there will be such an event.  A path that is used a second time
  breaks both.  `ToldRight` is the same for what the policy was told.

The argument of `RManagerQueueProofs` in a few lines.  systemd may serve a call or
refuse it, and the calls of one group (one loop of the code) in any order, so the
queue does not have one outcome.  `Plan` reads it as a sequence of states of
systemd, one after each group: the first is what systemd holds, the last what the
code believes it will hold, and `Leads` says that a group takes each to the next,
every call of a group telling its unit the same as the state that follows it.
`QueueInv` says that such a plan exists, that in each of its states user.slice has
at least the share of the users protected in it (`Within`, with the maximum), that
its first is what systemd holds but for the units whose latest call was refused, and
that its last is `Settled`, what the lists of the last update ask for.
Two neighbours of a plan differ in units that only rise or only fall together with
the limit above them, which is what the order of the code's loops is for: then
whatever part of a group has been served also fits (`FitServed`).  A served call
moves the first state along (`ServeStep`); an update and a stop append their groups
to the last state (`UpdatePlan`, `StopPlan`, each with one lemma for a loop of the
code); a crash leaves a plan of one state, of which nothing is asked but that it
fits.  With the queue empty the plan has one state, which is both what systemd
holds and what was asked: `Converged`, `Delegated` and `StopRevokes`.  `Control`
has the facts about the manager's own variables that this needs, such as that the
lists are empty after a stop.

What is only model-checked is liveness, which needs `ENABLED`, and what the
violation runs show.

## Not modelled

The drop-in file of the session slice, unit files, the D-Bus policy: data, or I/O
without state.  The helpers that parse `/proc`, cgroup paths and unit names: text
without state; what they need is modelled where they are called (`Found`).  An
overflow of the inotify queue, after which the mirror and the tree differ and
nothing recovers.  A process of another unit that gets a pid cgroupify has just
read: the code could not tell it from its own.  In the policy, a pid that another
process has by the time its event is handled, and a PipeWire node without
`application.process.id` (`r-pw-monitor.c:114`), whose pid is then 0 and finds no
application.  A configuration file that cannot be read: the built-in values are
used.

## Plan

Done, the most important first: `SdLogin`, `RManager`, `Cgroupify`, `AppMonitor`,
`AppPolicy` with its weights, `SystemDaemon` and `Protection`, `UidOrder`,
`ManagerConfig`, `ManagerData`; and the proofs of the login monitor, of the manager
with its queue and its data, of their composition and its refinement, of cgroupify,
of the policy and of the application monitor.  To come:

1. The composition of `AppMonitor` and `AppPolicy` over the table they share, if
   it stays small enough for TLC.
