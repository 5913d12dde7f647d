# A verification project for `linux_module`

The repository is a collection of independent kernel modules and two userspace
programs that measure or demonstrate one kernel facility each: watchdogs that
report the cpu load, `top` in user and kernel space, livepatches, and short
examples of devices, sysfs, sequence files and workqueues. There is no shared
core: every file is a system of its own, and most of them interact only with
the kernel. The interesting ones keep state that several contexts touch: works,
timer callbacks, module init and exit, and the tasks that use a device.

The modules here model those programs in TLA+; TLC checks them on small
instances and TLAPS proves the main results for every value of the constants.

## Inventory

| component | sources | state | operations | what is hard | what makes it correct |
|---|---|---|---|---|---|
| load watchdog, third version | `load_softwdt3.c` | timer, delayed work, dump work, two queues, count, `prev_cpu_usage_stats` | init, feeder, timer callback, dump, exit | three contexts without a lock; a self-arming timer and a self-queueing work against the exit function; a wrapping count | it never stops watching, reports often, gives no false alarm, uses nothing that is freed, prints shares within 0..100 % |
| load watchdog, first and second version | `load_softwdt.c`, `load_softwdt2.c` | as above, usage in a work of the system queue | as above | the callback re-arms on some counts only; exit flushes the work before or after the wrong step | it never stops watching; no work runs after exit |
| shadow variables | `livepatch-shadow-mod.c`, `-fix1.c`, `-fix2.c` | list of dummies, two works, two shadow variables, state of two livepatches | allocate, check, free, exit; enable, reverse, disable, remove a patch | tasks run old and new functions at once; addresses are reused; patches stack | no freed dummy is visited; a saved leak is freed once; a counter belongs to one dummy |
| cpu usage timers | `cpu_usage.c`, `cpu_usage2.c`, `cpu_usage3.c`, `per_cpu_usage.c`, `process_cpu_usage.c` | timer, work, previous times | timer callback, work, exit | `del_timer` without waiting; cpus that go offline; init that fails half-way and returns 0 | nothing runs after exit; sampling goes on; usages within 0..100 % |
| device with a semaphore | `sema/sema_module.c`, `sema/test.c` | semaphore, registration | open, release, init, exit | the device exists before the semaphore; interrupted opens; unload while open | one process at a time; the lock is given back |
| userspace top | `top.c` | two arrays of records, a free list, cpu totals | read, add, print, free | a `/proc` that changes while it is read; reuse of records | no record is lost or shared; deltas come from the same process |
| kernel top | `ste_top.c` | array of records with a capacity, two hash tables, cpu totals | write to the proc file, exit | failed growth; concurrent writers, whose sorts and walks interleave; exit under writers | no write beyond the block; no pointer lost or doubled; every record freed once |
| livepatch callbacks | `livepatch-callbacks-*.c` | state of patch and target modules | callbacks, load, unload | order of callbacks against module load and a reversed transition | callbacks come in pairs |
| ksets, kobjects, devices | `kset-example.c`, `kobject-*.c`, `cdev_driver.c`, `powerkey.c`, `test_input_event.c`, `debugfs_test1.c`, `sysctl_test1.c`, interrupt pair | references, registrations | init, unwinding, exit | failure of the n-th step; calls from the kernel meanwhile; devices that come and go | what was registered is unregistered once and in order; a callback finds what it uses |
| sequence files | `linux_seq.c`, `seq-file-test.c` | position, cursor | start, next, show, stop | several reads of a list that changes | each element once |
| the rest | `kfifo.c`, listings, skeletons | none or local | print | - | - |

`PROJECT.json` lists every file under a component and every hazard with its line.

## Modules

### Watch

The abstract specification of the timer of all three load watchdogs: `stage` (new,
on, closing, off), whether the timer is armed or a timeout is being handled, and the
count. It is kicked while it is on, each expiry counts once and is handled unless its
count is in `Silent`, and what handles it arms the timer again. Closing waits for the
handling and takes the timer off; `Kick` may still come until it is `Closed`, and only
a timer that was kicked in between can be `Lost`, that is expire when nobody is there
to handle it. SoftwdtLoadMonitor implements it with no silent count, LoadWatchdog with
the counts above ten that are no multiple of ten, which is where the first two
versions and the third differ. Queues, works and the memory are hidden.

### SoftwdtLoadMonitor

`load_softwdt3.c` without the arithmetic of the report. Three contexts
interleave: the feeder (`fd`, `ste_softwdt_load_monitor_feed_task`), the timer
callback (`cb`, `ste_softwdt_load_monitor_timeout`) and the exit function
(`mod`); the dump work (`dumping`) is a fourth. Each access of a handler to
shared state is one action, so that every order of two contexts is covered.
`ModuleInit` is one action with its four outcomes: nothing else runs before its
last statement. Kernel services (`mod_timer`, `queue_delayed_work`, `Tick`) are
external and follow the kernel's contract: queueing does nothing while the work
is pending or being cancelled, the `_sync` functions wait for the handler.
Timers hold the time that is left, so no clock grows. `Touch` records the first
access to something freed in `fault`, which stops the machine.

Properties: `ImplementsWatch` (the timer is a watch that is never given up; that no
step leaves a live, watching monitor without timer or callback, `StaysWatched`, is a
consequence), `QuietBound` (never more than seven timeouts without a
report, across the wrap of the `uint32_t` count), `NoFalseAlarm` (a feeder at
most `MaxLag` late keeps the timer of a live module from firing if
`KICK + 2*MaxLag < TIMEOUT`), `FaultNeedsLateKick` (unloading faults only after
a kick that fell between `del_timer_sync` and the end of
`cancel_delayed_work_sync`: the window is real, and it is the only one),
`FeederQuiescent` (no feeder after its cancellation) and, under fairness,
`StarvedKeepsReporting`.

### SoftwdtCpuStats

The unlocked array of the same file. `ste_calculate_cpu_stats` is called by the
feeder and twice by the callback; each read of the kernel's counters and each of
its three stores is an action. The ten cpu times are folded into three sums
(interrupt, idle, rest) since the code uses no others. `Nested` says that the
callback runs on the feeder's cpu: the feeder is queued on cpu 0, which is where
its `mod_timer` arms the timer, so the callback interrupts the feeder and ends
first. `overtaken`, `late_intr` and `mixed` are history variables that name the
two windows in which a printed share may be out of range; `UsageInRange` and
`InterruptInRange` say that there are no others.

### LivepatchShadow

`livepatch-shadow-mod.c` and both of its livepatches. `alloc`, `cleanup` and
`mod` are the places of `alloc_work_func`, `cleanup_work_func` and the exit
function; `Locked` is `dummy_list_mutex`. The livepatch core is external: one
transition at a time, which may be reversed; a task in the middle of a work is
switched by an action of its own; a work that starts may get a kworker of either
kind. A task calls the function of the patch enabled last if it is in force for
that task, else the other's, else the original (`Version`), which is how the
handlers of the core choose. `dummy_alloc`, `dummy_check` and `dummy_free` have
one definition each for all their versions. Addresses are reused, as `kzalloc`
does. Whether a dummy has expired is left open at each check.

`saved`, `behind` and `checks` are history variables. `WalkMeetsLiveDummies`
and `ExitLeavesNothing` are about the list, its mutex and the cancelled works;
`LeakKept` and `LeakOutlivesOnlyUnpatchedFree` say what fix1 is for and that fix2
keeps it; `CounterCountsThisDummy` that fix2's counter is not one of an earlier
dummy at the same address. The last two name the exception the code leaves: a
dummy freed by a version of `dummy_free` that does not know the variable.

### LoadWatchdog

`load_softwdt.c` and `load_softwdt2.c`; `version` says which, since the two share
their feeder, their timer and most of the exit function. Places and kernel
services are as in SoftwdtLoadMonitor. In version 1 the callback hands the usage
to a work of the system queue, which `flush_work` waits for as it is queued or
running at that moment (`barrier`); in version 2 the callback computes the usage
and hands the dump to a queue that `destroy_workqueue` drains. The callback arms
the timer again only for the counts in `Retries`. Time is left out: an armed
timer may fire, and a pending feeder run, at any moment.

Properties: `ImplementsWatch` (the timer is a watch that is given up at the
unreported counts; that a step which leaves a live module without timer and callback
is the callback of a timeout past the tenth that is no multiple of ten,
`LapsesPastTenOnly`, is a consequence), `StarvedFallsSilent` (such a lapse does come
when the feeder is starved: the defect that the third version's callback, which kicks
after each timeout, no longer has) and `FaultNeedsLateKick`, as above, for both exit functions.

### SteTop

`ste_top.c` without the figures it prints. Each process that writes to
`/proc/kernel_top` runs `my_write`: two refreshes with a sleep between them, sort,
show. `pc` is its place, and each place ends with one access to the shared array,
so two writers meet in every order; as in the code the index of an access is the
shared `total`, read again, and the capacity `n_alloc` is raised (`Check`) before
`kmalloc` is asked (`Grow`). Every allocation may fail. `entries` are the pointers
of the array. The sort exchanges two of them in three steps, a read of both and two
stores, in any order of pairs, with comparisons between; the array and length it
was given stay those of the call (`stale`, `todo`). `procs_hlp(NULL)` walks the two
tables node by node: `pos` is the node a walk has reached and will unlink next. A
table is the set of its nodes: buckets are left out, and a node is linked or unlinked
in one step. `records` and `nodes` are what is not freed. `Race` says which overlaps
are excluded from the promises: two refreshes at once, two sorts at once, a growth
under another writer's sort or show, any write under the exit function. Each
of them leads to a fault (TLC finds one for each): two walks free a node twice, two
sorts double one pointer and lose another, and exit frees the doubled one twice.

Properties: `FaultNeedsRaceOrFailedGrowth` (no other overlap does harm: a refresh
under another writer's sort or show fills only records that are there already and
new entries behind those that are sorted; alone, only a growth that found no memory
leads out of the array, which it does because `n_alloc` stays ahead of it) and
`ExitFreesRecords` (unless it raced, unloading frees the records of all refreshes,
each once, not only those of the last refresh, and leaks the nodes of the new table
and nothing else).

### TopProcs

`top.c`, one action for each file of `/proc` it reads. The tasks of the system
end and start between any two of them, and a number may be taken again (`start`
counts how often): a process listed by `readdir` may be gone, or be another one,
when its files are opened. A record says from which task each of its fields was
read (`stat`, `name`, `uid`), its times and one size; all other fields behave
like these. `free_procs`, `old_procs`, `new_procs` and the record in hand are the
places a record can be in. `qsort` is the set of all sorted orders, since the
code's sort is not stable. The actions of the system are taken only where the
next step of top can tell the difference.

Properties: `RecordsOwnedOnce` (each record malloc gave is in exactly one place,
but for those lost when a process ends before its task directory is opened, and
the counters of used and free records agree), `MixedNeedsReuse` (a line with the
fields of two processes needs a number that was taken again, except for a
thread's times), `WrappedNeedsEnd` (a negative delta comes from a number taken
again or a thread that ended), `LargestShown` (the lines shown are the first of
the sorted order and as many as asked for, though unused places are sorted with
them), `DivideNeedsNoDelay`.

### SemaModule and DeviceLock

`sema/sema_module.c` and the processes of `sema/test.c`. Every call of
`hello_init` and `hello_exit` is an action, so that a process can open the device
at any point of either; a process may be interrupted while it waits. The
semaphore is external: a count and a list of waiters, and `up` hands it to the first
of them. As `hello_ops` names no
owner, the module may be removed and loaded again under an open file; `load`
numbers tell the loads apart. `DeviceLock` is the abstract specification: at most
one holder, who is given the lock when it is free and gives it back.
`ImplementsLock` says that SemaModule implements it when `holder` is the set of
processes that have the device of the present load open. `NobodyWaitsForNobody` says
that no wakeup is lost: the count is zero exactly while a process has the semaphore,
and who sleeps in open sleeps for another one that will wake the next. `WaiterServed`
is the liveness of open. A process that opens the device before `sema_init`, or whose
load is gone, faults; that the code has these two windows is a hazard no property denies.

### CpuUsageTimer

`cpu_usage.c`, `cpu_usage2.c` and `per_cpu_usage.c` (`version` 1, 2, 3). `armed`
and `cb` are the timer and the place of its callback, `pending` and `working` the
work, `barrier` the run that `flush_work` waits for. The times of each cpu are
idle and total; versions 1 and 2 use the sum over the cpus, version 3 the lines
of `/proc/stat`, which has lines for the cpus that are online only and whose
numbers the code skips: `Line(k)` is the cpu whose line is taken for entry `k`.
Arithmetic is modulo `Word`, as the code's `unsigned long`.

Properties: `FaultNeedsRunningCallback` (removal faults only when the callback
was running in `del_timer`; TLC finds the fault in all three versions),
`OffNeedsMixed` (a usage outside 0..100 % compares the times of two cpus, which
takes version 3 and a cpu that went off- or online) and `KeepsSampling`. The run
reaches such usages.

### DriverRegistration

The init, exit, connect and disconnect functions of eight example drivers, each a
sequence of calls: what a call registers (`gets`), what is taken back when it
fails (`undo`), what exit takes back. One set of actions runs them all. `Needs`
says what a thing is registered on, `Callable` through which things the kernel
calls the driver and what the callback works with, `Pins` which users keep a
module from being removed. Kernel services take back what they are asked to and
wait for callbacks under way, except `cdev_del` for open files. For powerkey a
second unit, the handle of an input device, is connected and disconnected while
the module is there. `kobject_init_and_add` of `kobject_test.c` is two calls: the first
gives the child its initial reference and cannot fail, the second may.

Properties: `CallbacksLive` (a callback finds what it works with and the text of
the driver) and `Balanced` (a live module has all that its init registers, and all
that was registered is taken back once and after what needs it). Both name the
exceptions the code leaves: `free_irq` with another `dev_id` than `request_irq`'s; the
class of `cdev_driver.c` that is destroyed twice; a character device opened before a
later call of its init fails; `debugfs_test1.c`, live without what an error pointer
stands for; and `kobject_test.c`. That one looks at the result of its last call only,
drops neither its reference to the parent nor the child's initial one (`kobject_del`
does not), and puts on the parent a bare attribute, which the parent's `sysfs_ops`
take for a `kobj_attribute`: they call a pointer read behind it (`test_attr`).
The model has no parameters: the check is exhaustive for these functions.

## Runs

| run | shows | instance |
|---|---|---|
| `softwdt_starved` | with a feeder that may be delayed for ever: refines a watch that is never given up, keeps reporting, unloads safely but for late kicks | interval 2, timeout 4, count modulo 16 |
| `softwdt_punctual` | with a punctual feeder: no false alarm | interval 5, timeout 10, lag 2 |
| `softwdt_cpu_stats` | shares in range but for two windows | 2 cpus, 2 units of time each |
| `livepatch_shadow` | the shadow variables under every order of patches | 2 addresses, counter up to 2 |
| `livepatch_stale` | finding: a livepatch can stop the allocator | 2 addresses, memory never runs out |
| `load_watchdog` | versions 1 and 2: refine a watch that is given up past ten only, that it is, safe unloading but for late kicks | count modulo 16 |
| `load_watchdog_exit` | finding: a work pending when the module is gone | count modulo 12 |
| `top_procs` | records, deltas and lines of top under every change of `/proc` | 3 tasks of 2 processes, 4 sets of options, 5 records |
| `sema_module` | refinement of the lock, no lost wakeup, waiters served | 3 processes, 2 loads |
| `cpu_usage_timer` | removal, sampling and usages of three versions | 3 cpus, 2 ticks each, 3 together |
| `registration` | every failure, removal and callback of eight drivers | none |
| `ste_top` | overlapping writes, failing allocations and an unload | 2 writers, 2 records, 3 nodes, 2 tasks, growth by 1 and a quarter |

Bounds. `KICK` and `TIMEOUT` keep the ratio of the code's 2000 and 4000 ms in
`softwdt_starved`; `softwdt_punctual` takes the smallest values that leave room
for a lag of two ticks. The count wraps modulo 16 instead of 2^32: both end in
the digit 6, so the reporting branches meet the wrap at the same place; ten, the
first multiple of ten, is passed before it. Two cpus let one context be on an
earlier, the same or a later cpu than the other; two units of time are enough
for two snapshots to differ in both directions (a bound in the guard of
`Account`). Two addresses are enough for a reused address next to a live one;
the counter saturates in the model and in its history alike. Two writers make
every race of the code; with a first capacity of one, two tasks make the array
grow from nothing and again from a full one, and leave it larger than a later
total. Two records are what one exchange of a sort needs; with three nodes a table
has two while the other has one. Writers, records and nodes are interchangeable,
and the run uses that symmetry; it checks no liveness.

For top, two processes of which one has two threads make threads and leaders
differ; an array that starts with one place (two for threads) has to grow, three
changes let a task end, come back and end again, and five records are more than
the two samples and a lost one take. Three processes give the lock a holder and
two waiters; the second load is there for what a process keeps from the first.
With three cpus the lines of two cpus move when the one between goes offline, and
with two ticks of one and one of another a usage leaves 0..100 (one cpu was busy for
a tick, the other idle for two); one tick each would never show it. `MCCpuUsageTimer`
adds the bound `MaxSum` on the ticks of all cpus to the next-state relation.
`MaxTicks`, `MaxChanges`, `MaxRecs` and `MaxLoads` are bounds in the guards.

`CHECK_DEADLOCK FALSE` is set where the system may stop: the machine stops at a
fault, and a module that is gone does nothing. `LivepatchShadow` never stops and
is checked for deadlock.

Fairness (`FairSpec` of SoftwdtLoadMonitor): time passes, softirqs are served,
and the worker of the dump is scheduled, on its own queue. The feeder has no
fairness, because a feeder that is not scheduled is what the watchdog is for, and
nobody has to remove the module. LoadWatchdog assumes less: an armed timer that
no feeder run keeps deferring fires, and its callback ends. CpuUsageTimer assumes
the same of its timer, its callback and the works of the system's queue.
SemaModule assumes that a process that can take its next step does: a holder
closes the device, as test.c does after its sleep, and a woken waiter runs; nobody
has to open the device, be interrupted or remove the module.

Every property has a mutant, a variant of a definition kept next to it
(`..._not_sync`, `..._off_by_one`, `..._not_copied`), with which TLC finds the
property violated.

## Findings

`livepatch_stale`: `alloc_work_func` does not schedule itself again when
`dummy_alloc` returns NULL (`livepatch-shadow-mod.c:147`), against the comment
"Allocate new dummies every second" (line 76). The run shows that this does not
take a memory shortage: in the transition of fix1 a dummy made by the new
`dummy_alloc` may be freed by the old `dummy_free`; its shadow variable stays, and
`klp_shadow_alloc` refuses the next dummy at that address. `AllocatorStops` proves
that this is the only way, in every order of the two livepatches.

`load_watchdog_exit`: `load_watchdog_exit` stops the timer before it cancels the
feeder (`load_softwdt.c:202`). A feeder that runs in between arms the timer again;
it fires after `flush_work`, whose comment is "make sure all work is done" (line
205), and its callback schedules the work again, which is pending when the module
is gone. `UnloadIsComplete` proves that it takes such a kick.

## Proofs

All theorems are checked by TLAPS from the named assumptions on the constants.

* `SoftwdtLoadMonitor_proof`: `TypeCorrect`; `WatchNeverLapses` (the action
  property, step by step); `ReportsOften` through `QuietInv`, which makes `quiet`
  a function of the count, the wrap included; `FeederStops` and
  `OnlyALateKickFaults` through `TeardownInv` (what each step of the exit function
  has established) and `LateKickInv` (without a late kick the timer stays off from
  `del_timer_sync` on); `UnloadIsComplete`, which adds `MemoryInv` (both queues and the
  array are freed) and `DumpInv` (with the callback off nobody queues the dump again);
  `TimerIsAWatch`, the refinement of Watch: every step maps to one of its steps or to a
  stutter, `TeardownInv` shows that kicks end when the watch is closed, `LateKickInv`
  that a timer which fires after the unloading is a `Lost` one; `TimelyFeederPreventsAlarm` through `AlarmInv`: the time
  left on the timer exceeds what the feeder may still take to its next kick, in
  each of its places. `NoFalseAlarm` is not inductive: it says nothing of timers.
* `SoftwdtCpuStats_proof`: `TypeCorrect` from `BasicInv` (what each place implies
  about counters and array), `UsageStaysInRange` from `UsageInv` and `ReadInv`,
  `InterruptStaysInRange` from `InterruptInv`, for every number of cpus. These
  order each stored and each read value below the kernel's counter of its cpu,
  and the nested callback's above the interrupted feeder's.
* `LivepatchShadow_proof`: `TypeCorrect`; `WalkInv` says which dummies each place
  of the works holds and gives `NoDummyIsVisitedFreed` and `ExitIsComplete`;
  `ShadowInv` describes addresses with and without a dummy and gives `LeaksAreKept`,
  `OnlyUnpatchedFreeLosesLeaks` and `CountersAreExact`, which are not inductive
  alone because they are silent about the addresses without a dummy. The action
  property `AllocatorStops` follows from the part about those: a refused shadow
  variable is one that the original `dummy_free` has left.
* `LoadWatchdog_proof`: `TypeCorrect`; `LapseIsPastTen` step by step with
  `SilentCount`; `OnlyALateKickFaults` through `OrderInv` (what each step of either
  exit function has established) and `QuietExitInv` (without a late kick the
  callback has ended and the timer stays off, and the work is waited for).
  `UnloadIsComplete` and `TimerIsAWatch` are as for the third version; in the latter
  `RetriesReported` relates the callback's test to the silent counts of Watch.

* `SteTop_proof`: `TypeCorrect`, for any writers, addresses and growth;
  `OnlyRacesAndFailuresFault` and `ExitLeavesNewTableOnly` through `QuietInv`: until
  a race or a fault, `ArrayInv` relates array, capacity and total, and `PlaceInv`
  says what a writer knows in each of its places. `SwapInv` says of an exchange that
  what it has read is still in the array (but for what its own first store replaced),
  although another writer may be filling entries: those are behind the length of the
  sort or not null. `OwnerInv` follows from it: each record is in exactly one entry,
  a half-done exchange excepted, which has one twice and holds the other itself.
  `NodeInv` says the same of nodes, tables and walks, and `FreedInv` that exit leaves
  no record. Neither property is inductive: they say nothing of a state before the
  fault.

* `SemaModule_proof`: `TypeCorrect` and `DeviceIsALock`, the
  refinement: initial states map to initial states, and every step to a step of
  `DeviceLock` or a stutter. Both rest on one invariant: `OneOwner` (one process
  of this load has the semaphore or was granted it, and none while its count is
  positive), `Listed` (who waits is on the list), `NotReady` (nobody waits or has it
  before `sema_init`) and `LoadsPast` (no process has a file of a later load). The
  lock property alone is not inductive: it says nothing of the count. `WakeupsAreKept`
  (`NobodyWaitsForNobody`) is the safety half of `WaiterServed`: whoever waits, waits for a process that has the
  device or was woken to have it. `Queue` (the list holds the waiters of this load, each
  once) and `Token` (a semaphore that is not counted is with an owner) carry it through
  signals out of the middle of the list (`RemoveAt`, `RemoveOnly`).
* `CpuUsageTimer_proof`: `RemovalSafe` and `FlushIsEnough`, for any number of cpus.
  `TimerEnds` says that without a race `del_timer` ends the callbacks; `WorkEnds`
  then relates what `flush_work` waits for to the work, which nobody queues again.
  `SamplingInv` (the callback arms the timer until `del_timer`; without `timer_setup`
  there is neither) gives `SamplingGoesOn`, what `KeepsSampling` needs besides fairness,
  and `UnloadIsComplete`.
  `TypeCorrect` and `UsageIsPercentage` (`OffNeedsMixed`) rest on `PrevInv`: each
  remembered pair of times was read from a clock, that of one cpu or the sum over
  all, which has moved on since by at least as many ticks as idle ticks. A usage
  outside 0..100 then compares two clocks. `OffNeedsMixed` is not inductive: it says
  nothing of what the next sample will be compared with. `SamplesMoveForward` is an
  action property from the same invariant: the times kept for one cpu only grow. `SumFold`, `SumBound` and
  `SumTick` are the facts about the sum, `LineOnline` that about the lines.
* `TopProcs_proof`: `TypeCorrect`, `RecordsOwned`, `MixedLines`, `WrappedShares`,
  `Largest`, `DivideSafe` and the action property `HeldKept`, for any finite set of
  tasks, any number of records and changes, and all options. One invariant has a
  part for each. `PlaceInv` says what `read_procs` has in hand in each of its
  places. `ArrayInv` (the records of an array come first, its NULLs after them, and
  none is there twice) and `OwnInv` (the five places of a record are disjoint and
  cover all) give `RecordsOwnedOnce`: the property counts, and what is counted
  follows only from the order in the array. `FilesInv` adds the record in hand, file
  by file, to `MixedNeedsReuse`, as long as its process is there or its task
  directory is open (`Sure`). `TimeInv` orders the times of a lasting task: not above
  its present time, and the new sample's not below the old one's; since `Word` is
  more than twice the largest time, a difference that is not negative is not large.
  `CpuInv` says that the total has grown between two samples with a delay.
  `SortInv` and the NULLs at the end give `LargestShown`: the sort compares
  unused places too, and `SortLemma` shows that it leaves them at the end.
  `HeldKept` says that no record is written while an array holds it.

Sums, sorted orders and the number of records are data of any size. The lemmas
about them are inductions, done by hand from the least counterexample
(`MinLemma`): the induction rules of the library cannot be instantiated.
`FoldExists` shows in this way that the recursion behind a sum has a solution.

Model-checked only: the liveness properties `StarvedKeepsReporting`,
`StarvedFallsSilent`, `WaiterServed` and `KeepsSampling` (out of the prover's
reach; of the last two the safety part is proved, as said above); DriverRegistration, which has no parameters, so that TLC's check is the
general one; and the two findings, which are counterexamples.

## Plan

Left: the arithmetic of the first two load watchdogs, in the manner of SoftwdtCpuStats.

## Not modelled

The callbacks of the livepatch demo (they log; the livepatch core orders them),
sequence files and the kfifo example (protocol and queue are the kernel's),
`process_cpu_usage.c` (two hash tables filled by one thread in init; SteTop has
the same tables with concurrent writers), `cpu_usage3.c` (one sample in init), formatting and wording of the reports, the fields of processes that are only
printed, the listings and skeletons (no state of their own), build files. The
kernel's own timers, queues, slab and livepatch core are modelled by their
contract as the code uses them, and marked external.

Known weaknesses that no property is about, because the code makes no promise
there: the buffer of each report or sample that is never freed (`load_softwdt.c:50`,
`per_cpu_usage.c:36`), the first queue that is kept when the second cannot be made
(`load_softwdt3.c:241`), the unchecked `calloc` of `top.c:234` (the outcome `segv`),
the sums over two sets of online cpus in `cpu_usage3.c:43`, the position that
`linux_seq.c:51` does not advance on its last round, the reference to credentials
that `ste_top.c:310` takes and the two `continue` after it do not return, and exits
that meet a timer or a work init has not set up after a failed allocation
(`load_softwdt.c:205`, `per_cpu_usage.c:113`): all zero, it is neither armed nor
queued, and the kernel at most warns.

Simplified, because no property can tell: `iowait`, `steal` and `guest` are read
after `idle` in `load_softwdt3.c:85`, with the rest before it in SoftwdtCpuStats; two
walks or links of SteTop at one bucket may break its list, which is a race already;
each loop of SteTop's exit function is one step, since a writer that meets it races.
