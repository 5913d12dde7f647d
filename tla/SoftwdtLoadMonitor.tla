------------------------ MODULE SoftwdtLoadMonitor ------------------------
(***************************************************************************)
(* The soft watchdog of load_softwdt3.c: a delayed work ("the feeder")     *)
(* that kicks a kernel timer every KICK units, a timer callback that       *)
(* counts and reports the missed kicks, a work that dumps the running      *)
(* tasks, and the module's init and exit functions.                        *)
(*                                                                         *)
(* Three contexts interleave: the worker that runs the feeder, the softirq *)
(* that runs the timer callback, and the task that runs rmmod; a fourth,   *)
(* the worker of the dump, is started by the callback.  Each shared access *)
(* of a handler is a step of its own.                                      *)
(*                                                                         *)
(* Time is kept as the time left on each timer, so that no clock grows:    *)
(* mod_timer(jiffies + T) stores T and Tick counts it down to 0.           *)
(***************************************************************************)
EXTENDS Integers

CONSTANTS
    KICK,      \* STE_SOFTWDT_LOAD_MONITOR_DEFAULT_KICK_TIME, in ticks
    TIMEOUT,   \* STE_SOFTWDT_LOAD_MONITOR_DEFAULT_TIMEOUT, in ticks
    MaxLag,    \* how many ticks a due feeder may take to run to its end ...
    Punctual,  \* ... when the scheduler is punctual; otherwise there is no bound
    CountMod   \* the range of the uint32_t timeout count (2^32 in the code)

ASSUME ConstantsAssumption ==
    /\ KICK \in Nat \ {0}
    /\ TIMEOUT \in Nat \ {0}
    /\ MaxLag \in Nat
    /\ Punctual \in BOOLEAN
    /\ CountMod \in Nat /\ CountMod > 10

VARIABLES
    mod,            \* the module: absent, live, a step of its exit function, gone
    timer_armed,    \* softwdt_timer is pending ...
    timer_left,     \* ... and expires in so many ticks
    cb,             \* where the timer callback is
    softwdt_timeout_count,
    dwork_pending,  \* softwdt_delayed_work is pending ...
    dwork_left,     \* ... and is handed to its worker in so many ticks
    fd,             \* where the feeder is
    late,           \* ticks since the feeder was due (saturates at MaxLag)
    swork_pending,  \* sleepable_task_work is queued
    dumping,        \* ste_handle_sleepable_task is running
    softwdt_wq, sleepable_task_wq, prev_cpu_usage_stats,  \* "none", "live" or "freed"
    fault,          \* the first access to something that is gone, "none" so far
    rearmed,        \* history: a kick armed the timer after del_timer_sync
    quiet           \* history: timeouts since the last report (saturates)

timer   == <<timer_armed, timer_left>>
dwork   == <<dwork_pending, dwork_left>>
swork   == <<swork_pending, dumping>>
memory  == <<softwdt_wq, sleepable_task_wq, prev_cpu_usage_stats>>
counts  == <<softwdt_timeout_count, quiet>>
history == <<rearmed>>

vars == <<mod, timer, cb, counts, dwork, fd, late, swork, memory, fault, history>>

ExitSteps == {"cancel_dwork", "flush_dwork", "cancel_swork", "flush_swork",
              "destroy_wq", "drain_sleepable_wq", "kfree", "unload"}
Resource == {"none", "live", "freed"}

MaxQuiet == 7    \* counts 4 to 10, or 4 to 10 modulo 10

TypeOK ==
    /\ mod \in {"absent", "failed", "live", "gone"} \cup ExitSteps
    /\ timer_armed \in BOOLEAN
    /\ timer_left \in 0..TIMEOUT
    /\ cb \in {"idle", "report", "queue", "collect", "arm"}
    /\ softwdt_timeout_count \in 0..(CountMod - 1)
    /\ dwork_pending \in BOOLEAN
    /\ dwork_left \in 0..KICK
    /\ fd \in {"idle", "collect", "arm", "requeue"}
    /\ late \in 0..MaxLag
    /\ swork_pending \in BOOLEAN
    /\ dumping \in BOOLEAN
    /\ softwdt_wq \in Resource
    /\ sleepable_task_wq \in Resource
    /\ prev_cpu_usage_stats \in Resource
    /\ fault \in {"none", "text", "stats", "wq"}
    /\ rearmed \in BOOLEAN
    /\ quiet \in 0..(MaxQuiet + 1)

Init ==
    /\ mod = "absent"
    /\ timer_armed = FALSE /\ timer_left = 0
    /\ cb = "idle"
    /\ softwdt_timeout_count = 0
    /\ dwork_pending = FALSE /\ dwork_left = 0
    /\ fd = "idle"
    /\ late = 0
    /\ swork_pending = FALSE /\ dumping = FALSE
    /\ softwdt_wq = "none" /\ sleepable_task_wq = "none"
    /\ prev_cpu_usage_stats = "none"
    /\ fault = "none"
    /\ rearmed = FALSE
    /\ quiet = 0

-----------------------------------------------------------------------------
(* Kernel services the module calls (timer_list and workqueue).            *)

\* the interval of the feeder, and a monitor that was given the other constant
kick_time_swapped == TIMEOUT
kick_time == KICK

\* mod_timer(&softwdt_timer, jiffies + TIMEOUT)
mod_timer == timer_armed' = TRUE /\ timer_left' = TIMEOUT

\* queue_delayed_work_on: nothing happens while the work is pending, or while
\* cancel_delayed_work_sync holds its pending bit.
queue_delayed_work(delay) ==
    IF dwork_pending \/ mod = "flush_dwork"
    THEN UNCHANGED dwork
    ELSE dwork_pending' = TRUE /\ dwork_left' = delay

\* queue_work_on(1, sleepable_task_wq, ...): refused while pending, while
\* cancel_work_sync holds the pending bit and while the queue is drained.
queue_sleepable_work ==
    swork_pending' = (swork_pending \/ mod \notin {"flush_swork", "drain_sleepable_wq"})

FeederDue == dwork_pending /\ dwork_left = 0
Overdue   == FeederDue \/ fd # "idle"

\* The code touches x: a fault when the module's text or x itself is gone.
Touch(x, what) ==
    fault' = IF mod = "gone" THEN "text" ELSE IF x = "freed" THEN what ELSE "none"

\* One jiffy: every running timer advances.  A punctual scheduler does not let
\* a due feeder wait, or run, for more than MaxLag ticks.
Tick ==
    /\ Punctual /\ Overdue => late < MaxLag
    /\ timer_left' = IF timer_left > 0 THEN timer_left - 1 ELSE 0
    /\ dwork_left' = IF dwork_left > 0 THEN dwork_left - 1 ELSE 0
    /\ late' = IF Overdue /\ late < MaxLag THEN late + 1 ELSE late
    /\ UNCHANGED <<mod, timer_armed, cb, counts, dwork_pending, fd, swork, memory,
                   fault, history>>

-----------------------------------------------------------------------------
(* ste_softwdt_load_monitor_init                                           *)

\* The whole function, up to the allocation that fails if one does: nothing
\* else runs before its last statement queues the feeder.
ModuleInit ==
    /\ mod = "absent"
    /\ \/ /\ mod' = "failed"                     \* create_workqueue failed
          /\ UNCHANGED <<memory, dwork>>
       \/ /\ mod' = "failed"                     \* the second one failed
          /\ softwdt_wq' = "live"
          /\ UNCHANGED <<sleepable_task_wq, prev_cpu_usage_stats, dwork>>
       \/ /\ mod' = "live"                       \* kcalloc failed: returns 0
          /\ softwdt_wq' = "live" /\ sleepable_task_wq' = "live"
          /\ UNCHANGED <<prev_cpu_usage_stats, dwork>>
       \/ /\ mod' = "live"
          /\ softwdt_wq' = "live" /\ sleepable_task_wq' = "live"
          /\ prev_cpu_usage_stats' = "live"
          /\ queue_delayed_work(0)
    /\ UNCHANGED <<timer, cb, counts, fd, late, swork, fault, history>>

-----------------------------------------------------------------------------
(* The feeder: ste_softwdt_load_monitor_feed_task                          *)

Feed(step, next) ==
    /\ fd = step /\ fd' = next
    /\ UNCHANGED <<mod, cb, counts, swork, memory>>

\* The worker takes the due work, which is no longer pending, and runs it.
FeedStart ==
    /\ FeederDue /\ Feed("idle", "collect")
    /\ dwork_pending' = FALSE
    /\ UNCHANGED <<timer, dwork_left, late, fault, history>>

\* ste_calculate_cpu_stats(STE_CPU_METRIC_COLLECT_TIMINGS), called by the kick
FeedCollect ==
    /\ Feed("collect", "arm")
    /\ Touch(prev_cpu_usage_stats, "stats")
    /\ UNCHANGED <<timer, dwork, late, history>>

\* the mod_timer of the kick
FeedArm ==
    /\ Feed("arm", "requeue")
    /\ mod_timer
    /\ rearmed' = (rearmed \/ mod # "live")
    /\ UNCHANGED <<dwork, late, fault>>

FeedRequeue ==
    /\ Feed("requeue", "idle")
    /\ Touch(softwdt_wq, "wq")
    /\ queue_delayed_work(kick_time)
    /\ late' = 0
    /\ UNCHANGED <<timer, history>>

FeedStep == FeedStart \/ FeedCollect \/ FeedArm \/ FeedRequeue

-----------------------------------------------------------------------------
(* The timer callback: ste_softwdt_load_monitor_timeout                    *)

\* The timeouts that report: the first three, then three of every ten.
Reports_off_by_one(count) == count <= 3 \/ count % 10 \in {2, 3}
Reports(count) == count <= 3 \/ count % 10 \in {1, 2, 3}

\* softwdt_timeout_count++ on a uint32_t
NextCount_unbounded(count) == count + 1
NextCount_saturating(count) == IF count = CountMod - 1 THEN count ELSE count + 1
NextCount(count) == (count + 1) % CountMod

\* The branch the callback takes: with a report, or straight to the kick.
Branch_kick_in_report(count) == IF Reports(count) THEN "report" ELSE "idle"
Branch(count) == IF Reports(count) THEN "report" ELSE "collect"

\* The softirq detaches the expired timer and enters the callback, which
\* counts the timeout and chooses its branch.
TimerExpire ==
    /\ timer_armed /\ timer_left = 0 /\ cb = "idle"
    /\ timer_armed' = FALSE
    /\ IF mod = "gone"
       THEN fault' = "text" /\ UNCHANGED <<cb, counts>>
       ELSE LET count == NextCount(softwdt_timeout_count) IN
            /\ softwdt_timeout_count' = count
            /\ quiet' = CASE Reports(count) -> 0
                            [] ~Reports(count) /\ quiet <= MaxQuiet -> quiet + 1
                            [] OTHER -> quiet
            /\ cb' = Branch(count)
            /\ UNCHANGED fault
    /\ UNCHANGED <<mod, timer_left, dwork, fd, late, swork, memory, history>>

Cb(step, next) ==
    /\ cb = step /\ cb' = next
    /\ UNCHANGED <<mod, counts, dwork, fd, late, dumping, memory, history>>

\* ste_calculate_cpu_stats(STE_CPU_METRIC_CALCULATE_USAGE)
CbReport ==
    /\ Cb("report", "queue")
    /\ Touch(prev_cpu_usage_stats, "stats")
    /\ UNCHANGED <<timer, swork_pending>>

CbQueue ==
    /\ Cb("queue", "collect")
    /\ Touch(sleepable_task_wq, "wq")
    /\ queue_sleepable_work
    /\ UNCHANGED timer

\* the kick that ends the callback, whatever the count: the timings ...
CbCollect ==
    /\ Cb("collect", "arm")
    /\ Touch(prev_cpu_usage_stats, "stats")
    /\ UNCHANGED <<timer, swork_pending>>

\* ... and the timer
CbArm ==
    /\ Cb("arm", "idle")
    /\ fault' = IF mod = "gone" THEN "text" ELSE "none"
    /\ mod_timer
    /\ UNCHANGED swork_pending

CbStep == CbReport \/ CbQueue \/ CbCollect \/ CbArm

-----------------------------------------------------------------------------
(* The dump: ste_handle_sleepable_task                                     *)

DumpStart ==
    /\ swork_pending /\ ~dumping
    /\ swork_pending' = FALSE
    /\ dumping' = TRUE
    /\ UNCHANGED <<mod, timer, cb, counts, dwork, fd, late, memory, fault, history>>

\* on_each_cpu has run on every cpu
DumpEnd ==
    /\ dumping
    /\ dumping' = FALSE
    /\ UNCHANGED <<mod, timer, cb, counts, dwork, fd, late, swork_pending, memory,
                   fault, history>>

-----------------------------------------------------------------------------
(* ste_softwdt_load_monitor_exit, one action per call                      *)

Exit(step, next) ==
    /\ mod = step /\ mod' = next
    /\ UNCHANGED <<timer_left, cb, counts, dwork_left, fd, late, dumping, fault, history>>

\* del_timer instead: the timer comes off while its callback may be running
ExitDelTimer_not_sync ==
    /\ Exit("live", "cancel_dwork")
    /\ timer_armed' = FALSE
    /\ UNCHANGED <<dwork_pending, swork_pending, memory>>

\* del_timer_sync waits for a running callback and takes the timer off.
ExitDelTimer ==
    /\ Exit("live", "cancel_dwork") /\ cb = "idle"
    /\ timer_armed' = FALSE
    /\ UNCHANGED <<dwork_pending, swork_pending, memory>>

\* cancel_delayed_work_sync takes the pending work off ...
ExitCancelDwork ==
    /\ Exit("cancel_dwork", "flush_dwork")
    /\ dwork_pending' = FALSE
    /\ UNCHANGED <<timer_armed, swork_pending, memory>>

\* cancel_delayed_work instead: does not wait
ExitFlushDwork_not_sync ==
    /\ Exit("flush_dwork", "cancel_swork")
    /\ UNCHANGED <<timer_armed, dwork_pending, swork_pending, memory>>

\* ... and waits for a running feeder
ExitFlushDwork ==
    /\ Exit("flush_dwork", "cancel_swork") /\ fd = "idle"
    /\ UNCHANGED <<timer_armed, dwork_pending, swork_pending, memory>>

\* cancel_work_sync, likewise
ExitCancelSwork ==
    /\ Exit("cancel_swork", "flush_swork")
    /\ swork_pending' = FALSE
    /\ UNCHANGED <<timer_armed, dwork_pending, memory>>

ExitFlushSwork ==
    /\ Exit("flush_swork", "destroy_wq") /\ ~dumping
    /\ UNCHANGED <<timer_armed, dwork_pending, swork_pending, memory>>

\* destroy_workqueue drains the queue first.
ExitDestroyWq ==
    /\ Exit("destroy_wq", "drain_sleepable_wq") /\ ~FeederDue /\ fd = "idle"
    /\ softwdt_wq' = "freed"
    /\ UNCHANGED <<timer_armed, dwork_pending, swork_pending, sleepable_task_wq,
                   prev_cpu_usage_stats>>

ExitDestroySleepableWq ==
    /\ Exit("drain_sleepable_wq", "kfree") /\ ~swork_pending /\ ~dumping
    /\ sleepable_task_wq' = "freed"
    /\ UNCHANGED <<timer_armed, dwork_pending, swork_pending, softwdt_wq,
                   prev_cpu_usage_stats>>

ExitKfree ==
    /\ Exit("kfree", "unload")
    /\ prev_cpu_usage_stats' = IF prev_cpu_usage_stats = "live" THEN "freed" ELSE "none"
    /\ UNCHANGED <<timer_armed, dwork_pending, swork_pending, softwdt_wq, sleepable_task_wq>>

\* The exit function has returned: the loader releases the module's text.
ExitUnload ==
    /\ Exit("unload", "gone")
    /\ UNCHANGED <<timer_armed, dwork_pending, swork_pending, memory>>

ExitStep ==
    \/ ExitDelTimer \/ ExitCancelDwork \/ ExitFlushDwork \/ ExitCancelSwork
    \/ ExitFlushSwork \/ ExitDestroyWq \/ ExitDestroySleepableWq
    \/ ExitKfree \/ ExitUnload

-----------------------------------------------------------------------------
\* A fault stops the machine.
Next ==
    /\ fault = "none"
    /\ \/ Tick
       \/ ModuleInit
       \/ FeedStep
       \/ TimerExpire
       \/ CbStep
       \/ DumpStart
       \/ DumpEnd
       \/ ExitStep

Spec == Init /\ [][Next]_vars

\* Time passes, softirqs are served and the dump's worker is scheduled.  The
\* feeder gets no fairness: a feeder that is never scheduled is what the
\* watchdog is for.  Nobody has to unload the module.
Fairness ==
    /\ WF_vars(fault = "none" /\ Tick)
    /\ WF_vars(fault = "none" /\ TimerExpire)
    /\ WF_vars(fault = "none" /\ CbStep)
    /\ WF_vars(fault = "none" /\ DumpStart)
    /\ WF_vars(fault = "none" /\ DumpEnd)

FairSpec == Spec /\ Fairness

-----------------------------------------------------------------------------
(* Properties                                                              *)

\* A timeout is being waited for or handled.
Watched == timer_armed \/ cb # "idle"

\* A live monitor that watches keeps watching: the timer that fires is armed
\* again by the kick that ends every callback (load_softwdt3.c:195), whatever
\* the feeder and the dump's worker do in between.
StaysWatched ==
    [][mod' = "live" /\ Watched => Watched']_vars

\* The timer is a watch that is never given up.  Its kicks end when
\* cancel_delayed_work_sync returns, and only one between del_timer_sync and that
\* keeps the timer or its callback alive.
Stage ==
    CASE mod = "absent" -> "new"
      [] mod = "live" -> "on"
      [] mod \in {"cancel_dwork", "flush_dwork"} -> "closing"
      [] OTHER -> "off"
Timer == INSTANCE Watch WITH
    Silent <- {}, stage <- Stage, armed <- timer_armed, handling <- cb # "idle",
    count <- softwdt_timeout_count
ImplementsWatch == Timer!Spec

\* Counter branches and the uint32_t wrap together: the detailed report is
\* never skipped more than seven timeouts in a row.
QuietBound == quiet <= MaxQuiet

\* A feeder that is scheduled within MaxLag of its time never lets the timer
\* of a live module expire.
NoFalseAlarm ==
    Punctual /\ KICK + 2 * MaxLag < TIMEOUT /\ mod = "live"
        => cb = "idle" /\ softwdt_timeout_count = 0

\* The teardown order is safe but for one window: a fault needs a kick between
\* del_timer_sync and the end of cancel_delayed_work_sync.
FaultNeedsLateKick == fault # "none" => rearmed

\* Once cancel_delayed_work_sync has returned the feeder neither runs nor is
\* pending, so nothing more can touch softwdt_wq.
FeederQuiescent ==
    mod \in {"cancel_swork", "flush_swork", "destroy_wq", "drain_sleepable_wq",
             "kfree", "unload", "gone"}
        => fd = "idle" /\ ~dwork_pending

\* A starved feeder is reported for ever: if it never runs again in a live,
\* watching module, the running tasks are dumped again and again.
StarvedKeepsReporting ==
    <>[](mod = "live" /\ fd = "idle" /\ Watched) => []<>dumping

=============================================================================
