---------------------------- MODULE LoadWatchdog ----------------------------
(***************************************************************************)
(* The load watchdogs of load_softwdt.c (version 1) and load_softwdt2.c    *)
(* (version 2), ancestors of load_softwdt3.c.  A feeder kicks a timer, the *)
(* timer's callback counts and reports.  In version 1 the callback hands   *)
(* the cpu usage to a work of the system queue; in version 2 it computes   *)
(* the usage itself and hands the dump of the tasks to a queue of its own. *)
(*                                                                         *)
(* Time is left out: an armed timer may fire, and a pending feeder may     *)
(* run, at any moment, as late as a loaded system lets them.               *)
(***************************************************************************)
EXTENDS Integers

CONSTANT CountMod    \* the range of the uint32_t timeout count (2^32 in the code)

ASSUME CountModAssumption == CountMod \in Nat /\ CountMod > 11

VARIABLES
    version,        \* 1 for load_softwdt.c, 2 for load_softwdt2.c
    mod,            \* absent, failed, live, a step of load_watchdog_exit, gone
    timer_armed,
    cb,             \* where load_watchdog_timeout is
    watchdog_timeout_count,
    dwork_pending,
    fd,             \* where load_watchdog_feed_task is
    work_pending,   \* version 1: cpu_usage_work; version 2: get_task_info_work
    working,        \* it is running
    barrier,        \* which run of the work flush_work waits for, if any
    watchdog_wq, get_task_info_wq, prev,    \* "none", "live" or "freed"
    fault,          \* an access to something that is gone
    rearmed         \* history: a kick armed the timer after del_timer_sync

dwork  == <<dwork_pending, fd>>
work   == <<work_pending, working, barrier>>
memory == <<watchdog_wq, get_task_info_wq, prev>>
vars   == <<version, mod, timer_armed, cb, watchdog_timeout_count, dwork, work,
            memory, fault, rearmed>>

Resource == {"none", "live", "freed"}
ExitSteps == {"cancel_dwork", "wait_dwork", "cancel_work", "wait_work", "destroy_wq",
              "flush_work", "wait_flush", "drain_info_wq", "kfree", "unload"}

TypeOK ==
    /\ version \in {1, 2}
    /\ mod \in {"absent", "failed", "live", "gone"} \cup ExitSteps
    /\ timer_armed \in BOOLEAN
    /\ cb \in {"idle", "calculate", "queue", "collect", "arm"}
    /\ watchdog_timeout_count \in 0..(CountMod - 1)
    /\ dwork_pending \in BOOLEAN
    /\ fd \in {"idle", "collect", "arm", "requeue"}
    /\ work_pending \in BOOLEAN
    /\ working \in BOOLEAN
    /\ barrier \in {"none", "pending", "running"}
    /\ watchdog_wq \in Resource
    /\ get_task_info_wq \in Resource
    /\ prev \in Resource
    /\ fault \in BOOLEAN
    /\ rearmed \in BOOLEAN

Init ==
    /\ version \in {1, 2}
    /\ mod = "absent"
    /\ timer_armed = FALSE /\ cb = "idle"
    /\ watchdog_timeout_count = 0
    /\ dwork_pending = FALSE /\ fd = "idle"
    /\ work_pending = FALSE /\ working = FALSE /\ barrier = "none"
    /\ watchdog_wq = "none" /\ get_task_info_wq = "none" /\ prev = "none"
    /\ fault = FALSE
    /\ rearmed = FALSE

\* An access to x by code of the module
Touch(x) == fault' = (x = "freed" \/ mod = "gone")

-----------------------------------------------------------------------------
(* load_watchdog_init                                                      *)

\* The four outcomes: create_workqueue fails, in version 2 for the first or the
\* second queue; kzalloc fails, which returns 0; or the feeder is queued.  After the
\* failed kzalloc of version 1 the work is not initialised; what flush_work does with it,
\* which is all zero, is what it does with a work that is not queued: nothing.
ModuleInit ==
    /\ mod = "absent"
    /\ \/ mod' = "failed" /\ UNCHANGED <<memory, dwork_pending>>
       \/ /\ version = 2
          /\ mod' = "failed" /\ watchdog_wq' = "live"
          /\ UNCHANGED <<get_task_info_wq, prev, dwork_pending>>
       \/ /\ mod' = "live" /\ watchdog_wq' = "live"
          /\ get_task_info_wq' = IF version = 2 THEN "live" ELSE "none"
          /\ \/ UNCHANGED <<prev, dwork_pending>>
             \/ prev' = "live" /\ dwork_pending' = TRUE
    /\ UNCHANGED <<version, timer_armed, cb, watchdog_timeout_count, fd, work, fault, rearmed>>

-----------------------------------------------------------------------------
(* load_watchdog_feed_task                                                 *)

\* The kick of version 2 begins with the statistics.
AtKick == IF version = 1 THEN "arm" ELSE "collect"

Feed(step, next) ==
    /\ fd = step /\ fd' = next
    /\ UNCHANGED <<version, mod, cb, watchdog_timeout_count, work, memory>>

FeedStart ==
    /\ dwork_pending /\ Feed("idle", AtKick)
    /\ dwork_pending' = FALSE
    /\ UNCHANGED <<timer_armed, fault, rearmed>>

FeedCollect ==
    /\ Feed("collect", "arm")
    /\ Touch(prev)
    /\ UNCHANGED <<timer_armed, dwork_pending, rearmed>>

FeedArm ==
    /\ Feed("arm", "requeue")
    /\ timer_armed' = TRUE
    /\ rearmed' = (rearmed \/ mod # "live")
    /\ UNCHANGED <<dwork_pending, fault>>

\* queue_delayed_work_on does nothing while the work is being cancelled.
FeedRequeue ==
    /\ Feed("requeue", "idle")
    /\ Touch(watchdog_wq)
    /\ dwork_pending' = (dwork_pending \/ mod # "wait_dwork")
    /\ UNCHANGED <<timer_armed, rearmed>>

-----------------------------------------------------------------------------
(* load_watchdog_timeout                                                   *)

\* The timeouts that are reported, and after which the timer is armed again
Retries_nine_only(count) == count < 10
Retries_always(count) == count \in Nat
Retries(count) == count < 10 \/ count % 10 = 0

NextCount_unbounded(count) == count + 1
NextCount(count) == (count + 1) % CountMod

TimerExpire ==
    /\ timer_armed /\ cb = "idle"
    /\ timer_armed' = FALSE
    /\ IF mod = "gone"
       THEN fault' = TRUE /\ UNCHANGED <<cb, watchdog_timeout_count>>
       ELSE LET count == NextCount(watchdog_timeout_count) IN
            /\ watchdog_timeout_count' = count
            /\ cb' = CASE ~Retries(count) -> "idle"
                       [] Retries(count) /\ version = 1 -> "queue"
                       [] OTHER -> "calculate"
            /\ UNCHANGED fault
    /\ UNCHANGED <<version, mod, dwork, work, memory, rearmed>>

Cb(step, next) ==
    /\ cb = step /\ cb' = next
    /\ UNCHANGED <<version, mod, watchdog_timeout_count, dwork, working, barrier,
                   memory, rearmed>>

\* version 2: calculate_cpu_usage
CbCalculate ==
    /\ Cb("calculate", "queue")
    /\ Touch(prev)
    /\ UNCHANGED <<timer_armed, work_pending>>

\* schedule_work, or queue_work_on the module's own queue: nothing happens while
\* the work is being cancelled or that queue is drained.
CbQueue ==
    /\ Cb("queue", AtKick)
    /\ Touch(get_task_info_wq)
    /\ work_pending' = (work_pending \/ mod \notin {"wait_work", "drain_info_wq"})
    /\ UNCHANGED timer_armed

CbCollect ==
    /\ Cb("collect", "arm")
    /\ Touch(prev)
    /\ UNCHANGED <<timer_armed, work_pending>>

CbArm ==
    /\ Cb("arm", "idle")
    /\ fault' = (mod = "gone")
    /\ timer_armed' = TRUE
    /\ UNCHANGED work_pending

CbStep == CbCalculate \/ CbQueue \/ CbCollect \/ CbArm

-----------------------------------------------------------------------------
(* calculate_cpu_usage of version 1, get_task_info of version 2            *)

Work ==
    UNCHANGED <<version, mod, timer_armed, cb, watchdog_timeout_count, dwork, memory, rearmed>>

WorkStart ==
    /\ work_pending /\ ~working /\ Work
    /\ work_pending' = FALSE
    /\ working' = TRUE
    /\ barrier' = IF barrier = "pending" THEN "running" ELSE barrier
    /\ fault' = (mod = "gone")

\* Version 1 compares /proc/stat with the previous times, unless it cannot read
\* it; version 2 does not use them.
WorkEnd ==
    /\ working /\ Work
    /\ working' = FALSE
    /\ barrier' = IF barrier = "running" THEN "none" ELSE barrier
    /\ \/ version = 1 /\ Touch(prev)
       \/ fault' = (mod = "gone")
    /\ UNCHANGED work_pending

-----------------------------------------------------------------------------
(* load_watchdog_exit                                                      *)

Exit(step, next) ==
    /\ mod = step /\ mod' = next
    /\ UNCHANGED <<version, cb, watchdog_timeout_count, fd, working, fault, rearmed>>

ExitDelTimer ==
    /\ Exit("live", "cancel_dwork") /\ cb = "idle"
    /\ timer_armed' = FALSE
    /\ UNCHANGED <<dwork_pending, work_pending, barrier, memory>>

ExitCancelDwork ==
    /\ Exit("cancel_dwork", "wait_dwork")
    /\ dwork_pending' = FALSE
    /\ UNCHANGED <<timer_armed, work_pending, barrier, memory>>

ExitWaitDwork ==
    /\ fd = "idle"
    /\ Exit("wait_dwork", IF version = 1 THEN "destroy_wq" ELSE "cancel_work")
    /\ UNCHANGED <<timer_armed, dwork_pending, work_pending, barrier, memory>>

\* version 2: cancel_work_sync(&get_task_info_work)
ExitCancelWork ==
    /\ Exit("cancel_work", "wait_work")
    /\ work_pending' = FALSE
    /\ UNCHANGED <<timer_armed, dwork_pending, barrier, memory>>

ExitWaitWork ==
    /\ Exit("wait_work", "destroy_wq") /\ ~working
    /\ UNCHANGED <<timer_armed, dwork_pending, work_pending, barrier, memory>>

\* destroy_workqueue runs what is queued first.
ExitDestroyWq ==
    /\ ~dwork_pending /\ fd = "idle"
    /\ Exit("destroy_wq", IF version = 1 THEN "flush_work" ELSE "drain_info_wq")
    /\ watchdog_wq' = "freed"
    /\ UNCHANGED <<timer_armed, dwork_pending, work_pending, barrier, get_task_info_wq, prev>>

\* version 1: flush_work waits for the work as it is queued or running now; an
\* exit function without it would go on.
ExitFlushWork_forgotten ==
    /\ Exit("flush_work", "kfree")
    /\ UNCHANGED <<timer_armed, dwork_pending, work_pending, barrier, memory>>

ExitFlushWork ==
    /\ Exit("flush_work", "wait_flush")
    /\ barrier' = CASE work_pending -> "pending"
                    [] ~work_pending /\ working -> "running"
                    [] OTHER -> "none"
    /\ UNCHANGED <<timer_armed, dwork_pending, work_pending, memory>>

ExitWaitFlush ==
    /\ Exit("wait_flush", "kfree") /\ barrier = "none"
    /\ UNCHANGED <<timer_armed, dwork_pending, work_pending, barrier, memory>>

\* version 2: destroy_workqueue(get_task_info_wq)
ExitDestroyInfoWq ==
    /\ Exit("drain_info_wq", "kfree") /\ ~work_pending /\ ~working
    /\ get_task_info_wq' = "freed"
    /\ UNCHANGED <<timer_armed, dwork_pending, work_pending, barrier, watchdog_wq, prev>>

ExitKfree ==
    /\ Exit("kfree", "unload")
    /\ prev' = IF prev = "live" THEN "freed" ELSE "none"
    /\ UNCHANGED <<timer_armed, dwork_pending, work_pending, barrier,
                   watchdog_wq, get_task_info_wq>>

ExitUnload ==
    /\ Exit("unload", "gone")
    /\ UNCHANGED <<timer_armed, dwork_pending, work_pending, barrier, memory>>

ExitStep ==
    \/ ExitDelTimer \/ ExitCancelDwork \/ ExitWaitDwork \/ ExitCancelWork \/ ExitWaitWork
    \/ ExitDestroyWq \/ ExitFlushWork \/ ExitWaitFlush \/ ExitDestroyInfoWq
    \/ ExitKfree \/ ExitUnload

-----------------------------------------------------------------------------
\* A fault stops the machine.
Next ==
    /\ ~fault
    /\ \/ ModuleInit
       \/ FeedStart \/ FeedCollect \/ FeedArm \/ FeedRequeue
       \/ TimerExpire \/ CbStep
       \/ WorkStart \/ WorkEnd
       \/ ExitStep

Spec == Init /\ [][Next]_vars

\* Softirqs are served: an armed timer fires unless it is fed for ever, and its
\* callback ends.  Nothing is promised of the feeder.
FairSpec == Spec /\ WF_vars(~fault /\ fd = "idle" /\ TimerExpire) /\ WF_vars(~fault /\ CbStep)

-----------------------------------------------------------------------------
(* Properties                                                              *)

Watched == timer_armed \/ cb # "idle"

\* Before its eleventh timeout the watchdog keeps trying, whatever the feeder and
\* the work do: only a count past ten that is no multiple of ten lets it lapse.
LapsesPastTenOnly ==
    [][mod' = "live" /\ Watched /\ ~Watched'
           => watchdog_timeout_count' > 10 /\ watchdog_timeout_count' % 10 # 0]_vars

\* The timer is a watch that is given up at the counts that are not reported.  Its
\* kicks end when cancel_delayed_work_sync returns, and only one between
\* del_timer_sync and that keeps the timer or its callback alive.
Stage ==
    CASE mod = "absent" -> "new"
      [] mod = "live" -> "on"
      [] mod \in {"cancel_dwork", "wait_dwork"} -> "closing"
      [] OTHER -> "off"
Unreported == {count \in 0..(CountMod - 1) : count >= 10 /\ count % 10 # 0}
Timer == INSTANCE Watch WITH
    Silent <- Unreported, stage <- Stage, armed <- timer_armed, handling <- cb # "idle",
    count <- watchdog_timeout_count
ImplementsWatch == Timer!Spec

\* It does lapse: a feeder that is starved for good is reported eleven times at
\* most, then nothing watches any more.  (The callback of load_softwdt3.c kicks
\* after every timeout.)
StarvedFallsSilent ==
    <>[](mod = "live" /\ fd = "idle") => <>[]~Watched

\* Unloading faults only after a kick between del_timer_sync and the end of
\* cancel_delayed_work_sync: otherwise the work that still runs then is waited
\* for before the previous times are freed.
FaultNeedsLateKick == fault => rearmed

\* "make sure all work is done" (load_softwdt.c:205, of version 1's flush_work):
\* the work of the usage neither runs nor is to run when the module is gone.
AllWorkDone == version = 1 /\ mod = "gone" => ~work_pending /\ ~working
=============================================================================
