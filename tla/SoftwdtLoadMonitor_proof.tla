--------------------- MODULE SoftwdtLoadMonitor_proof ---------------------
(***************************************************************************)
(* Theorems about SoftwdtLoadMonitor, for every timeout, interval, lag and *)
(* width of the timeout count.                                             *)
(***************************************************************************)
EXTENDS SoftwdtLoadMonitor, TLAPS

\* What the count says about the timeouts since the last report.
QuietOf(count) ==
    CASE Reports(count)   -> 0
      [] ~Reports(count) /\ count % 10 = 0 -> 7
      [] OTHER            -> (count % 10) - 3

QuietInv == quiet = QuietOf(softwdt_timeout_count)

\* The order of the exit function, and what each of its steps has established.
Exiting == ExitSteps \cup {"gone"}

TeardownInv ==
    /\ mod \in {"absent", "failed"} => fd = "idle" /\ ~dwork_pending
    /\ mod = "flush_dwork" => ~dwork_pending
    /\ FeederQuiescent
    /\ softwdt_wq = "freed" => mod \in {"drain_sleepable_wq", "kfree", "unload", "gone"}
    /\ sleepable_task_wq = "freed" => mod \in {"kfree", "unload", "gone"}
    /\ prev_cpu_usage_stats = "freed" => mod \in {"unload", "gone"}

\* A live module has both queues, and the exit function frees all that init made.
MemoryInv ==
    /\ mod \in {"live", "cancel_dwork", "flush_dwork", "cancel_swork", "flush_swork", "destroy_wq"}
           => softwdt_wq = "live"
    /\ mod \in {"drain_sleepable_wq", "kfree", "unload", "gone"} => softwdt_wq = "freed"
    /\ mod \in {"kfree", "unload", "gone"} => sleepable_task_wq = "freed"
    /\ mod \in {"unload", "gone"} => prev_cpu_usage_stats # "live"

\* With the callback off nobody queues the dump again.
DumpInv ==
    ~rearmed =>
      /\ mod \in {"flush_swork", "destroy_wq", "drain_sleepable_wq", "kfree", "unload", "gone"}
             => ~swork_pending
      /\ mod \in {"destroy_wq", "drain_sleepable_wq", "kfree", "unload", "gone"} => ~dumping

LateKickInv ==
    ~rearmed => /\ fault = "none"
                /\ mod \in Exiting => ~timer_armed /\ cb = "idle"

\* The monitor is in the assumption of NoFalseAlarm.
Timely == Punctual /\ KICK + 2 * MaxLag < TIMEOUT

\* What is left of the lag a due or running feeder may still take.
Slack == MaxLag - late

\* The timer of a live module outlasts what the feeder may still take to kick.
AlarmInv ==
    Timely =>
      /\ mod = "absent" => /\ ~timer_armed /\ cb = "idle"
                           /\ softwdt_timeout_count = 0
                           /\ fd = "idle" /\ late = 0 /\ ~dwork_pending
      /\ mod = "live" =>
           /\ cb = "idle" /\ softwdt_timeout_count = 0
           /\ ~Overdue => late = 0
           /\ fd # "idle" => ~dwork_pending
           /\ timer_armed =>
                /\ fd = "idle" => dwork_pending /\ timer_left > dwork_left + Slack
                /\ fd \in {"collect", "arm"} => timer_left > Slack
                /\ fd = "requeue" => timer_left > KICK + MaxLag + Slack

-----------------------------------------------------------------------------
(* Types                                                                   *)

\* The count stays in the range of its type, wrap included.
LEMMA NextCountType ==
    ASSUME NEW count \in 0..(CountMod - 1)
    PROVE  NextCount(count) \in 0..(CountMod - 1)
<1>1. CountMod \in Nat /\ CountMod > 10
  BY ConstantsAssumption DEF ConstantsAssumption
<1>2. CASE count + 1 = CountMod
  BY <1>1, <1>2 DEF NextCount
<1>3. CASE count + 1 # CountMod
  <2>1. count + 1 \in 0..(CountMod - 1)
    BY <1>1, <1>3
  <2>2. (count + 1) % CountMod = count + 1
    BY <1>1, <2>1
  <2> QED BY <2>1, <2>2 DEF NextCount
<1> QED BY <1>2, <1>3

\* Queueing the feeder keeps the types of the delayed work.
LEMMA QueueDelayedWorkType ==
    ASSUME TypeOK, NEW delay \in 0..KICK, queue_delayed_work(delay)
    PROVE  dwork_pending' \in BOOLEAN /\ dwork_left' \in 0..KICK
<1>1. CASE dwork_pending \/ mod = "flush_dwork"
  <2>1. UNCHANGED dwork
    BY <1>1, Zenon DEF queue_delayed_work
  <2> QED BY <2>1 DEF TypeOK, dwork
<1>2. CASE ~(dwork_pending \/ mod = "flush_dwork")
  BY <1>2, Zenon DEF queue_delayed_work
<1> QED BY <1>1, <1>2

\* Every variable keeps its type in every step of the module, its worker, the
\* softirq and rmmod.
THEOREM TypeCorrect == Spec => []TypeOK
<1>1. Init => TypeOK
  <2> USE DEF Init
  <2>1. Init => /\ timer_armed \in BOOLEAN
                /\ dwork_pending \in BOOLEAN
                /\ swork_pending \in BOOLEAN
                /\ dumping \in BOOLEAN
                /\ rearmed \in BOOLEAN
    BY Zenon
  <2> QED
    BY <2>1, ConstantsAssumption
    DEF ConstantsAssumption, TypeOK, ExitSteps, Resource, MaxQuiet
<1>2. TypeOK /\ [Next]_vars => TypeOK'
  <2> SUFFICES ASSUME TypeOK, [Next]_vars PROVE TypeOK'
    OBVIOUS
  <2> USE ConstantsAssumption DEF ConstantsAssumption, Feed, Cb, Exit, TypeOK, ExitSteps,
                                  Resource, timer, dwork, swork,
                                  memory, counts, history, MaxQuiet
  <2>1. CASE Tick
    BY <2>1 DEF Tick, Overdue, FeederDue
  <2>2. CASE ModuleInit
    <3>1. CASE queue_delayed_work(0)
      <4>1. dwork_pending' \in BOOLEAN /\ dwork_left' \in 0..KICK
        BY <3>1, QueueDelayedWorkType
      <4> QED BY <4>1, <2>2 DEF ModuleInit
    <3>2. CASE ~queue_delayed_work(0)
      BY <2>2, <3>2 DEF ModuleInit
    <3> QED BY <3>1, <3>2
  <2>3. CASE FeedStart
    <3>1. dwork_pending' \in BOOLEAN
      BY <2>3, Zenon DEF FeedStart
    <3> QED BY <3>1, <2>3 DEF FeedStart, FeederDue
  <2>4. CASE FeedCollect
    BY <2>4 DEF FeedCollect, Touch
  <2>5. CASE FeedArm
    BY <2>5 DEF FeedArm, mod_timer
  <2>6. CASE FeedRequeue
    <3>1. dwork_pending' \in BOOLEAN /\ dwork_left' \in 0..KICK
      BY <2>6, QueueDelayedWorkType DEF FeedRequeue, kick_time
    <3> QED BY <3>1, <2>6 DEF FeedRequeue, Touch
  <2>7. CASE TimerExpire
    <3>1. timer_armed' \in BOOLEAN
      BY <2>7, Zenon DEF TimerExpire
    <3>2. softwdt_timeout_count' \in 0..(CountMod - 1)
      BY <2>7, NextCountType DEF TimerExpire
    <3>3. cb' \in {"idle", "report", "queue", "collect", "arm"}
      BY <2>7 DEF TimerExpire, Branch
    <3>4. quiet' \in 0..(MaxQuiet + 1)
      BY <2>7 DEF TimerExpire
    <3> QED BY <3>1, <3>2, <3>3, <3>4, <2>7 DEF TimerExpire
  <2>8. CASE CbReport
    BY <2>8 DEF CbReport, Touch
  <2>9. CASE CbQueue
    BY <2>9 DEF CbQueue, Touch, queue_sleepable_work
  <2>10. CASE CbCollect
    BY <2>10 DEF CbCollect, Touch
  <2>11. CASE CbArm
    BY <2>11 DEF CbArm, mod_timer
  <2>12. CASE DumpStart
    <3>1. swork_pending' \in BOOLEAN
      BY <2>12, Zenon DEF DumpStart
    <3> QED BY <3>1, <2>12 DEF DumpStart
  <2>13. CASE DumpEnd
    <3>1. dumping' \in BOOLEAN
      BY <2>13, Zenon DEF DumpEnd
    <3> QED BY <3>1, <2>13 DEF DumpEnd
  <2>14. CASE ExitDelTimer
    <3>1. timer_armed' \in BOOLEAN
      BY <2>14, Zenon DEF ExitDelTimer
    <3> QED BY <3>1, <2>14 DEF ExitDelTimer
  <2>15. CASE ExitCancelDwork
    <3>1. dwork_pending' \in BOOLEAN
      BY <2>15, Zenon DEF ExitCancelDwork
    <3> QED BY <3>1, <2>15 DEF ExitCancelDwork
  <2>16. CASE ExitFlushDwork
    BY <2>16 DEF ExitFlushDwork
  <2>17. CASE ExitCancelSwork
    <3>1. swork_pending' \in BOOLEAN
      BY <2>17, Zenon DEF ExitCancelSwork
    <3> QED BY <3>1, <2>17 DEF ExitCancelSwork
  <2>18. CASE ExitFlushSwork
    BY <2>18 DEF ExitFlushSwork
  <2>19. CASE ExitDestroyWq
    BY <2>19 DEF ExitDestroyWq
  <2>20. CASE ExitDestroySleepableWq
    BY <2>20 DEF ExitDestroySleepableWq
  <2>21. CASE ExitKfree
    BY <2>21 DEF ExitKfree
  <2>22. CASE ExitUnload
    BY <2>22 DEF ExitUnload
  <2>23. CASE UNCHANGED vars
    BY <2>23 DEF vars
  <2> QED
    BY <2>1, <2>2, <2>3, <2>4, <2>5, <2>6, <2>7, <2>8, <2>9, <2>10, <2>11, <2>12, <2>13, <2>14, <2>15, <2>16, <2>17, <2>18, <2>19, <2>20, <2>21, <2>22, <2>23
    DEF Next, FeedStep, CbStep, ExitStep
<1> QED BY <1>1, <1>2, PTL DEF Spec

-----------------------------------------------------------------------------
(* The timer is armed again                                                *)

\* No step of any context takes a live, watching monitor out of the watch: the
\* callback's kick does not depend on the branch it took.
THEOREM WatchNeverLapses == Spec => StaysWatched
<1>1. TypeOK /\ [Next]_vars => [mod' = "live" /\ Watched => Watched']_vars
  <2> SUFFICES ASSUME TypeOK, Next, mod' = "live", Watched
               PROVE  Watched'
    BY DEF vars, Watched, timer, dwork, swork, memory, counts, history
  <2> USE DEF Feed, Cb, Exit, Watched, timer, counts
  <2>1. CASE Tick
    BY <2>1 DEF Tick
  <2>2. CASE ModuleInit
    BY <2>2 DEF ModuleInit
  <2>3. CASE FeedStep
    BY <2>3 DEF FeedStep, FeedStart, FeedCollect, FeedArm, FeedRequeue, mod_timer
  <2>4. CASE TimerExpire
    BY <2>4 DEF TimerExpire, Branch
  <2>5. CASE CbStep
    BY <2>5 DEF CbStep, CbReport, CbQueue, CbCollect, CbArm, mod_timer
  <2>6. CASE DumpStart \/ DumpEnd
    BY <2>6 DEF DumpStart, DumpEnd
  <2>7. CASE ExitStep
    BY <2>7 DEF ExitStep, ExitDelTimer, ExitCancelDwork, ExitFlushDwork,
                ExitCancelSwork, ExitFlushSwork, ExitDestroyWq,
                ExitDestroySleepableWq, ExitKfree, ExitUnload
  <2> QED
    BY <2>1, <2>2, <2>3, <2>4, <2>5, <2>6, <2>7 DEF Next
<1> QED BY <1>1, TypeCorrect, PTL DEF Spec, StaysWatched

-----------------------------------------------------------------------------
(* The detailed report                                                     *)

\* What one more timeout does to the value the count determines.
LEMMA QuietStep ==
    ASSUME NEW count \in 0..(CountMod - 1)
    PROVE  /\ Reports(NextCount(count)) => QuietOf(NextCount(count)) = 0
           /\ ~Reports(NextCount(count)) =>
                 /\ QuietOf(count) < MaxQuiet
                 /\ QuietOf(NextCount(count)) = QuietOf(count) + 1
<1>1. CountMod \in Nat /\ CountMod > 10
  BY ConstantsAssumption DEF ConstantsAssumption
<1>2. CASE count + 1 = CountMod
  <2>1. NextCount(count) = 0
    BY <1>1, <1>2 DEF NextCount
  <2> QED BY <2>1 DEF Reports, QuietOf
<1>3. CASE count + 1 # CountMod
  <2>1. NextCount(count) = count + 1
    BY <1>1, <1>3 DEF NextCount
  <2> QED BY <1>1, <2>1 DEF Reports, QuietOf, MaxQuiet
<1> QED BY <1>2, <1>3

\* However far the count has run, and across its wrap, at most seven timeouts
\* in a row go without a report.
THEOREM ReportsOften == Spec => []QuietBound
<1>1. Init => QuietInv
  BY DEF Init, QuietInv, QuietOf, Reports
<1>2. TypeOK /\ QuietInv /\ [Next]_vars => QuietInv'
  <2> SUFFICES ASSUME TypeOK, QuietInv, [Next]_vars PROVE QuietInv'
    OBVIOUS
  <2>1. CASE TimerExpire
    <3>1. CASE mod = "gone"
      BY <2>1, <3>1 DEF TimerExpire, QuietInv, counts
    <3>2. CASE mod # "gone"
      <4>1. softwdt_timeout_count \in 0..(CountMod - 1)
        BY DEF TypeOK
      <4>2. QuietOf(softwdt_timeout_count) \in 0..MaxQuiet
        BY <4>1 DEF QuietOf, Reports, MaxQuiet, TypeOK, QuietInv
      <4> QED
        BY <2>1, <3>2, <4>1, <4>2, QuietStep DEF TimerExpire, QuietInv
    <3> QED BY <3>1, <3>2
  <2>2. CASE UNCHANGED counts
    BY <2>2 DEF QuietInv, counts
  <2> QED
    BY <2>1, <2>2
    DEF Feed, Cb, Exit, Next, vars, Tick, ModuleInit, FeedStep, FeedStart, FeedCollect, FeedArm,
        FeedRequeue, CbStep, CbReport, CbQueue, CbCollect, CbArm, DumpStart, DumpEnd,
        ExitStep, ExitDelTimer, ExitCancelDwork, ExitFlushDwork, ExitCancelSwork,
        ExitFlushSwork, ExitDestroyWq, ExitDestroySleepableWq, ExitKfree, ExitUnload
<1>3. TypeOK /\ QuietInv => QuietBound
  BY DEF TypeOK, QuietInv, QuietOf, Reports, QuietBound, MaxQuiet
<1> QED BY <1>1, <1>2, <1>3, TypeCorrect, PTL DEF Spec

-----------------------------------------------------------------------------
(* The exit function                                                       *)

\* The exit function's order: the feeder is off and idle before the queue it
\* requeues itself on is destroyed, and each resource is freed at its step.
LEMMA TeardownOrder == Spec => []TeardownInv
<1>1. Init => TeardownInv
  BY DEF Init, TeardownInv, FeederQuiescent
<1>2. TypeOK /\ TeardownInv /\ [Next]_vars => TeardownInv'
  <2> SUFFICES ASSUME TypeOK, TeardownInv, [Next]_vars PROVE TeardownInv'
    OBVIOUS
  <2> USE DEF Feed, Cb, Exit, TeardownInv, FeederQuiescent, memory, dwork
  <2>1. CASE Tick \/ TimerExpire \/ CbStep \/ DumpStart \/ DumpEnd
    BY <2>1 DEF Tick, TimerExpire, CbStep, CbReport, CbQueue, CbCollect, CbArm,
                DumpStart, DumpEnd
  <2>2. CASE ModuleInit
    BY <2>2 DEF ModuleInit, queue_delayed_work
  <2>3. CASE FeedStart
    BY <2>3 DEF FeedStart, FeederDue
  <2>4. CASE FeedCollect \/ FeedArm
    BY <2>4 DEF FeedCollect, FeedArm
  <2>5. CASE FeedRequeue
    BY <2>5 DEF FeedRequeue, queue_delayed_work
  <2>6. CASE ExitStep
    BY <2>6 DEF ExitStep, ExitDelTimer, ExitCancelDwork, ExitFlushDwork,
                ExitCancelSwork, ExitFlushSwork, ExitDestroyWq,
                ExitDestroySleepableWq, ExitKfree, ExitUnload
  <2>7. CASE UNCHANGED vars
    BY <2>7 DEF vars
  <2> QED
    BY <2>1, <2>2, <2>3, <2>4, <2>5, <2>6, <2>7 DEF Next, FeedStep
<1> QED BY <1>1, <1>2, TypeCorrect, PTL DEF Spec

\* Whatever cancel_delayed_work_sync raced with, the feeder is gone when it returns.
THEOREM FeederStops == Spec => []FeederQuiescent
<1>1. TeardownInv => FeederQuiescent
  BY DEF TeardownInv
<1> QED BY <1>1, TeardownOrder, PTL

\* Without a kick between del_timer_sync and the end of cancel_delayed_work_sync the
\* timer and its callback stay off.
LEMMA LateKick == Spec => []LateKickInv
<1>1. Init => LateKickInv
  BY DEF Init, LateKickInv, Exiting, ExitSteps
<1>2. TypeOK /\ TeardownInv /\ LateKickInv /\ [Next]_vars => LateKickInv'
  <2> SUFFICES ASSUME TypeOK, TeardownInv, LateKickInv, [Next]_vars, ~rearmed'
               PROVE  (/\ fault = "none"
                       /\ mod \in Exiting => ~timer_armed /\ cb = "idle")'
    BY DEF LateKickInv
  <2> USE DEF Feed, Cb, Exit, LateKickInv, TeardownInv, FeederQuiescent, Exiting, ExitSteps, timer,
              history
  <2>1. CASE Tick
    BY <2>1 DEF Tick
  <2>2. CASE ModuleInit
    BY <2>2 DEF ModuleInit
  <2>3. CASE FeedStart
    BY <2>3 DEF FeedStart
  <2>4. CASE FeedCollect
    BY <2>4 DEF FeedCollect, Touch
  <2>5. CASE FeedArm
    BY <2>5 DEF FeedArm
  <2>6. CASE FeedRequeue
    BY <2>6 DEF FeedRequeue, Touch
  <2>7. CASE TimerExpire
    BY <2>7 DEF TimerExpire
  <2>8. CASE CbStep
    BY <2>8 DEF CbStep, CbReport, CbQueue, CbCollect, CbArm, Touch, TypeOK
  <2>9. CASE DumpStart \/ DumpEnd
    BY <2>9 DEF DumpStart, DumpEnd
  <2>10. CASE ExitStep
    BY <2>10 DEF ExitStep, ExitDelTimer, ExitCancelDwork, ExitFlushDwork,
                 ExitCancelSwork, ExitFlushSwork, ExitDestroyWq,
                 ExitDestroySleepableWq, ExitKfree, ExitUnload
  <2>11. CASE UNCHANGED vars
    BY <2>11 DEF vars
  <2> QED
    BY <2>1, <2>2, <2>3, <2>4, <2>5, <2>6, <2>7, <2>8, <2>9, <2>10, <2>11
    DEF Next, FeedStep
<1> QED BY <1>1, <1>2, TypeCorrect, TeardownOrder, PTL DEF Spec

\* Without such a kick the teardown touches nothing that is gone.
THEOREM OnlyALateKickFaults == Spec => []FaultNeedsLateKick
<1>1. LateKickInv => FaultNeedsLateKick
  BY DEF LateKickInv, FaultNeedsLateKick
<1> QED BY <1>1, LateKick, PTL

\* When the module is gone, so are its queues, its array and its feeder; without a late
\* kick nothing of it is armed, queued or running either.
UnloadLeavesNothing ==
    mod = "gone" =>
        /\ softwdt_wq = "freed" /\ sleepable_task_wq = "freed" /\ prev_cpu_usage_stats # "live"
        /\ fd = "idle" /\ ~dwork_pending
        /\ ~rearmed => ~timer_armed /\ cb = "idle" /\ ~swork_pending /\ ~dumping

\* The exit function undoes all of init, whichever of its allocations failed and
\* wherever the feeder, the callback and the dump were when it began.
THEOREM UnloadIsComplete == Spec => []UnloadLeavesNothing
<1>1. Init => MemoryInv /\ DumpInv
  BY DEF Init, MemoryInv, DumpInv
<1>2. TypeOK /\ MemoryInv /\ [Next]_vars => MemoryInv'
  <2> SUFFICES ASSUME TypeOK, MemoryInv, [Next]_vars PROVE MemoryInv'
    OBVIOUS
  <2> USE DEF Feed, Cb, Exit, MemoryInv, memory
  <2>1. CASE Tick \/ FeedStep \/ TimerExpire \/ CbStep \/ DumpStart \/ DumpEnd
    BY <2>1 DEF Tick, FeedStep, FeedStart, FeedCollect, FeedArm, FeedRequeue, TimerExpire,
                CbStep, CbReport, CbQueue, CbCollect, CbArm, DumpStart, DumpEnd
  <2>2. CASE ModuleInit
    BY <2>2 DEF ModuleInit
  <2>3. CASE ExitStep
    BY <2>3 DEF ExitStep, ExitDelTimer, ExitCancelDwork, ExitFlushDwork,
                ExitCancelSwork, ExitFlushSwork, ExitDestroyWq,
                ExitDestroySleepableWq, ExitKfree, ExitUnload
  <2>4. CASE UNCHANGED vars
    BY <2>4 DEF vars
  <2> QED BY <2>1, <2>2, <2>3, <2>4 DEF Next
<1>3. TypeOK /\ LateKickInv /\ DumpInv /\ [Next]_vars => DumpInv'
  <2> SUFFICES ASSUME TypeOK, LateKickInv, DumpInv, [Next]_vars, ~rearmed' PROVE DumpInv'
    BY DEF DumpInv
  <2> USE DEF Feed, Cb, Exit, DumpInv, LateKickInv, Exiting, ExitSteps, TypeOK, swork, history
  <2>1. CASE Tick \/ FeedStep \/ TimerExpire \/ ModuleInit
    BY <2>1 DEF Tick, FeedStep, FeedStart, FeedCollect, FeedArm, FeedRequeue, TimerExpire,
                ModuleInit
  <2>2. CASE CbStep
    <3>1. ~rearmed
      BY <2>2 DEF CbStep, CbReport, CbQueue, CbCollect, CbArm
    <3>2. cb # "idle"
      BY <2>2 DEF CbStep, CbReport, CbQueue, CbCollect, CbArm
    <3>3. mod' = mod /\ mod \notin Exiting
      BY <2>2, <3>1, <3>2 DEF CbStep, CbReport, CbQueue, CbCollect, CbArm
    <3> QED BY <3>3
  <2>3. CASE DumpStart \/ DumpEnd
    BY <2>3 DEF DumpStart, DumpEnd
  <2>4. CASE ExitStep
    BY <2>4 DEF ExitStep, ExitDelTimer, ExitCancelDwork, ExitFlushDwork,
                ExitCancelSwork, ExitFlushSwork, ExitDestroyWq,
                ExitDestroySleepableWq, ExitKfree, ExitUnload
  <2>5. CASE UNCHANGED vars
    BY <2>5 DEF vars
  <2> QED BY <2>1, <2>2, <2>3, <2>4, <2>5 DEF Next
<1>4. TeardownInv /\ LateKickInv /\ MemoryInv /\ DumpInv => UnloadLeavesNothing
  BY DEF TeardownInv, FeederQuiescent, LateKickInv, MemoryInv, DumpInv, UnloadLeavesNothing,
         Exiting
<1> QED BY <1>1, <1>2, <1>3, <1>4, TypeCorrect, TeardownOrder, LateKick, PTL DEF Spec

-----------------------------------------------------------------------------
(* The watch                                                               *)

\* The steps that do not concern the timer
LEMMA WatchStutter ==
    ASSUME UNCHANGED <<mod, timer_armed, cb, softwdt_timeout_count, rearmed>>
    PROVE  UNCHANGED Timer!vars
BY DEF Timer!vars, Stage

\* Each step of the feeder, the softirq and rmmod is a step of the abstract watch, or
\* does not concern it: for every interval, timeout and width of the count.
THEOREM TimerIsAWatch == Spec => ImplementsWatch
<1>1. Init => Timer!Init
  BY DEF Init, Timer!Init, Stage
<1>2. TypeOK /\ TeardownInv /\ LateKickInv /\ [Next]_vars => [Timer!Next]_(Timer!vars)
  <2> SUFFICES ASSUME TypeOK, TeardownInv, LateKickInv, [Next]_vars
               PROVE  Timer!Next \/ UNCHANGED Timer!vars
    OBVIOUS
  <2> USE DEF Feed, Cb, Exit, timer, counts, history
  <2>1. CASE Tick
    BY <2>1, WatchStutter DEF Tick
  <2>2. CASE ModuleInit
    <3>1. Timer!Open
      BY <2>2 DEF ModuleInit, Timer!Open, Stage
    <3> QED BY <3>1 DEF Timer!Next
  <2>3. CASE FeedStart \/ FeedCollect \/ FeedRequeue
    BY <2>3, WatchStutter DEF FeedStart, FeedCollect, FeedRequeue
  <2>4. CASE FeedArm
    <3>1. mod \in {"live", "cancel_dwork", "flush_dwork"}
      BY <2>4 DEF FeedArm, TeardownInv, FeederQuiescent, TypeOK, ExitSteps
    <3>2. Timer!Kick
      BY <2>4, <3>1 DEF FeedArm, mod_timer, Timer!Kick, Stage
    <3> QED BY <3>2 DEF Timer!Next
  <2>5. CASE TimerExpire
    <3>1. CASE mod = "gone"
      <4>1. Timer!Lost
        BY <2>5, <3>1 DEF TimerExpire, Timer!Lost, Stage, LateKickInv, Exiting
      <4> QED BY <4>1 DEF Timer!Next
    <3>2. CASE mod # "gone"
      <4>1. Timer!Expire
        BY <2>5, <3>2 DEF TimerExpire, Timer!Expire, Stage, Branch, NextCount
      <4> QED BY <4>1 DEF Timer!Next
    <3> QED BY <3>1, <3>2
  <2>6. CASE CbReport \/ CbQueue \/ CbCollect
    <3>1. UNCHANGED <<mod, timer_armed, softwdt_timeout_count, rearmed>>
          /\ cb # "idle" /\ cb' # "idle"
      BY <2>6 DEF CbReport, CbQueue, CbCollect
    <3> QED BY <3>1 DEF Timer!vars, Stage
  <2>7. CASE CbArm
    <3>1. Timer!Handled
      BY <2>7 DEF CbArm, mod_timer, Timer!Handled, Stage
    <3> QED BY <3>1 DEF Timer!Next
  <2>8. CASE DumpStart \/ DumpEnd
    BY <2>8, WatchStutter DEF DumpStart, DumpEnd
  <2>9. CASE ExitDelTimer
    <3>1. Timer!Close
      BY <2>9 DEF ExitDelTimer, Timer!Close, Stage
    <3> QED BY <3>1 DEF Timer!Next
  <2>10. CASE ExitFlushDwork
    <3>1. Timer!Closed
      BY <2>10 DEF ExitFlushDwork, Timer!Closed, Stage
    <3> QED BY <3>1 DEF Timer!Next
  <2>11. CASE ExitCancelDwork \/ ExitCancelSwork \/ ExitFlushSwork \/ ExitDestroyWq
              \/ ExitDestroySleepableWq \/ ExitKfree \/ ExitUnload
    BY <2>11 DEF ExitCancelDwork, ExitCancelSwork, ExitFlushSwork, ExitDestroyWq,
                 ExitDestroySleepableWq, ExitKfree, ExitUnload, Timer!vars, Stage
  <2>12. CASE UNCHANGED vars
    BY <2>12, WatchStutter DEF vars
  <2> QED
    BY <2>1, <2>2, <2>3, <2>4, <2>5, <2>6, <2>7, <2>8, <2>9, <2>10, <2>11, <2>12
    DEF Next, FeedStep, CbStep, ExitStep
<1> QED
  BY <1>1, <1>2, TypeCorrect, TeardownOrder, LateKick, PTL DEF Spec, ImplementsWatch, Timer!Spec

-----------------------------------------------------------------------------
(* No false alarm                                                          *)

\* A feeder that is at most MaxLag late when it starts and ends keeps the timer
\* from expiring, for every interval and timeout that leave twice the lag.
THEOREM TimelyFeederPreventsAlarm == Spec => []NoFalseAlarm
<1>1. Init => AlarmInv
  BY DEF Init, AlarmInv, Overdue, FeederDue
<1>2. TypeOK /\ AlarmInv /\ [Next]_vars => AlarmInv'
  <2> SUFFICES ASSUME TypeOK, AlarmInv, [Next]_vars, Timely
               PROVE  AlarmInv'
    BY DEF AlarmInv, Timely
  <2>0. /\ KICK \in Nat /\ TIMEOUT \in Nat /\ MaxLag \in Nat
        /\ KICK + 2 * MaxLag < TIMEOUT /\ Punctual
        /\ timer_left \in Nat /\ dwork_left \in Nat
        /\ late \in Nat /\ late <= MaxLag
    BY ConstantsAssumption DEF ConstantsAssumption, TypeOK, Timely
  <2> USE <2>0 DEF Feed, Cb, Exit, AlarmInv, Overdue, FeederDue, Slack, timer, dwork, counts
  <2>1. CASE Tick
    BY <2>1 DEF Tick, TypeOK
  <2>2. CASE ModuleInit
    BY <2>2 DEF ModuleInit, queue_delayed_work
  <2>3. CASE FeedStart
    BY <2>3 DEF FeedStart
  <2>4. CASE FeedCollect
    BY <2>4 DEF FeedCollect
  <2>5. CASE FeedArm
    BY <2>5 DEF FeedArm, mod_timer
  <2>6. CASE FeedRequeue
    BY <2>6 DEF FeedRequeue, queue_delayed_work, kick_time
  <2>7. CASE TimerExpire
    BY <2>7 DEF TimerExpire, TypeOK
  <2>8. CASE CbStep
    BY <2>8 DEF CbStep, CbReport, CbQueue, CbCollect, CbArm
  <2>9. CASE DumpStart \/ DumpEnd
    BY <2>9 DEF DumpStart, DumpEnd
  <2>10. CASE ExitStep
    BY <2>10 DEF ExitStep, ExitDelTimer, ExitCancelDwork, ExitFlushDwork,
                 ExitCancelSwork, ExitFlushSwork, ExitDestroyWq,
                 ExitDestroySleepableWq, ExitKfree, ExitUnload
  <2>11. CASE UNCHANGED vars
    BY <2>11 DEF vars
  <2> QED
    BY <2>1, <2>2, <2>3, <2>4, <2>5, <2>6, <2>7, <2>8, <2>9, <2>10, <2>11
    DEF Next, FeedStep
<1>3. AlarmInv => NoFalseAlarm
  BY DEF AlarmInv, NoFalseAlarm, Timely
<1> QED BY <1>1, <1>2, <1>3, TypeCorrect, PTL DEF Spec

=============================================================================
