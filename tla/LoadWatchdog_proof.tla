------------------------ MODULE LoadWatchdog_proof ------------------------
(***************************************************************************)
(* Theorems about LoadWatchdog, for every width of the timeout count.      *)
(***************************************************************************)
EXTENDS LoadWatchdog, TLAPS

\* How far the exit function has come ...
AfterFlush == {"kfree", "unload", "gone"}
Exiting    == ExitSteps \cup {"gone"}

\* ... and what that has established, as long as no late kick interferes: the
\* timer and its callback are off, so nobody queues the work again, and the work
\* is over when the memory goes.
QuietExitInv ==
    ~rearmed =>
      /\ ~fault
      /\ mod \in Exiting => ~timer_armed /\ cb = "idle"
      /\ mod = "wait_flush" => /\ barrier # "none" \/ (~work_pending /\ ~working)
                               /\ barrier = "pending" <=> work_pending
      /\ version = 2 /\ mod \in {"wait_work", "destroy_wq", "drain_info_wq"} => ~work_pending
      /\ version = 2 /\ mod \in {"destroy_wq", "drain_info_wq"} => ~working
      /\ mod \in AfterFlush => ~work_pending /\ ~working

\* Which steps each version takes, and what is freed at which of them.
OrderInv ==
    /\ version = 1 => mod \notin {"cancel_work", "wait_work", "drain_info_wq"}
    /\ version = 2 => mod \notin {"flush_work", "wait_flush"}
    /\ mod \in {"absent", "failed"} => fd = "idle" /\ ~dwork_pending
    /\ mod = "wait_dwork" => ~dwork_pending
    /\ mod \in Exiting \ {"cancel_dwork", "wait_dwork"} => fd = "idle" /\ ~dwork_pending
    /\ watchdog_wq = "freed" =>
           mod \in {"flush_work", "wait_flush", "drain_info_wq"} \cup AfterFlush
    /\ get_task_info_wq = "freed" => mod \in AfterFlush
    /\ prev = "freed" => mod \in {"unload", "gone"}

\* A live module has the queues of its version, and the exit function frees all that
\* init made: the queue of version 2 with the dump before the previous times.
MemoryInv ==
    /\ mod \in {"live", "cancel_dwork", "wait_dwork", "cancel_work", "wait_work", "destroy_wq"}
           => watchdog_wq = "live"
    /\ mod \in {"flush_work", "wait_flush", "drain_info_wq"} \cup AfterFlush
           => watchdog_wq = "freed"
    /\ version = 1 => get_task_info_wq = "none"
    /\ version = 2 /\ mod \in AfterFlush => get_task_info_wq = "freed"
    /\ mod \in {"unload", "gone"} => prev # "live"

-----------------------------------------------------------------------------
(* Types                                                                   *)

LEMMA NextCountType ==
    ASSUME NEW count \in 0..(CountMod - 1)
    PROVE  NextCount(count) \in 0..(CountMod - 1)
<1>1. CountMod \in Nat /\ CountMod > 11
  BY CountModAssumption DEF CountModAssumption
<1>2. CASE count + 1 = CountMod
  BY <1>1, <1>2 DEF NextCount
<1>3. CASE count + 1 < CountMod
  BY <1>1, <1>3 DEF NextCount
<1> QED BY <1>1, <1>2, <1>3

LEMMA TypeInit == Init => TypeOK
<1> SUFFICES ASSUME Init PROVE TypeOK
  OBVIOUS
<1>1. /\ timer_armed \in BOOLEAN /\ dwork_pending \in BOOLEAN /\ work_pending \in BOOLEAN
      /\ working \in BOOLEAN /\ fault \in BOOLEAN /\ rearmed \in BOOLEAN
  BY Zenon DEF Init
<1>2. watchdog_timeout_count \in 0..(CountMod - 1)
  BY CountModAssumption DEF CountModAssumption, Init
<1> QED
  BY <1>1, <1>2 DEF Init, TypeOK, Resource

\* The Boolean variables, which each step copies or sets.
LEMMA BooleanStep ==
    ASSUME TypeOK, [Next]_vars
    PROVE  /\ timer_armed' \in BOOLEAN /\ dwork_pending' \in BOOLEAN
           /\ work_pending' \in BOOLEAN /\ working' \in BOOLEAN
           /\ fault' \in BOOLEAN /\ rearmed' \in BOOLEAN
<1> USE DEF TypeOK, Feed, Cb, Work, Exit, Touch, dwork, work, memory
<1>1. CASE ModuleInit
  BY <1>1, Zenon DEF ModuleInit
<1>2. CASE FeedStart
  BY <1>2, Zenon DEF FeedStart
<1>3. CASE FeedCollect
  BY <1>3, Zenon DEF FeedCollect
<1>4. CASE FeedArm
  BY <1>4, Zenon DEF FeedArm
<1>5. CASE FeedRequeue
  BY <1>5, Zenon DEF FeedRequeue
<1>6. CASE TimerExpire
  BY <1>6, Zenon DEF TimerExpire
<1>7. CASE CbCalculate
  BY <1>7, Zenon DEF CbCalculate
<1>8. CASE CbQueue
  BY <1>8, Zenon DEF CbQueue
<1>9. CASE CbCollect
  BY <1>9, Zenon DEF CbCollect
<1>10. CASE CbArm
  BY <1>10, Zenon DEF CbArm
<1>11. CASE WorkStart
  BY <1>11, Zenon DEF WorkStart
<1>12. CASE WorkEnd
  BY <1>12, Zenon DEF WorkEnd
<1>13. CASE ExitStep
  <2>1. UNCHANGED <<working, fault, rearmed>>
    BY <1>13 DEF ExitStep, ExitDelTimer, ExitCancelDwork, ExitWaitDwork, ExitCancelWork,
                 ExitWaitWork, ExitDestroyWq, ExitFlushWork, ExitWaitFlush,
                 ExitDestroyInfoWq, ExitKfree, ExitUnload
  <2>2. timer_armed' \in BOOLEAN
    BY <1>13, Zenon DEF ExitStep, ExitDelTimer, ExitCancelDwork, ExitWaitDwork,
                 ExitCancelWork, ExitWaitWork, ExitDestroyWq, ExitFlushWork,
                 ExitWaitFlush, ExitDestroyInfoWq, ExitKfree, ExitUnload
  <2>3. dwork_pending' \in BOOLEAN
    BY <1>13, Zenon DEF ExitStep, ExitDelTimer, ExitCancelDwork, ExitWaitDwork,
                 ExitCancelWork, ExitWaitWork, ExitDestroyWq, ExitFlushWork,
                 ExitWaitFlush, ExitDestroyInfoWq, ExitKfree, ExitUnload
  <2>4. work_pending' \in BOOLEAN
    BY <1>13, Zenon DEF ExitStep, ExitDelTimer, ExitCancelDwork, ExitWaitDwork,
                 ExitCancelWork, ExitWaitWork, ExitDestroyWq, ExitFlushWork,
                 ExitWaitFlush, ExitDestroyInfoWq, ExitKfree, ExitUnload
  <2> QED BY <2>1, <2>2, <2>3, <2>4
<1>14. CASE UNCHANGED vars
  BY <1>14 DEF vars
<1> QED
  BY <1>1, <1>2, <1>3, <1>4, <1>5, <1>6, <1>7, <1>8, <1>9, <1>10, <1>11, <1>12,
     <1>13, <1>14 DEF Next, CbStep

LEMMA TypeStep == TypeOK /\ [Next]_vars => TypeOK'
<1> SUFFICES ASSUME TypeOK, [Next]_vars PROVE TypeOK'
  OBVIOUS
<1>0. /\ timer_armed' \in BOOLEAN /\ dwork_pending' \in BOOLEAN
      /\ work_pending' \in BOOLEAN /\ working' \in BOOLEAN
      /\ fault' \in BOOLEAN /\ rearmed' \in BOOLEAN
  BY BooleanStep
<1> USE <1>0 DEF TypeOK, Feed, Cb, Work, Exit, AtKick, Resource, ExitSteps, dwork, work, memory
<1>1. CASE ModuleInit
  BY <1>1 DEF ModuleInit
<1>2. CASE FeedStart \/ FeedCollect \/ FeedArm \/ FeedRequeue
  BY <1>2 DEF FeedStart, FeedCollect, FeedArm, FeedRequeue
<1>3. CASE TimerExpire
  <2>1. watchdog_timeout_count' \in 0..(CountMod - 1)
    BY <1>3, NextCountType DEF TimerExpire
  <2>2. cb' \in {"idle", "calculate", "queue", "collect", "arm"}
    BY <1>3 DEF TimerExpire
  <2> QED BY <1>3, <2>1, <2>2 DEF TimerExpire
<1>4. CASE CbStep
  BY <1>4 DEF CbStep, CbCalculate, CbQueue, CbCollect, CbArm
<1>5. CASE WorkStart \/ WorkEnd
  BY <1>5 DEF WorkStart, WorkEnd
<1>6. CASE ExitDelTimer \/ ExitCancelDwork \/ ExitWaitDwork \/ ExitCancelWork \/ ExitWaitWork
  BY <1>6 DEF ExitDelTimer, ExitCancelDwork, ExitWaitDwork, ExitCancelWork, ExitWaitWork
<1>7. CASE ExitDestroyWq \/ ExitWaitFlush \/ ExitDestroyInfoWq \/ ExitKfree \/ ExitUnload
  BY <1>7 DEF ExitDestroyWq, ExitWaitFlush, ExitDestroyInfoWq, ExitKfree, ExitUnload
<1>8. CASE ExitFlushWork
  <2>1. barrier' \in {"none", "pending", "running"}
    BY <1>8 DEF ExitFlushWork
  <2> QED BY <1>8, <2>1 DEF ExitFlushWork
<1>9. CASE UNCHANGED vars
  BY <1>9 DEF vars
<1> QED
  BY <1>1, <1>2, <1>3, <1>4, <1>5, <1>6, <1>7, <1>8, <1>9 DEF Next, ExitStep

\* TypeOK: every variable keeps its type, the wrapping uint32_t count included.
THEOREM TypeCorrect == Spec => []TypeOK
BY TypeInit, TypeStep, PTL DEF Spec

-----------------------------------------------------------------------------
(* The lapse                                                               *)

\* A count that is not reported is past ten.
LEMMA SilentCount ==
    ASSUME NEW count \in Nat, ~Retries(count)
    PROVE  count > 10 /\ count % 10 # 0
<1>1. count % 10 # 0
  BY DEF Retries
<1>2. ~(count < 10)
  BY DEF Retries
<1>3. count # 10
  <2>1. 10 % 10 = 0
    OBVIOUS
  <2> QED BY <1>1, <2>1
<1>4. count > 10
  BY <1>2, <1>3
<1> QED BY <1>1, <1>4

\* LapsesPastTenOnly: for every width of the count, each step of a live, watching
\* module leaves it watching, but for the callback of a timeout past the tenth
\* that is no multiple of ten.
THEOREM LapseIsPastTen == Spec => LapsesPastTenOnly
<1>1. TypeOK /\ [Next]_vars =>
        (mod' = "live" /\ Watched /\ ~Watched'
           => watchdog_timeout_count' > 10 /\ watchdog_timeout_count' % 10 # 0)
  <2> SUFFICES ASSUME TypeOK, [Next]_vars, mod' = "live", Watched, ~Watched'
               PROVE  watchdog_timeout_count' > 10 /\ watchdog_timeout_count' % 10 # 0
    OBVIOUS
  <2> USE DEF Watched
  <2>1. CASE TimerExpire
    <3>1. cb' = "idle" /\ mod # "gone"
      BY <2>1 DEF TimerExpire
    <3>2. ~Retries(watchdog_timeout_count')
      BY <2>1, <3>1 DEF TimerExpire, AtKick
    <3>3. watchdog_timeout_count' \in Nat
      BY <2>1, TypeStep DEF TypeOK
    <3> QED BY <3>2, <3>3, SilentCount
  <2>2. CASE FeedStart \/ FeedCollect \/ FeedArm \/ FeedRequeue
    BY <2>2 DEF FeedStart, FeedCollect, FeedArm, FeedRequeue, Feed
  <2>3. CASE CbStep
    BY <2>3 DEF CbStep, CbCalculate, CbQueue, CbCollect, CbArm, Cb, AtKick
  <2>4. CASE WorkStart \/ WorkEnd
    BY <2>4 DEF WorkStart, WorkEnd, Work
  <2>5. CASE ModuleInit
    BY <2>5 DEF ModuleInit
  <2>6. CASE ExitStep
    BY <2>6 DEF ExitStep, ExitDelTimer, ExitCancelDwork, ExitWaitDwork, ExitCancelWork,
                ExitWaitWork, ExitDestroyWq, ExitFlushWork, ExitWaitFlush,
                ExitDestroyInfoWq, ExitKfree, ExitUnload, Exit
  <2>7. CASE UNCHANGED vars
    BY <2>7 DEF vars
  <2> QED BY <2>1, <2>2, <2>3, <2>4, <2>5, <2>6, <2>7 DEF Next
<1> QED BY <1>1, TypeCorrect, PTL DEF Spec, LapsesPastTenOnly

-----------------------------------------------------------------------------
(* The exit function                                                       *)

LEMMA OrderStep == TypeOK /\ OrderInv /\ [Next]_vars => OrderInv'
<1> SUFFICES ASSUME TypeOK, OrderInv, [Next]_vars PROVE OrderInv'
  OBVIOUS
<1> USE DEF OrderInv, Exiting, ExitSteps, AfterFlush, Feed, Cb, Work, Exit, dwork, work, memory
<1>1. CASE ModuleInit
  BY <1>1 DEF ModuleInit
<1>2. CASE FeedStart \/ FeedCollect \/ FeedArm
  BY <1>2 DEF FeedStart, FeedCollect, FeedArm
<1>3. CASE FeedRequeue
  BY <1>3 DEF FeedRequeue
<1>4. CASE TimerExpire \/ CbStep
  BY <1>4 DEF TimerExpire, CbStep, CbCalculate, CbQueue, CbCollect, CbArm
<1>5. CASE WorkStart \/ WorkEnd
  BY <1>5 DEF WorkStart, WorkEnd
<1>6. CASE ExitDelTimer \/ ExitCancelDwork \/ ExitWaitDwork
  BY <1>6 DEF ExitDelTimer, ExitCancelDwork, ExitWaitDwork, TypeOK
<1>7. CASE ExitCancelWork \/ ExitWaitWork \/ ExitDestroyWq \/ ExitFlushWork \/ ExitWaitFlush
  BY <1>7 DEF ExitCancelWork, ExitWaitWork, ExitDestroyWq, ExitFlushWork, ExitWaitFlush, TypeOK
<1>8. CASE ExitDestroyInfoWq \/ ExitKfree \/ ExitUnload
  BY <1>8 DEF ExitDestroyInfoWq, ExitKfree, ExitUnload
<1>9. CASE UNCHANGED vars
  BY <1>9 DEF vars
<1> QED
  BY <1>1, <1>2, <1>3, <1>4, <1>5, <1>6, <1>7, <1>8, <1>9 DEF Next, ExitStep

\* Without a late kick, a step of the feeder in the exit function cannot be its
\* kick, and the callback has ended.
LEMMA QuietExitStep == TypeOK /\ OrderInv /\ QuietExitInv /\ [Next]_vars => QuietExitInv'
<1> SUFFICES ASSUME TypeOK, OrderInv, QuietExitInv, [Next]_vars, ~rearmed' PROVE QuietExitInv'
  BY DEF QuietExitInv
<1>0. ~rearmed
  BY DEF Next, ModuleInit, FeedStart, FeedCollect, FeedArm, FeedRequeue, TimerExpire,
         CbStep, CbCalculate, CbQueue, CbCollect, CbArm, WorkStart, WorkEnd, Work, Cb, ExitStep,
         ExitDelTimer, ExitCancelDwork, ExitWaitDwork, ExitCancelWork, ExitWaitWork,
         ExitDestroyWq, ExitFlushWork, ExitWaitFlush, ExitDestroyInfoWq, ExitKfree,
         ExitUnload, Exit, vars
<1> USE <1>0 DEF QuietExitInv, OrderInv, Exiting, ExitSteps, AfterFlush, Feed, Cb, Work, Exit,
                 Touch, dwork, work, memory
<1>1. CASE ModuleInit
  BY <1>1 DEF ModuleInit
<1>2. CASE FeedStart
  BY <1>2 DEF FeedStart
<1>3. CASE FeedCollect
  BY <1>3 DEF FeedCollect, TypeOK
<1>4. CASE FeedArm
  BY <1>4 DEF FeedArm
<1>5. CASE FeedRequeue
  BY <1>5 DEF FeedRequeue, TypeOK
<1>6. CASE TimerExpire
  BY <1>6 DEF TimerExpire
<1>7. CASE CbStep
  BY <1>7 DEF CbStep, CbCalculate, CbQueue, CbCollect, CbArm, TypeOK
<1>8. CASE WorkStart
  BY <1>8 DEF WorkStart, TypeOK
<1>9. CASE WorkEnd
  BY <1>9 DEF WorkEnd, TypeOK
<1>10. CASE ExitDelTimer \/ ExitCancelDwork \/ ExitWaitDwork \/ ExitCancelWork \/ ExitWaitWork
  BY <1>10 DEF ExitDelTimer, ExitCancelDwork, ExitWaitDwork, ExitCancelWork, ExitWaitWork, TypeOK
<1>11. CASE ExitDestroyWq \/ ExitDestroyInfoWq \/ ExitKfree \/ ExitUnload
  BY <1>11 DEF ExitDestroyWq, ExitDestroyInfoWq, ExitKfree, ExitUnload, TypeOK
<1>12. CASE ExitFlushWork
  BY <1>12 DEF ExitFlushWork, TypeOK
<1>13. CASE ExitWaitFlush
  BY <1>13 DEF ExitWaitFlush, TypeOK
<1>14. CASE UNCHANGED vars
  BY <1>14 DEF vars
<1> QED
  BY <1>1, <1>2, <1>3, <1>4, <1>5, <1>6, <1>7, <1>8, <1>9, <1>10, <1>11, <1>12,
     <1>13, <1>14 DEF Next, ExitStep

LEMMA Order == Spec => []OrderInv
<1>1. Init => OrderInv
  BY DEF Init, OrderInv, Exiting, ExitSteps, AfterFlush
<1> QED BY <1>1, TypeInit, TypeStep, OrderStep, PTL DEF Spec

LEMMA QuietExit == Spec => []QuietExitInv
<1>1. Init => QuietExitInv
  BY DEF Init, QuietExitInv, Exiting, ExitSteps, AfterFlush
<1> QED BY <1>1, TypeCorrect, Order, QuietExitStep, PTL DEF Spec

\* FaultNeedsLateKick: in both versions, without a kick in the window of the exit
\* function nothing that has been freed is used.
THEOREM OnlyALateKickFaults == Spec => []FaultNeedsLateKick
<1>1. QuietExitInv => FaultNeedsLateKick
  BY DEF QuietExitInv, FaultNeedsLateKick
<1> QED BY <1>1, QuietExit, PTL

LEMMA MemoryStep == TypeOK /\ OrderInv /\ MemoryInv /\ [Next]_vars => MemoryInv'
<1> SUFFICES ASSUME TypeOK, OrderInv, MemoryInv, [Next]_vars PROVE MemoryInv'
  OBVIOUS
<1> USE DEF MemoryInv, OrderInv, AfterFlush, TypeOK, Feed, Cb, Work, Exit, dwork, work, memory
<1>1. CASE ModuleInit
  BY <1>1 DEF ModuleInit
<1>2. CASE \/ FeedStart \/ FeedCollect \/ FeedArm \/ FeedRequeue
           \/ TimerExpire \/ CbStep \/ WorkStart \/ WorkEnd
  BY <1>2 DEF FeedStart, FeedCollect, FeedArm, FeedRequeue, TimerExpire, CbStep,
              CbCalculate, CbQueue, CbCollect, CbArm, WorkStart, WorkEnd
<1>3. CASE ExitDelTimer \/ ExitCancelDwork \/ ExitWaitDwork \/ ExitCancelWork \/ ExitWaitWork
  BY <1>3 DEF ExitDelTimer, ExitCancelDwork, ExitWaitDwork, ExitCancelWork, ExitWaitWork
<1>4. CASE ExitDestroyWq \/ ExitFlushWork \/ ExitWaitFlush
  BY <1>4 DEF ExitDestroyWq, ExitFlushWork, ExitWaitFlush
<1>5. CASE ExitDestroyInfoWq \/ ExitKfree \/ ExitUnload
  BY <1>5 DEF ExitDestroyInfoWq, ExitKfree, ExitUnload
<1>6. CASE UNCHANGED vars
  BY <1>6 DEF vars
<1> QED BY <1>1, <1>2, <1>3, <1>4, <1>5, <1>6 DEF Next, ExitStep

\* When the module is gone, so are the queues of its version, its array and its feeder.
\* Without a late kick nothing of it is armed, queued or running either: the flush of
\* version 1 falls short only after one (AllWorkDone).
UnloadLeavesNothing ==
    mod = "gone" =>
        /\ watchdog_wq = "freed" /\ prev # "live"
        /\ get_task_info_wq = IF version = 2 THEN "freed" ELSE "none"
        /\ fd = "idle" /\ ~dwork_pending
        /\ ~rearmed => ~timer_armed /\ cb = "idle" /\ ~work_pending /\ ~working

\* The exit function of either version undoes all of its init, wherever the feeder, the
\* callback and the work were when it began.
THEOREM UnloadIsComplete == Spec => []UnloadLeavesNothing
<1>1. Init => MemoryInv
  BY DEF Init, MemoryInv, AfterFlush
<1>2. TypeOK /\ OrderInv /\ QuietExitInv /\ MemoryInv => UnloadLeavesNothing
  BY DEF TypeOK, OrderInv, QuietExitInv, MemoryInv, UnloadLeavesNothing, Exiting, AfterFlush,
         ExitSteps
<1> QED BY <1>1, <1>2, TypeCorrect, Order, QuietExit, MemoryStep, PTL DEF Spec

-----------------------------------------------------------------------------
(* The watch                                                               *)

LEMMA RetriesReported ==
    ASSUME NEW count \in 0..(CountMod - 1)
    PROVE  Retries(count) <=> count \notin Unreported
<1>1. CASE Retries(count)
  BY <1>1 DEF Retries, Unreported
<1>2. CASE ~Retries(count)
  <2>1. count \in Nat
    BY CountModAssumption DEF CountModAssumption
  <2>2. count > 10 /\ count % 10 # 0
    BY <1>2, <2>1, SilentCount
  <2> QED BY <1>2, <2>1, <2>2 DEF Unreported
<1> QED BY <1>1, <1>2

\* The steps that do not concern the timer
LEMMA WatchStutter ==
    ASSUME UNCHANGED <<mod, timer_armed, cb, watchdog_timeout_count, rearmed>>
    PROVE  UNCHANGED Timer!vars
BY DEF Timer!vars, Stage

\* Both versions: each step of the feeder, the softirq and rmmod is a step of a watch
\* that is given up at the unreported counts, or does not concern it.
THEOREM TimerIsAWatch == Spec => ImplementsWatch
<1>1. Init => Timer!Init
  BY DEF Init, Timer!Init, Stage
<1>2. TypeOK /\ OrderInv /\ QuietExitInv /\ [Next]_vars => [Timer!Next]_(Timer!vars)
  <2> SUFFICES ASSUME TypeOK, OrderInv, QuietExitInv, [Next]_vars
               PROVE  Timer!Next \/ UNCHANGED Timer!vars
    OBVIOUS
  <2> USE DEF Feed, Cb, Work, Exit, AtKick
  <2>1. CASE ModuleInit
    <3>1. Timer!Open
      BY <2>1 DEF ModuleInit, Timer!Open, Stage
    <3> QED BY <3>1 DEF Timer!Next
  <2>2. CASE FeedStart \/ FeedCollect \/ FeedRequeue
    BY <2>2, WatchStutter DEF FeedStart, FeedCollect, FeedRequeue
  <2>3. CASE FeedArm
    <3>1. mod \in {"live", "cancel_dwork", "wait_dwork"}
      BY <2>3 DEF FeedArm, OrderInv, Exiting, TypeOK, ExitSteps
    <3>2. Timer!Kick
      BY <2>3, <3>1 DEF FeedArm, Timer!Kick, Stage
    <3> QED BY <3>2 DEF Timer!Next
  <2>4. CASE TimerExpire
    <3>1. CASE mod = "gone"
      <4>1. Timer!Lost
        BY <2>4, <3>1 DEF TimerExpire, Timer!Lost, Stage, QuietExitInv, Exiting
      <4> QED BY <4>1 DEF Timer!Next
    <3>2. CASE mod # "gone"
      <4> DEFINE next == NextCount(watchdog_timeout_count)
      <4>1. next = (watchdog_timeout_count + 1) % CountMod
        BY DEF NextCount
      <4>2. next \in 0..(CountMod - 1)
        BY NextCountType DEF TypeOK
      <4>3. Retries(next) <=> next \notin Unreported
        BY <4>2, RetriesReported
      <4>4. watchdog_timeout_count' = next /\ (cb' # "idle" <=> Retries(next))
        BY <2>4, <3>2 DEF TimerExpire
      <4>5. Timer!Expire
        BY <2>4, <3>2, <4>1, <4>3, <4>4, Zenon DEF TimerExpire, Timer!Expire, Stage
      <4> QED BY <4>5 DEF Timer!Next
    <3> QED BY <3>1, <3>2
  <2>5. CASE CbCalculate \/ CbQueue \/ CbCollect
    <3>1. UNCHANGED <<mod, timer_armed, watchdog_timeout_count, rearmed>>
          /\ cb # "idle" /\ cb' # "idle"
      BY <2>5 DEF CbCalculate, CbQueue, CbCollect
    <3> QED BY <3>1 DEF Timer!vars, Stage
  <2>6. CASE CbArm
    <3>1. Timer!Handled
      BY <2>6 DEF CbArm, Timer!Handled, Stage
    <3> QED BY <3>1 DEF Timer!Next
  <2>7. CASE WorkStart \/ WorkEnd
    BY <2>7, WatchStutter DEF WorkStart, WorkEnd
  <2>8. CASE ExitDelTimer
    <3>1. Timer!Close
      BY <2>8 DEF ExitDelTimer, Timer!Close, Stage
    <3> QED BY <3>1 DEF Timer!Next
  <2>9. CASE ExitWaitDwork
    <3>1. Timer!Closed
      BY <2>9 DEF ExitWaitDwork, Timer!Closed, Stage
    <3> QED BY <3>1 DEF Timer!Next
  <2>10. CASE ExitCancelDwork \/ ExitCancelWork \/ ExitWaitWork \/ ExitDestroyWq
               \/ ExitFlushWork \/ ExitWaitFlush \/ ExitDestroyInfoWq \/ ExitKfree \/ ExitUnload
    BY <2>10 DEF ExitCancelDwork, ExitCancelWork, ExitWaitWork, ExitDestroyWq, ExitFlushWork,
                 ExitWaitFlush, ExitDestroyInfoWq, ExitKfree, ExitUnload, Timer!vars, Stage
  <2>11. CASE UNCHANGED vars
    BY <2>11, WatchStutter DEF vars
  <2> QED
    BY <2>1, <2>2, <2>3, <2>4, <2>5, <2>6, <2>7, <2>8, <2>9, <2>10, <2>11
    DEF Next, CbStep, ExitStep
<1> QED
  BY <1>1, <1>2, TypeCorrect, Order, QuietExit, PTL DEF Spec, ImplementsWatch, Timer!Spec
=============================================================================
