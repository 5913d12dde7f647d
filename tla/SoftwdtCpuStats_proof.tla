----------------------- MODULE SoftwdtCpuStats_proof -----------------------
(***************************************************************************)
(* Theorems about SoftwdtCpuStats, for every number of cpus and every bound *)
(* of the accounted time.                                                  *)
(***************************************************************************)
EXTENDS SoftwdtCpuStats, TLAPS

Counters == [rest: Nat, idle: Nat, intr: Nat]

\* TypeOK without the bound of the times.
Shape ==
    /\ kcpustat \in [Cpus -> Counters]
    /\ prev_cpu_usage_stats \in
           [Cpus -> [prev_idle: Nat, prev_total: Nat, prev_interrupt: Nat]]
    /\ at \in [Context -> Place]
    /\ op \in [Context -> {"CALCULATE_USAGE", "COLLECT_TIMINGS"}]
    /\ cpu \in [Context -> Cpus]
    /\ snap \in [Context -> Counters]
    /\ armed \in BOOLEAN
    /\ report \in [usage_ok: BOOLEAN, interrupt_ok: BOOLEAN,
                   torn: BOOLEAN, mixed: BOOLEAN]
    /\ overtaken \in BOOLEAN
    /\ late_intr \in BOOLEAN
    /\ mixed \subseteq Cpus

\* a counter set is no more than another
Leq(r, s) == r.rest <= s.rest /\ r.idle <= s.idle /\ r.intr <= s.intr

\* What has been read or stored is no more than what the kernel counts.
BasicInv ==
    /\ Shape
    /\ \A c \in Cpus : Sum(kcpustat[c]) <= MaxTime
    /\ \A x \in Context : Leq(snap[x], kcpustat[cpu[x]])
    /\ \A x \in Context : at[x] \in {"idle", "user", "mod_timer"} => snap[x] = Zero
    /\ \A c \in Cpus : /\ prev_cpu_usage_stats[c].prev_idle <= kcpustat[c].idle
                       /\ prev_cpu_usage_stats[c].prev_total <= Sum(kcpustat[c])
                       /\ prev_cpu_usage_stats[c].prev_interrupt <= kcpustat[c].intr

\* The array's entry for c, and for the cpu a context is at.
p(c)  == prev_cpu_usage_stats[c]
px(x) == prev_cpu_usage_stats[cpu[x]]

There(x, place, c) == at[x] = place /\ cpu[x] = c
Torn(c) == There("feeder", "store_2", c) /\ overtaken

\* The array never holds more than rest + interrupt time between its idle and
\* its total, Torn excepted; the first clauses say why the stores keep it so.
UsageInv ==
    /\ op["feeder"] = "COLLECT_TIMINGS" /\ at["feeder"] # "calculate"
    /\ at["feeder"] = "store_2" => snap["feeder"].idle <= px("feeder").prev_idle
    /\ at["feeder"] \in {"irq", "store_1"} /\ ~overtaken
          => px("feeder").prev_idle <= snap["feeder"].idle
    /\ cpu["feeder"] = cpu["callback"]
       /\ at["callback"] \in {"irq", "calculate", "store_1", "store_2", "store_3"}
          => snap["feeder"].idle <= snap["callback"].idle
    /\ at["callback"] \in {"irq", "calculate", "store_1"}
          => px("callback").prev_idle <= snap["callback"].idle
    /\ at["callback"] = "store_2" => px("callback").prev_idle = snap["callback"].idle
    /\ \A c \in Cpus :
          Torn(c) \/ p(c).prev_total <= p(c).prev_idle + kcpustat[c].rest + kcpustat[c].intr

\* The same about what the callback has read of the cpu it is at.
ReadInv ==
    LET k == kcpustat[cpu["callback"]]
        s == snap["callback"]
        q == px("callback")
    IN
    /\ at["callback"] = "idle_time" =>
          /\ q.prev_total <= s.rest + k.idle + k.intr
          /\ Torn(cpu["callback"]) \/ q.prev_total <= q.prev_idle + s.rest + k.intr
    /\ at["callback"] = "irq" =>
          /\ q.prev_total <= s.rest + s.idle + k.intr
          /\ Torn(cpu["callback"]) \/ q.prev_total <= q.prev_idle + s.rest + k.intr
    /\ at["callback"] = "calculate" =>
          /\ q.prev_total <= Sum(s)
          /\ Torn(cpu["callback"]) \/ q.prev_total <= q.prev_idle + s.rest + s.intr

NestedUsageInv == Nested => UsageInv /\ ReadInv

\* The interrupt time: a total newer than it is what mixed, and the place
\* between the two stores, stand for.
Mixed(c) == c \in mixed \/ There("feeder", "store_3", c)

InterruptInv ==
    LET k == kcpustat[cpu["callback"]]
        s == snap["callback"]
        q == px("callback")
    IN
    /\ at["feeder"] = "store_3" /\ ~late_intr => px("feeder").prev_total = total("feeder")
    /\ at["callback"] = "store_3" => q.prev_total = total("callback")
    /\ \A c \in Cpus :
          \/ Mixed(c) \/ There("callback", "store_3", c)
          \/ p(c).prev_total <= p(c).prev_interrupt + kcpustat[c].rest + kcpustat[c].idle
    /\ at["callback"] = "idle_time" =>
          Mixed(cpu["callback"]) \/ q.prev_total <= q.prev_interrupt + s.rest + k.idle
    /\ at["callback"] = "irq" =>
          Mixed(cpu["callback"]) \/ q.prev_total <= q.prev_interrupt + s.rest + s.idle
    /\ at["callback"] = "calculate" =>
          /\ q.prev_interrupt <= s.intr
          /\ Mixed(cpu["callback"]) \/ q.prev_total <= q.prev_interrupt + s.rest + s.idle

NestedInterruptInv == Nested => InterruptInv

-----------------------------------------------------------------------------
LEMMA CpuFact == CPU \in Nat /\ CPU > 0
BY ConstantsAssumption DEF ConstantsAssumption

\* The kernel's counters only grow.
LEMMA AccountGrows ==
    ASSUME Shape, Account
    PROVE  /\ kcpustat' \in [Cpus -> Counters]
           /\ \A c \in Cpus : Leq(kcpustat[c], kcpustat'[c])
           /\ (\A c \in Cpus : Sum(kcpustat[c]) <= MaxTime)
                => (\A c \in Cpus : Sum(kcpustat'[c]) <= MaxTime)
<1>1. PICK c \in Cpus, kind \in {"rest", "idle", "intr"} :
          /\ Sum(kcpustat[c]) < MaxTime
          /\ kcpustat' = [kcpustat EXCEPT ![c][kind] = @ + 1]
  BY DEF Account
<1>2. CASE kind = "rest"
  BY <1>1, <1>2, ConstantsAssumption DEF ConstantsAssumption, Shape, Counters, Leq, Sum
<1>3. CASE kind = "idle"
  BY <1>1, <1>3, ConstantsAssumption DEF ConstantsAssumption, Shape, Counters, Leq, Sum
<1>4. CASE kind = "intr"
  BY <1>1, <1>4, ConstantsAssumption DEF ConstantsAssumption, Shape, Counters, Leq, Sum
<1> QED BY <1>1, <1>2, <1>3, <1>4

\* Reading one counter of a cpu.
LEMMA ReadEffect ==
    ASSUME Shape, NEW x \in Context,
           NEW place \in Place, NEW kind \in {"rest", "idle", "intr"}, NEW next \in Place,
           Read(x, place, kind, next)
    PROVE  /\ snap' \in [Context -> Counters]
           /\ at' \in [Context -> Place]
           /\ \A y \in Context : y # x => snap'[y] = snap[y] /\ at'[y] = at[y]
           /\ at'[x] = next
           /\ \A k \in {"rest", "idle", "intr"} :
                 snap'[x][k] = IF k = kind THEN kcpustat[cpu[x]][k] ELSE snap[x][k]
<1>1. cpu[x] \in Cpus /\ kcpustat[cpu[x]] \in Counters
  BY DEF Shape
<1>2. kcpustat[cpu[x]][kind] \in Nat
  BY <1>1 DEF Counters
<1> QED BY <1>1, <1>2 DEF Read, Shape, Goto, Counters

\* One store changes one field of one entry.
LEMMA StoreEffect ==
    ASSUME Shape, NEW x \in Context, NEW place \in Place,
           NEW field \in {"prev_idle", "prev_total", "prev_interrupt"},
           Store(x, place, field)
    PROVE  /\ prev_cpu_usage_stats' \in
                  [Cpus -> [prev_idle: Nat, prev_total: Nat, prev_interrupt: Nat]]
           /\ \A c \in Cpus : c # cpu[x] => prev_cpu_usage_stats'[c] = prev_cpu_usage_stats[c]
           /\ \A g \in {"prev_idle", "prev_total", "prev_interrupt"} :
                 prev_cpu_usage_stats'[cpu[x]][g] =
                    IF g = field THEN Value(x, field) ELSE prev_cpu_usage_stats[cpu[x]][g]
<1>1. cpu[x] \in Cpus /\ snap[x] \in Counters
  BY DEF Shape
<1>2. Value(x, field) \in Nat
  BY <1>1 DEF Value, total, Sum, Counters
<1>3. prev_cpu_usage_stats[cpu[x]] \in [prev_idle: Nat, prev_total: Nat, prev_interrupt: Nat]
  BY <1>1 DEF Shape
<1>4. prev_cpu_usage_stats' =
         [prev_cpu_usage_stats EXCEPT ![cpu[x]][field] = Value(x, field)]
  BY DEF Store
<1>5. prev_cpu_usage_stats'[cpu[x]] =
         [prev_cpu_usage_stats[cpu[x]] EXCEPT ![field] = Value(x, field)]
  BY <1>1, <1>4 DEF Shape
<1>6. prev_cpu_usage_stats'[cpu[x]] \in [prev_idle: Nat, prev_total: Nat, prev_interrupt: Nat]
  BY <1>2, <1>3, <1>5
<1>7. \A c \in Cpus : c # cpu[x] => prev_cpu_usage_stats'[c] = prev_cpu_usage_stats[c]
  BY <1>4 DEF Shape
<1>8. prev_cpu_usage_stats' \in
         [Cpus -> [prev_idle: Nat, prev_total: Nat, prev_interrupt: Nat]]
  BY <1>1, <1>4, <1>6, <1>7 DEF Shape
<1>9. \A g \in {"prev_idle", "prev_total", "prev_interrupt"} :
         prev_cpu_usage_stats'[cpu[x]][g] =
            IF g = field THEN Value(x, field) ELSE prev_cpu_usage_stats[cpu[x]][g]
  BY <1>3, <1>5
<1> QED BY <1>7, <1>8, <1>9

\* The end of the loop's body forgets what was read.
LEMMA NextCpuEffect ==
    ASSUME Shape, NEW x \in Context, NextCpu(x)
    PROVE  /\ snap' \in [Context -> Counters] /\ snap'[x] = Zero
           /\ cpu' \in [Context -> Cpus]
           /\ at' \in [Context -> Place]
           /\ op' \in [Context -> {"CALCULATE_USAGE", "COLLECT_TIMINGS"}]
           /\ at'[x] \in {"user", "mod_timer"}
           /\ op[x] = "COLLECT_TIMINGS" => op'[x] = "COLLECT_TIMINGS"
           /\ \A y \in Context : y # x =>
                 snap'[y] = snap[y] /\ cpu'[y] = cpu[y] /\ at'[y] = at[y] /\ op'[y] = op[y]
<1>1. Zero \in Counters
  BY DEF Zero, Counters
<1>2. snap' = [snap EXCEPT ![x] = Zero]
  BY DEF NextCpu
<1>3. CASE ~AtLastCpu(x)
  <2>1. /\ cpu' = [cpu EXCEPT ![x] = @ + 1]
        /\ at' = [at EXCEPT ![x] = "user"]
        /\ op' = op
    BY <1>3 DEF NextCpu, Goto
  <2>2. cpu[x] + 1 \in Cpus
    <3>1. cpu[x] \in Cpus
      BY DEF Shape
    <3> QED BY <1>3, <3>1, CpuFact DEF Cpus, AtLastCpu
  <2> QED BY <1>1, <1>2, <2>1, <2>2 DEF Shape, Place
<1>4. CASE AtLastCpu(x) /\ op[x] = "CALCULATE_USAGE"
  <2>1. /\ cpu' = [cpu EXCEPT ![x] = 0]
        /\ at' = [at EXCEPT ![x] = "user"]
        /\ op' = [op EXCEPT ![x] = "COLLECT_TIMINGS"]
    BY <1>4 DEF NextCpu, Goto, Enter
  <2>2. 0 \in Cpus
    BY CpuFact DEF Cpus
  <2> QED BY <1>1, <1>2, <2>1, <2>2 DEF Shape, Place
<1>5. CASE AtLastCpu(x) /\ op[x] # "CALCULATE_USAGE"
  <2>1. /\ cpu' = cpu
        /\ at' = [at EXCEPT ![x] = "mod_timer"]
        /\ op' = op
    BY <1>5 DEF NextCpu, Goto
  <2> QED BY <1>1, <1>2, <2>1 DEF Shape, Place
<1> QED BY <1>3, <1>4, <1>5

\* A context enters the function at the loop's first cpu.
LEMMA EnterEffect ==
    ASSUME Shape, NEW x \in Context,
           NEW operation \in {"CALCULATE_USAGE", "COLLECT_TIMINGS"},
           Enter(x, operation)
    PROVE  /\ cpu' \in [Context -> Cpus]
           /\ at' \in [Context -> Place]
           /\ op' \in [Context -> {"CALCULATE_USAGE", "COLLECT_TIMINGS"}]
           /\ at'[x] = "user" /\ op'[x] = operation
           /\ \A y \in Context : y # x =>
                 cpu'[y] = cpu[y] /\ at'[y] = at[y] /\ op'[y] = op[y]
<1>1. 0 \in Cpus
  BY CpuFact DEF Cpus
<1> QED BY <1>1 DEF Enter, Goto, Shape, Place

-----------------------------------------------------------------------------
(* Types                                                                   *)

LEMMA BasicInit == Init => BasicInv
<1> SUFFICES ASSUME Init PROVE BasicInv
  OBVIOUS
<1>1. Zero \in Counters /\ Sum(Zero) = 0 /\ Leq(Zero, Zero)
  BY DEF Zero, Counters, Sum, Leq
<1>2. 0 \in Cpus /\ MaxTime \in Nat
  BY CpuFact, ConstantsAssumption DEF Cpus, ConstantsAssumption
<1>3. overtaken \in BOOLEAN /\ late_intr \in BOOLEAN /\ armed \in BOOLEAN
  BY Zenon DEF Init
<1>4. report \in [usage_ok: BOOLEAN, interrupt_ok: BOOLEAN, torn: BOOLEAN, mixed: BOOLEAN]
  BY DEF Init
<1>5. Shape
  BY <1>1, <1>2, <1>3, <1>4 DEF Init, Shape, Context, Place
<1> QED BY <1>1, <1>2, <1>5 DEF Init, BasicInv, Context, Zero

LEMMA BasicStep == BasicInv /\ [Next]_vars => BasicInv'
<1> SUFFICES ASSUME BasicInv, [Next]_vars PROVE BasicInv'
  OBVIOUS
<1>0. /\ Shape
      /\ \A x \in Context : cpu[x] \in Cpus /\ snap[x] \in Counters /\ at[x] \in Place
      /\ \A c \in Cpus : kcpustat[c] \in Counters
                        /\ p(c) \in [prev_idle: Nat, prev_total: Nat, prev_interrupt: Nat]
  BY DEF BasicInv, Shape, p
<1> USE DEF Leq
<1>1. CASE Account
  <2>1. /\ kcpustat' \in [Cpus -> Counters]
        /\ \A c \in Cpus : Leq(kcpustat[c], kcpustat'[c])
        /\ \A c \in Cpus : Sum(kcpustat'[c]) <= MaxTime
    BY <1>0, <1>1, AccountGrows DEF BasicInv
  <2>2. UNCHANGED <<prev_cpu_usage_stats, at, op, cpu, snap, armed, report,
                    overtaken, late_intr, mixed>>
    BY <1>1 DEF Account
  <2>3. Shape'
    BY <1>0, <2>1, <2>2 DEF Shape
  <2>4. \A c \in Cpus : kcpustat'[c] \in Counters
    BY <2>1
  <2> QED BY <1>0, <2>1, <2>2, <2>3, <2>4 DEF BasicInv, Counters, Sum, p
<1>2. CASE Feed
  <2>1. Enter("feeder", "COLLECT_TIMINGS")
    BY <1>2 DEF Feed
  <2> QED
    BY <1>0, <1>2, <2>1, EnterEffect DEF Feed, BasicInv, Shape, Context, Counters, Zero
<1>3. CASE Timeout
  <2>1. PICK operation \in {"CALCULATE_USAGE", "COLLECT_TIMINGS"} : Enter("callback", operation)
    BY <1>3 DEF Timeout
  <2>2. armed' \in BOOLEAN
    BY <1>3, Zenon DEF Timeout
  <2> QED
    BY <1>0, <1>3, <2>1, <2>2, EnterEffect
    DEF Timeout, BasicInv, Shape, Context, Counters, Zero
<1>4. ASSUME NEW x \in Context,
             ReadUser(x) \/ ReadIdle(x) \/ ReadIrq(x)
      PROVE  BasicInv'
  <2>1. PICK place \in {"user", "idle_time", "irq"}, kind \in {"rest", "idle", "intr"},
             next \in {"idle_time", "irq", "calculate", "store_1"} :
           Read(x, place, kind, next)
    BY <1>4 DEF ReadUser, ReadIdle, ReadIrq
  <2>2. overtaken' \in BOOLEAN
    BY <1>4, <1>0 DEF ReadUser, ReadIdle, ReadIrq, Shape
  <2>3. /\ snap' \in [Context -> Counters]
        /\ at' \in [Context -> Place]
        /\ \A y \in Context : y # x => snap'[y] = snap[y] /\ at'[y] = at[y]
        /\ at'[x] = next
        /\ \A k \in {"rest", "idle", "intr"} :
              snap'[x][k] = IF k = kind THEN kcpustat[cpu[x]][k] ELSE snap[x][k]
    BY <1>0, <2>1, ReadEffect DEF Place
  <2>4. /\ snap'[x].rest = IF kind = "rest" THEN kcpustat[cpu[x]].rest ELSE snap[x].rest
        /\ snap'[x].idle = IF kind = "idle" THEN kcpustat[cpu[x]].idle ELSE snap[x].idle
        /\ snap'[x].intr = IF kind = "intr" THEN kcpustat[cpu[x]].intr ELSE snap[x].intr
    BY <2>3
  <2>5. UNCHANGED <<kcpustat, prev_cpu_usage_stats, op, cpu, armed, report, late_intr, mixed>>
    BY <2>1 DEF Read
  <2>6. Shape'
    BY <1>0, <2>2, <2>3, <2>5 DEF Shape
  <2>7. \A y \in Context : Leq(snap'[y], kcpustat'[cpu'[y]])
    BY <1>0, <2>3, <2>4, <2>5 DEF BasicInv, Counters
  <2> QED BY <2>1, <2>3, <2>5, <2>6, <2>7 DEF BasicInv
<1>5. ASSUME NEW x \in Context, Calculate(x)
      PROVE  BasicInv'
  <2>1. NextCpu(x)
    BY <1>5 DEF Calculate
  <2>2. UNCHANGED <<kcpustat, prev_cpu_usage_stats, armed, overtaken, late_intr, mixed>>
    BY <1>5 DEF Calculate
  <2>3. report' \in [usage_ok: BOOLEAN, interrupt_ok: BOOLEAN, torn: BOOLEAN, mixed: BOOLEAN]
    BY <1>5, Zenon DEF Calculate
  <2>4. \A y \in Context : /\ snap'[y] \in Counters
                           /\ y # x => snap'[y] = snap[y] /\ cpu'[y] = cpu[y] /\ at'[y] = at[y]
                           /\ y = x => snap'[y] = Zero
                           /\ cpu'[y] \in Cpus
    BY <1>0, <2>1, NextCpuEffect
  <2>5. Shape'
    BY <1>0, <2>1, <2>2, <2>3, NextCpuEffect DEF Shape
  <2>6. \A y \in Context : Leq(snap'[y], kcpustat'[cpu'[y]])
    BY <1>0, <2>2, <2>4 DEF BasicInv, Zero, Counters
  <2> QED BY <2>2, <2>4, <2>5, <2>6 DEF BasicInv
<1>6. ASSUME NEW x \in Context, StoreFirst(x) \/ StoreSecond(x) \/ StoreThird(x)
      PROVE  BasicInv'
  <2>1. PICK place \in {"store_1", "store_2", "store_3"},
             field \in {"prev_idle", "prev_total", "prev_interrupt"} :
           Store(x, place, field)
    BY <1>6 DEF StoreFirst, StoreSecond, StoreThird, Stores
  <2>2. UNCHANGED <<kcpustat, armed, report>>
    BY <2>1 DEF Store
  <2>3. overtaken' \in BOOLEAN
    BY <1>0, <2>1, Zenon DEF Store, Shape
  <2>4. late_intr' \in BOOLEAN /\ mixed' \subseteq Cpus
    BY <1>6, <1>0 DEF StoreFirst, StoreSecond, StoreThird, Shape
  <2>5. /\ snap' \in [Context -> Counters]
        /\ cpu' \in [Context -> Cpus]
        /\ at' \in [Context -> Place]
        /\ op' \in [Context -> {"CALCULATE_USAGE", "COLLECT_TIMINGS"}]
        /\ \A y \in Context : Leq(snap'[y], kcpustat'[cpu'[y]])
        /\ \A y \in Context : at'[y] \in {"idle", "user", "mod_timer"} => snap'[y] = Zero
    <3>1. CASE StoreFirst(x) \/ StoreSecond(x)
      BY <1>0, <2>2, <3>1 DEF StoreFirst, StoreSecond, Goto, BasicInv, Shape, Place
    <3>2. CASE StoreThird(x)
      <4>1. NextCpu(x)
        BY <3>2 DEF StoreThird
      <4>2. \A y \in Context :
               /\ y # x => snap'[y] = snap[y] /\ cpu'[y] = cpu[y] /\ at'[y] = at[y]
               /\ y = x => snap'[y] = Zero
               /\ cpu'[y] \in Cpus
        BY <1>0, <4>1, NextCpuEffect
      <4>3. \A y \in Context : Leq(snap'[y], kcpustat'[cpu'[y]])
        BY <1>0, <2>2, <4>2 DEF BasicInv, Zero, Counters
      <4>4. \A y \in Context : at'[y] \in {"idle", "user", "mod_timer"} => snap'[y] = Zero
        BY <4>2 DEF BasicInv
      <4> QED
        BY <1>0, <4>1, <4>3, <4>4, NextCpuEffect
    <3> QED BY <1>6, <3>1, <3>2
  <2>6. /\ prev_cpu_usage_stats' \in
               [Cpus -> [prev_idle: Nat, prev_total: Nat, prev_interrupt: Nat]]
        /\ \A c \in Cpus : c # cpu[x] => prev_cpu_usage_stats'[c] = prev_cpu_usage_stats[c]
        /\ \A g \in {"prev_idle", "prev_total", "prev_interrupt"} :
              prev_cpu_usage_stats'[cpu[x]][g] =
                 IF g = field THEN Value(x, field) ELSE prev_cpu_usage_stats[cpu[x]][g]
    BY <1>0, <2>1, StoreEffect DEF Place
  <2>7. Shape'
    BY <1>0, <2>2, <2>3, <2>4, <2>5, <2>6 DEF Shape
  <2>8. /\ field = "prev_idle" => Value(x, field) <= kcpustat[cpu[x]].idle
        /\ field = "prev_total" => Value(x, field) <= Sum(kcpustat[cpu[x]])
        /\ field = "prev_interrupt" => Value(x, field) <= kcpustat[cpu[x]].intr
    BY <1>0 DEF BasicInv, Value, total, Sum, Counters
  <2>9. \A c \in Cpus : /\ prev_cpu_usage_stats'[c].prev_idle <= kcpustat'[c].idle
                        /\ prev_cpu_usage_stats'[c].prev_total <= Sum(kcpustat'[c])
                        /\ prev_cpu_usage_stats'[c].prev_interrupt <= kcpustat'[c].intr
    BY <2>2, <2>6, <2>8 DEF BasicInv
  <2> QED BY <2>2, <2>5, <2>7, <2>9 DEF BasicInv
<1>7. ASSUME NEW x \in Context, Arm(x)
      PROVE  BasicInv'
  <2>1. armed' \in BOOLEAN
    BY <1>7, Zenon DEF Arm
  <2> QED BY <1>0, <1>7, <2>1 DEF Arm, Goto, BasicInv, Shape, Place
<1>8. CASE UNCHANGED vars
  BY <1>0, <1>8 DEF vars, BasicInv, Shape
<1> QED
  BY <1>1, <1>2, <1>3, <1>4, <1>5, <1>6, <1>7, <1>8 DEF Next

\* What the reports are computed from stays within the accounted time.
THEOREM TypeCorrect == Spec => []TypeOK
<1>1. BasicInv => TypeOK
  <2> SUFFICES ASSUME BasicInv PROVE TypeOK
    OBVIOUS
  <2>1. MaxTime \in Nat
    BY ConstantsAssumption DEF ConstantsAssumption
  <2>2. \A c \in Cpus : /\ kcpustat[c] \in [rest: Time, idle: Time, intr: Time]
                        /\ Sum(kcpustat[c]) \in Time
    BY <2>1 DEF BasicInv, Shape, Counters, Sum, Time
  <2>3. \A x \in Context : snap[x] \in [rest: Time, idle: Time, intr: Time]
    BY <2>1, <2>2 DEF BasicInv, Shape, Counters, Leq, Time
  <2>4. \A c \in Cpus : prev_cpu_usage_stats[c] \in
                           [prev_idle: Time, prev_total: Time, prev_interrupt: Time]
    BY <2>1, <2>2 DEF BasicInv, Shape, Time
  <2>5. /\ kcpustat \in [Cpus -> [rest: Time, idle: Time, intr: Time]]
        /\ prev_cpu_usage_stats \in
               [Cpus -> [prev_idle: Time, prev_total: Time, prev_interrupt: Time]]
        /\ snap \in [Context -> [rest: Time, idle: Time, intr: Time]]
    BY <2>2, <2>3, <2>4 DEF BasicInv, Shape
  <2> QED BY <2>5 DEF BasicInv, Shape, TypeOK
<1> QED BY <1>1, BasicInit, BasicStep, PTL DEF Spec

-----------------------------------------------------------------------------
(* The usage                                                               *)

\* The numbers the invariants compare.
LEMMA Numbers ==
    ASSUME BasicInv
    PROVE  /\ \A x \in Context :
                 /\ cpu[x] \in Cpus
                 /\ snap[x].rest \in Nat /\ snap[x].idle \in Nat /\ snap[x].intr \in Nat
           /\ \A c \in Cpus :
                 /\ kcpustat[c].rest \in Nat /\ kcpustat[c].idle \in Nat
                 /\ kcpustat[c].intr \in Nat
                 /\ p(c).prev_idle \in Nat /\ p(c).prev_total \in Nat
                 /\ p(c).prev_interrupt \in Nat
<1>1. \A x \in Context : cpu[x] \in Cpus /\ snap[x] \in Counters
  BY DEF BasicInv, Shape
<1>2. \A c \in Cpus : kcpustat[c] \in Counters
                    /\ p(c) \in [prev_idle: Nat, prev_total: Nat, prev_interrupt: Nat]
  BY DEF BasicInv, Shape, p
<1> QED BY <1>1, <1>2 DEF Counters

LEMMA UsageStep ==
    ASSUME Nested, BasicInv, BasicInv', UsageInv, ReadInv, [Next]_vars
    PROVE  UsageInv' /\ ReadInv'
<1>0. /\ Shape /\ Shape'
      /\ "feeder" \in Context /\ "callback" \in Context
  BY DEF BasicInv, Context
<1>1. CASE Account
  <2>1. \A c \in Cpus : Leq(kcpustat[c], kcpustat'[c])
    BY <1>0, <1>1, AccountGrows
  <2>2. UNCHANGED <<prev_cpu_usage_stats, at, op, cpu, snap, overtaken>>
    BY <1>1 DEF Account
  <2>3. \A c \in Cpus : /\ kcpustat'[c].rest \in Nat /\ kcpustat'[c].idle \in Nat
                        /\ kcpustat'[c].intr \in Nat
    BY Numbers, <1>0, <1>1, AccountGrows DEF Counters
  <2>4. \A c \in Cpus :
           Torn(c) \/ p(c).prev_total <= p(c).prev_idle + kcpustat'[c].rest + kcpustat'[c].intr
    BY <2>1, <2>3, Numbers DEF Leq, UsageInv
  <2>5. UsageInv'
    BY <2>2, <2>4 DEF UsageInv, p, px, Torn, There
  <2>6. ReadInv'
    BY <1>0, <2>1, <2>2, <2>3, Numbers DEF Leq, ReadInv, p, px, Torn, There
  <2> QED BY <2>5, <2>6
<1>2. CASE Feed
  <2>1. Enter("feeder", "COLLECT_TIMINGS")
    BY <1>2 DEF Feed
  <2>2. /\ at'["feeder"] = "user" /\ op'["feeder"] = "COLLECT_TIMINGS"
        /\ at'["callback"] = at["callback"] /\ at["callback"] = "idle"
        /\ at["feeder"] = "idle"
    BY <1>0, <1>2, <2>1, EnterEffect DEF Feed, Running
  <2>3. UNCHANGED <<kcpustat, prev_cpu_usage_stats, snap, overtaken>>
    BY <1>2 DEF Feed
  <2> QED BY <2>2, <2>3 DEF UsageInv, ReadInv, Torn, There, p, px
<1>3. CASE Timeout
  <2>1. PICK operation \in {"CALCULATE_USAGE", "COLLECT_TIMINGS"} : Enter("callback", operation)
    BY <1>3 DEF Timeout
  <2>2. /\ at'["callback"] = "user" /\ at'["feeder"] = at["feeder"]
        /\ cpu'["feeder"] = cpu["feeder"] /\ op'["feeder"] = op["feeder"]
    BY <1>0, <2>1, EnterEffect
  <2>3. UNCHANGED <<kcpustat, prev_cpu_usage_stats, snap, overtaken>>
    BY <1>3 DEF Timeout
  <2> QED BY <2>2, <2>3 DEF UsageInv, ReadInv, Torn, There, p, px
<1>4. CASE UNCHANGED vars
  BY <1>4 DEF vars, UsageInv, ReadInv, Torn, There, p, px
<1>5. ASSUME NEW x \in Context, Arm(x)
      PROVE  UsageInv' /\ ReadInv'
  BY <1>0, <1>5 DEF Arm, Goto, Shape, UsageInv, ReadInv, Torn, There, p, px
<1>6. ASSUME NEW x \in Context, ReadUser(x) \/ ReadIdle(x) \/ ReadIrq(x)
      PROVE  UsageInv' /\ ReadInv'
  <2>1. PICK place \in {"user", "idle_time", "irq"}, kind \in {"rest", "idle", "intr"},
             next \in {"idle_time", "irq", "calculate", "store_1"} :
           /\ Read(x, place, kind, next)
           /\ place = "user" => kind = "rest" /\ next = "idle_time"
           /\ place = "idle_time" => kind = "idle" /\ next = "irq"
           /\ place = "irq" => /\ kind = "intr"
                               /\ next = IF op[x] = "CALCULATE_USAGE" THEN "calculate"
                                                                      ELSE "store_1"
           /\ overtaken' = IF place = "user" THEN overtaken /\ x # "feeder" ELSE overtaken
    <3>1. CASE ReadUser(x)
      BY <3>1 DEF ReadUser
    <3>2. CASE ReadIdle(x)
      BY <3>2 DEF ReadIdle
    <3>3. CASE ReadIrq(x)
      BY <3>3 DEF ReadIrq
    <3> QED BY <1>6, <3>1, <3>2, <3>3
  <2>2. /\ \A y \in Context : y # x => snap'[y] = snap[y] /\ at'[y] = at[y]
        /\ at[x] = place /\ at'[x] = next
        /\ snap'[x].rest = IF kind = "rest" THEN kcpustat[cpu[x]].rest ELSE snap[x].rest
        /\ snap'[x].idle = IF kind = "idle" THEN kcpustat[cpu[x]].idle ELSE snap[x].idle
        /\ snap'[x].intr = IF kind = "intr" THEN kcpustat[cpu[x]].intr ELSE snap[x].intr
        /\ Running(x)
    <3>1. /\ \A y \in Context : y # x => snap'[y] = snap[y] /\ at'[y] = at[y]
          /\ at'[x] = next
          /\ \A k \in {"rest", "idle", "intr"} :
                snap'[x][k] = IF k = kind THEN kcpustat[cpu[x]][k] ELSE snap[x][k]
      BY <1>0, <2>1, ReadEffect DEF Place
    <3>2. at[x] = place /\ Running(x)
      BY <2>1 DEF Read
    <3> QED BY <3>1, <3>2
  <2>3. UNCHANGED <<kcpustat, prev_cpu_usage_stats, op, cpu>>
    BY <2>1 DEF Read
  <2>4. /\ \A y \in Context : Leq(snap[y], kcpustat[cpu[y]])
        /\ \A c \in Cpus : /\ p(c).prev_idle <= kcpustat[c].idle
                          /\ p(c).prev_total <= kcpustat[c].rest + kcpustat[c].idle
                                                 + kcpustat[c].intr
    BY DEF BasicInv, p, Sum
  <2>5. CASE x = "feeder"
    <3>1. at["callback"] = "idle"
      BY <2>2, <2>5 DEF Running
    <3>2. /\ at'["callback"] = "idle" /\ op["feeder"] = "COLLECT_TIMINGS"
          /\ at["feeder"] # "calculate"
      BY <1>0, <2>2, <2>5, <3>1 DEF UsageInv
    <3>3. at'["feeder"] = next /\ next # "store_2" /\ at["feeder"] # "store_2"
      BY <2>1, <2>2, <2>5
    <3>4. op'["feeder"] = "COLLECT_TIMINGS" /\ next # "calculate"
      BY <2>1, <2>3, <2>5, <3>2
    <3>5. next \in {"irq", "store_1"} /\ ~overtaken'
            => px("feeder")'.prev_idle <= snap'["feeder"].idle
      <4>1. CASE place = "idle_time"
        <5>1. snap'["feeder"].idle = kcpustat[cpu["feeder"]].idle
          BY <2>1, <2>2, <2>5, <4>1
        <5>2. px("feeder")' = p(cpu["feeder"])
          BY <2>3 DEF px, p
        <5> QED BY <1>0, <2>4, <5>1, <5>2, Numbers
      <4>2. CASE place = "irq"
        <5>1. snap'["feeder"].idle = snap["feeder"].idle /\ px("feeder")' = px("feeder")
          BY <2>1, <2>2, <2>3, <2>5, <4>2 DEF px
        <5>2. overtaken' <=> overtaken
          BY <2>1, <4>2
        <5> QED BY <2>2, <2>5, <4>2, <5>1, <5>2 DEF UsageInv
      <4> QED BY <2>1, <4>1, <4>2
    <3>6. \A c \in Cpus : p(c)'.prev_total <= p(c)'.prev_idle + kcpustat'[c].rest
                                                + kcpustat'[c].intr
      BY <2>3, <3>3 DEF UsageInv, Torn, There, p
    <3>7. UsageInv'
      BY <3>2, <3>3, <3>4, <3>5, <3>6 DEF UsageInv, Torn, There
    <3> QED BY <3>2, <3>7 DEF ReadInv
  <2>6. CASE x = "callback"
    <3>1. at'["feeder"] = at["feeder"] /\ snap'["feeder"] = snap["feeder"]
      BY <1>0, <2>2, <2>6
    <3>2. overtaken' = overtaken
      BY <2>1, <2>6, <1>0 DEF Shape
    <3>3. \A c \in Cpus : Torn(c)' <=> Torn(c)
      BY <2>3, <3>1, <3>2 DEF Torn, There
    <3>4. UsageInv'
      BY <1>0, <2>1, <2>2, <2>3, <2>4, <2>6, <3>1, <3>2, Numbers
      DEF UsageInv, Torn, There, p, px, Leq
    <3>5. ReadInv'
      BY <1>0, <2>1, <2>2, <2>3, <2>4, <2>6, <3>3, Numbers
      DEF UsageInv, ReadInv, p, px, Leq, Sum
    <3> QED BY <3>4, <3>5
  <2> QED BY <2>5, <2>6 DEF Context
<1>7. ASSUME NEW x \in Context, Calculate(x)
      PROVE  UsageInv' /\ ReadInv'
  <2>1. NextCpu(x) /\ at[x] = "calculate"
        /\ UNCHANGED <<kcpustat, prev_cpu_usage_stats, overtaken>>
    BY <1>7 DEF Calculate
  <2>2. x = "callback"
    BY <2>1 DEF UsageInv, Context
  <2>3. /\ at'["callback"] \in {"user", "mod_timer"}
        /\ snap'["feeder"] = snap["feeder"] /\ cpu'["feeder"] = cpu["feeder"]
        /\ at'["feeder"] = at["feeder"] /\ op'["feeder"] = op["feeder"]
    BY <1>0, <2>1, <2>2, NextCpuEffect
  <2> QED BY <2>1, <2>3 DEF UsageInv, ReadInv, Torn, There, p, px
<1>8. ASSUME NEW x \in Context, StoreFirst(x) \/ StoreSecond(x) \/ StoreThird(x)
      PROVE  UsageInv' /\ ReadInv'
  <2>1. PICK place \in {"store_1", "store_2", "store_3"},
             field \in {"prev_idle", "prev_total", "prev_interrupt"} :
           /\ Store(x, place, field)
           /\ place = "store_1" => field = "prev_idle"
           /\ place = "store_2" => field = "prev_total"
           /\ place = "store_3" => field = "prev_interrupt"
    BY <1>8 DEF StoreFirst, StoreSecond, StoreThird, Stores
  <2>2. /\ at[x] = place /\ Running(x)
        /\ overtaken' <=> (overtaken \/ Overtakes(x))
        /\ UNCHANGED kcpustat
    BY <2>1 DEF Store
  <2>d. PICK d \in Cpus : d = cpu[x]
    BY <1>0 DEF Shape
  <2>3. /\ \A c \in Cpus : c # d => p(c)' = p(c)
        /\ p(d)'.prev_idle = IF field = "prev_idle" THEN snap[x].idle ELSE p(d).prev_idle
        /\ p(d)'.prev_total = IF field = "prev_total" THEN total(x) ELSE p(d).prev_total
    <3>1. /\ \A c \in Cpus : c # cpu[x] => prev_cpu_usage_stats'[c] = prev_cpu_usage_stats[c]
          /\ \A g \in {"prev_idle", "prev_total", "prev_interrupt"} :
                prev_cpu_usage_stats'[cpu[x]][g] =
                   IF g = field THEN Value(x, field) ELSE prev_cpu_usage_stats[cpu[x]][g]
      BY <1>0, <2>1, StoreEffect DEF Place
    <3>2. \A g \in {"prev_idle", "prev_total"} :
             prev_cpu_usage_stats'[d][g] =
                IF g = field THEN Value(x, field) ELSE prev_cpu_usage_stats[d][g]
      BY <2>d, <3>1
    <3>3. /\ Value(x, "prev_idle") = snap[x].idle
          /\ Value(x, "prev_total") = total(x)
      BY DEF Value
    <3> QED BY <2>d, <3>1, <3>2, <3>3 DEF p
  <2>4. /\ \A y \in Context : y # x => /\ snap'[y] = snap[y] /\ cpu'[y] = cpu[y]
                                       /\ at'[y] = at[y] /\ op'[y] = op[y]
        /\ place # "store_3" => snap'[x] = snap[x] /\ cpu'[x] = cpu[x] /\ op'[x] = op[x]
        /\ place = "store_1" => at'[x] = "store_2"
        /\ place = "store_2" => at'[x] = "store_3"
        /\ place = "store_3" => /\ at'[x] \in {"user", "mod_timer"} /\ snap'[x] = Zero
                                /\ op[x] = "COLLECT_TIMINGS" => op'[x] = "COLLECT_TIMINGS"
    <3>1. CASE StoreFirst(x) \/ StoreSecond(x)
      BY <1>0, <2>2, <3>1 DEF StoreFirst, StoreSecond, Store, Goto, Shape
    <3>2. CASE StoreThird(x)
      BY <1>0, <2>2, <3>2, NextCpuEffect DEF StoreThird, Store
    <3> QED BY <1>8, <3>1, <3>2
  <2>5. /\ \A y \in Context : Leq(snap[y], kcpustat[cpu[y]])
        /\ total(x) = snap[x].rest + snap[x].idle + snap[x].intr
    BY DEF BasicInv, total, Sum
  <2>6. CASE x = "feeder"
    <3>1. at["callback"] = "idle" /\ at'["callback"] = "idle"
      BY <1>0, <2>2, <2>4, <2>6 DEF Running
    <3>2. overtaken' <=> overtaken
      BY <2>2, <2>6 DEF Overtakes
    <3>3. /\ at'["feeder"] \in {"store_2", "store_3", "user", "mod_timer"}
          /\ op'["feeder"] = "COLLECT_TIMINGS"
      BY <2>1, <2>4, <2>6 DEF UsageInv
    <3>4. at'["feeder"] = "store_2" => snap'["feeder"].idle <= px("feeder")'.prev_idle
      <4>1. CASE place = "store_1"
        <5>1. px("feeder")'.prev_idle = snap["feeder"].idle
          BY <2>1, <2>3, <2>d, <2>4, <2>6, <4>1 DEF p, px
        <5> QED BY <1>0, <2>4, <2>6, <4>1, <5>1, Numbers
      <4> QED BY <2>1, <2>4, <2>6, <4>1
    <3>5. \A c \in Cpus :
             Torn(c)' \/ p(c)'.prev_total <= p(c)'.prev_idle + kcpustat'[c].rest
                                                              + kcpustat'[c].intr
      <4> SUFFICES ASSUME NEW c \in Cpus, ~Torn(c)'
                   PROVE  p(c)'.prev_total <= p(c)'.prev_idle + kcpustat[c].rest
                                                              + kcpustat[c].intr
        BY <2>2
      <4>1. CASE c # cpu["feeder"]
        BY <2>3, <2>d, <2>6, <4>1 DEF UsageInv, Torn, There
      <4>2. CASE c = cpu["feeder"] /\ place = "store_1"
        <5>1. ~overtaken
          BY <2>4, <2>6, <3>2, <4>2 DEF Torn, There
        <5>2. p(c).prev_idle <= snap["feeder"].idle /\ ~Torn(c)
          BY <2>2, <2>6, <4>2, <5>1 DEF UsageInv, p, px, Torn, There
        <5>3. p(c)'.prev_idle = snap["feeder"].idle /\ p(c)'.prev_total = p(c).prev_total
          BY <2>1, <2>3, <2>d, <2>6, <4>2
        <5> QED BY <1>0, <5>2, <5>3, Numbers DEF UsageInv
      <4>3. CASE c = cpu["feeder"] /\ place = "store_2"
        <5>1. snap["feeder"].idle <= p(c).prev_idle
          BY <2>2, <2>6, <4>3 DEF UsageInv, p, px
        <5>2. p(c)'.prev_idle = p(c).prev_idle /\ p(c)'.prev_total = total(x)
          BY <2>1, <2>3, <2>d, <2>6, <4>3
        <5> QED BY <1>0, <2>5, <2>6, <4>3, <5>1, <5>2, Numbers DEF Leq
      <4>4. CASE c = cpu["feeder"] /\ place = "store_3"
        <5>1. ~Torn(c)
          BY <2>2, <2>6, <4>4 DEF Torn, There
        <5>2. p(c)'.prev_idle = p(c).prev_idle /\ p(c)'.prev_total = p(c).prev_total
          BY <2>1, <2>3, <2>d, <2>6, <4>4
        <5> QED BY <5>1, <5>2 DEF UsageInv
      <4> QED BY <2>1, <4>1, <4>2, <4>3, <4>4
    <3>6. UsageInv'
      BY <3>1, <3>3, <3>4, <3>5 DEF UsageInv
    <3> QED BY <3>1, <3>6 DEF ReadInv
  <2>7. CASE x = "callback"
    <3>1. /\ at'["feeder"] = at["feeder"] /\ cpu'["feeder"] = cpu["feeder"]
          /\ snap'["feeder"] = snap["feeder"] /\ op'["feeder"] = op["feeder"]
      BY <1>0, <2>4, <2>7
    <3>2. \A c \in Cpus : Torn(c) => Torn(c)'
      BY <2>2, <3>1 DEF Torn, There
    <3>3. at["feeder"] = "store_2" => snap["feeder"].idle <= px("feeder")'.prev_idle
      <4>1. CASE cpu["feeder"] # d
        <5>1. px("feeder")' = px("feeder")
          BY <1>0, <2>3, <3>1, <4>1 DEF p, px, Shape
        <5> QED BY <5>1 DEF UsageInv
      <4>2. CASE cpu["feeder"] = d
        <5>1. px("feeder")'.prev_idle = IF field = "prev_idle" THEN snap["callback"].idle
                                                              ELSE px("feeder").prev_idle
          BY <2>3, <2>7, <3>1, <4>2 DEF p, px
        <5>2. snap["feeder"].idle <= snap["callback"].idle
          BY <2>2, <2>7, <2>d, <4>2 DEF UsageInv
        <5> QED BY <5>1, <5>2 DEF UsageInv
      <4> QED BY <4>1, <4>2
    <3>4. at["feeder"] \in {"irq", "store_1"} /\ ~overtaken'
            => px("feeder")'.prev_idle <= snap["feeder"].idle
      BY <1>0, <2>1, <2>2, <2>3, <2>d, <2>7, <3>1, Numbers DEF UsageInv, p, px, Overtakes
    <3>5. \A c \in Cpus :
             Torn(c)' \/ p(c)'.prev_total <= p(c)'.prev_idle + kcpustat'[c].rest
                                                              + kcpustat'[c].intr
      <4> SUFFICES ASSUME NEW c \in Cpus, ~Torn(c)'
                   PROVE  p(c)'.prev_total <= p(c)'.prev_idle + kcpustat[c].rest
                                                              + kcpustat[c].intr
        BY <2>2
      <4>0. p(c).prev_total <= p(c).prev_idle + kcpustat[c].rest + kcpustat[c].intr
        BY <3>2 DEF UsageInv
      <4>1. CASE c # cpu["callback"]
        BY <2>3, <2>d, <2>7, <4>0, <4>1
      <4>2. CASE c = cpu["callback"] /\ place = "store_1"
        <5>1. p(c).prev_idle <= snap["callback"].idle
          BY <2>2, <2>7, <4>2 DEF UsageInv, p, px
        <5>2. p(c)'.prev_idle = snap["callback"].idle /\ p(c)'.prev_total = p(c).prev_total
          BY <2>1, <2>3, <2>d, <2>7, <4>2
        <5> QED BY <1>0, <4>0, <5>1, <5>2, Numbers
      <4>3. CASE c = cpu["callback"] /\ place = "store_2"
        <5>1. p(c).prev_idle = snap["callback"].idle
          BY <2>2, <2>7, <4>3 DEF UsageInv, p, px
        <5>2. p(c)'.prev_idle = p(c).prev_idle /\ p(c)'.prev_total = total(x)
          BY <2>1, <2>3, <2>d, <2>7, <4>3
        <5> QED BY <1>0, <2>5, <2>7, <4>3, <5>1, <5>2, Numbers DEF Leq
      <4>4. CASE c = cpu["callback"] /\ place = "store_3"
        BY <2>1, <2>3, <2>d, <2>7, <4>0, <4>4
      <4> QED BY <2>1, <4>1, <4>2, <4>3, <4>4
    <3>6. /\ at'["callback"] \in {"store_2", "store_3", "user", "mod_timer"}
          /\ at'["callback"] = "store_2" =>
                /\ px("callback")'.prev_idle = snap'["callback"].idle
                /\ cpu'["callback"] = cpu["callback"]
                /\ snap'["callback"] = snap["callback"]
          /\ at'["callback"] = "store_3" =>
                /\ cpu'["callback"] = cpu["callback"]
                /\ snap'["callback"] = snap["callback"]
      BY <1>0, <2>1, <2>2, <2>3, <2>d, <2>4, <2>7 DEF p, px
    <3>7. UsageInv'
      BY <2>1, <2>2, <2>7, <3>1, <3>3, <3>4, <3>5, <3>6 DEF UsageInv
    <3> QED BY <3>6, <3>7 DEF ReadInv
  <2> QED BY <2>6, <2>7 DEF Context
<1> QED
  BY <1>1, <1>2, <1>3, <1>4, <1>5, <1>6, <1>7, <1>8 DEF Next

LEMMA UsageInit == Init => UsageInv /\ ReadInv
<1> SUFFICES ASSUME Init PROVE UsageInv /\ ReadInv
  OBVIOUS
<1>1. /\ op["feeder"] = "COLLECT_TIMINGS" /\ at["feeder"] = "idle" /\ at["callback"] = "idle"
  BY DEF Init, Context
<1>2. \A c \in Cpus : p(c).prev_total = 0 /\ p(c).prev_idle = 0
                    /\ kcpustat[c].rest = 0 /\ kcpustat[c].intr = 0
  BY DEF Init, p, Zero
<1> QED BY <1>1, <1>2 DEF UsageInv, ReadInv

\* Within the accounted time an unsigned subtraction is a subtraction.
LEMMA MinusExact ==
    ASSUME NEW a \in 0..MaxTime, NEW b \in 0..MaxTime, b <= a
    PROVE  Minus(a, b) = a - b
<1>1. MaxTime \in Nat /\ Word \in Nat /\ Word > MaxTime
  BY ConstantsAssumption DEF ConstantsAssumption
<1>2. a - b \in 0..(Word - 1)
  BY <1>1
<1>3. (a - b) % Word = a - b
  BY <1>1, <1>2
<1> QED BY <1>3 DEF Minus

\* Where the callback calculates, the entry of its cpu is not ahead of what it
\* has read, and the idle share is too large only where the entry is torn.
LEMMA UsageReport ==
    ASSUME Nested, BasicInv, UsageInv, ReadInv, NEW x \in Context, Calculate(x)
    PROVE  ~report'.usage_ok => report'.torn
<1>0. /\ x = "callback" /\ at["callback"] = "calculate"
      /\ cpu[x] \in Cpus /\ "callback" \in Context
  BY Numbers DEF Calculate, UsageInv, Context
<1> DEFINE c == cpu["callback"]
           s == snap["callback"]
           q == prev_cpu_usage_stats[c]
<1>1. /\ report'.usage_ok <=> (Minus(total(x), q.prev_total) # 0
                                 => Minus(s.idle, q.prev_idle) <= Minus(total(x), q.prev_total))
      /\ report'.torn <=> Torn(c)
  BY <1>0 DEF Calculate, Torn, There
<1>2. /\ s.rest \in Nat /\ s.idle \in Nat /\ s.intr \in Nat
      /\ q.prev_idle \in Nat /\ q.prev_total \in Nat
  BY <1>0, Numbers DEF p
<1>3. Sum(s) <= MaxTime /\ MaxTime \in Nat
  <2>1. /\ Leq(s, kcpustat[c]) /\ Sum(kcpustat[c]) <= MaxTime
        /\ kcpustat[c].rest \in Nat /\ kcpustat[c].idle \in Nat /\ kcpustat[c].intr \in Nat
    BY <1>0, Numbers DEF BasicInv
  <2> QED BY <1>2, <2>1, ConstantsAssumption DEF Leq, Sum, ConstantsAssumption
<1>4. /\ q.prev_total <= Sum(s) /\ q.prev_idle <= s.idle
      /\ Torn(c) \/ q.prev_total <= q.prev_idle + s.rest + s.intr
  BY <1>0 DEF ReadInv, UsageInv, px
<1>5. /\ Minus(total(x), q.prev_total) = Sum(s) - q.prev_total
      /\ Minus(s.idle, q.prev_idle) = s.idle - q.prev_idle
  <2>1. total(x) = Sum(s)
    BY <1>0 DEF total
  <2>2. /\ Sum(s) \in 0..MaxTime /\ s.idle \in 0..MaxTime
        /\ q.prev_total \in 0..MaxTime /\ q.prev_idle \in 0..MaxTime
    BY <1>2, <1>3, <1>4 DEF Sum
  <2> QED BY <1>4, <2>1, <2>2, MinusExact
<1>6. ~Torn(c) => s.idle - q.prev_idle <= Sum(s) - q.prev_total
  BY <1>2, <1>4 DEF Sum
<1> QED BY <1>1, <1>5, <1>6

\* A printed usage is out of range only where the feeder, overtaken, is between
\* its stores of the idle and the total time of that cpu.
THEOREM UsageStaysInRange == Spec => []UsageInRange
<1>1. Init => UsageInRange
  BY DEF Init, UsageInRange
<1>2. Init => NestedUsageInv
  BY UsageInit DEF NestedUsageInv
<1>3. NestedUsageInv /\ BasicInv /\ BasicInv' /\ [Next]_vars => NestedUsageInv'
  BY UsageStep DEF NestedUsageInv
<1>4. BasicInv /\ NestedUsageInv /\ UsageInRange /\ [Next]_vars => UsageInRange'
  <2> SUFFICES ASSUME Nested, BasicInv, UsageInv, ReadInv, UsageInRange, [Next]_vars
               PROVE  ~report'.usage_ok => report'.torn
    BY DEF UsageInRange, NestedUsageInv
  <2>1. CASE \E x \in Context : Calculate(x)
    BY <2>1, UsageReport
  <2>2. CASE UNCHANGED report
    BY <2>2 DEF UsageInRange
  <2> QED
    BY <2>1, <2>2
    DEF Next, vars, Account, Feed, Timeout, ReadUser, ReadIdle, ReadIrq, Read,
        StoreFirst, StoreSecond, StoreThird, Store, Arm
<1> QED
  BY <1>1, <1>2, <1>3, <1>4, BasicInit, BasicStep, PTL DEF Spec

-----------------------------------------------------------------------------
(* The interrupt usage                                                     *)

LEMMA InterruptStep ==
    ASSUME Nested, BasicInv, BasicInv', UsageInv, InterruptInv, [Next]_vars
    PROVE  InterruptInv'
<1>0. /\ Shape /\ Shape'
      /\ "feeder" \in Context /\ "callback" \in Context
  BY DEF BasicInv, Context
<1>1. CASE Account
  <2>1. \A c \in Cpus : Leq(kcpustat[c], kcpustat'[c])
    BY <1>0, <1>1, AccountGrows
  <2>2. UNCHANGED <<prev_cpu_usage_stats, at, op, cpu, snap, late_intr, mixed>>
    BY <1>1 DEF Account
  <2>3. \A c \in Cpus : /\ kcpustat'[c].rest \in Nat /\ kcpustat'[c].idle \in Nat
                        /\ kcpustat'[c].intr \in Nat
    BY Numbers, <1>0, <1>1, AccountGrows DEF Counters
  <2>4. cpu["callback"] \in Cpus
    BY <1>0, Numbers
  <2> QED
    BY <2>1, <2>2, <2>3, <2>4, <1>0, Numbers
    DEF Leq, InterruptInv, p, px, Mixed, There, total
<1>2. CASE Feed
  <2>1. Enter("feeder", "COLLECT_TIMINGS")
    BY <1>2 DEF Feed
  <2>2. /\ at'["feeder"] = "user"
        /\ at'["callback"] = at["callback"] /\ at["callback"] = "idle"
        /\ at["feeder"] = "idle"
    BY <1>0, <1>2, <2>1, EnterEffect DEF Feed, Running
  <2>3. UNCHANGED <<kcpustat, prev_cpu_usage_stats, mixed>>
    BY <1>2 DEF Feed
  <2> QED BY <2>2, <2>3 DEF InterruptInv, Mixed, There, p, px
<1>3. CASE Timeout
  <2>1. PICK operation \in {"CALCULATE_USAGE", "COLLECT_TIMINGS"} : Enter("callback", operation)
    BY <1>3 DEF Timeout
  <2>2. /\ at'["callback"] = "user" /\ at'["feeder"] = at["feeder"]
        /\ at["callback"] = "idle" /\ cpu'["feeder"] = cpu["feeder"]
    BY <1>0, <1>3, <2>1, EnterEffect DEF Timeout
  <2>3. UNCHANGED <<kcpustat, prev_cpu_usage_stats, snap, late_intr, mixed>>
    BY <1>3 DEF Timeout
  <2> QED BY <2>2, <2>3 DEF InterruptInv, Mixed, There, p, px, total
<1>4. CASE UNCHANGED vars
  BY <1>4 DEF vars, InterruptInv, Mixed, There, p, px, total
<1>5. ASSUME NEW x \in Context, Arm(x)
      PROVE  InterruptInv'
  BY <1>0, <1>5 DEF Arm, Goto, Shape, InterruptInv, Mixed, There, p, px, total
<1>6. ASSUME NEW x \in Context, ReadUser(x) \/ ReadIdle(x) \/ ReadIrq(x)
      PROVE  InterruptInv'
  <2>1. PICK place \in {"user", "idle_time", "irq"}, kind \in {"rest", "idle", "intr"},
             next \in {"idle_time", "irq", "calculate", "store_1"} :
           /\ Read(x, place, kind, next)
           /\ place = "user" => kind = "rest" /\ next = "idle_time"
           /\ place = "idle_time" => kind = "idle" /\ next = "irq"
           /\ place = "irq" => kind = "intr" /\ next \in {"calculate", "store_1"}
    BY <1>6 DEF ReadUser, ReadIdle, ReadIrq
  <2>2. /\ \A y \in Context : y # x => snap'[y] = snap[y] /\ at'[y] = at[y]
        /\ at[x] = place /\ at'[x] = next
        /\ snap'[x].rest = IF kind = "rest" THEN kcpustat[cpu[x]].rest ELSE snap[x].rest
        /\ snap'[x].idle = IF kind = "idle" THEN kcpustat[cpu[x]].idle ELSE snap[x].idle
        /\ snap'[x].intr = IF kind = "intr" THEN kcpustat[cpu[x]].intr ELSE snap[x].intr
    <3>1. /\ \A y \in Context : y # x => snap'[y] = snap[y] /\ at'[y] = at[y]
          /\ at'[x] = next
          /\ \A k \in {"rest", "idle", "intr"} :
                snap'[x][k] = IF k = kind THEN kcpustat[cpu[x]][k] ELSE snap[x][k]
      BY <1>0, <2>1, ReadEffect DEF Place
    <3> QED BY <2>1, <3>1 DEF Read
  <2>3. UNCHANGED <<kcpustat, prev_cpu_usage_stats, cpu, late_intr, mixed>>
    BY <2>1 DEF Read
  <2>4. \A c \in Cpus : There("feeder", "store_3", c)' <=> There("feeder", "store_3", c)
    BY <1>0, <2>1, <2>2, <2>3 DEF There
  <2>5. \A c \in Cpus : ~There("callback", "store_3", c)' => ~There("callback", "store_3", c)
    BY <1>0, <2>1, <2>2, <2>3 DEF There
  <2>6. /\ \A c \in Cpus : Mixed(c)' <=> Mixed(c)
        /\ \A c \in Cpus : p(c)' = p(c)
        /\ px("callback")' = px("callback") /\ px("callback") = p(cpu["callback"])
        /\ cpu["callback"] \in Cpus
    BY <1>0, <2>3, <2>4, Numbers DEF Mixed, p, px
  <2>7. \A c \in Cpus : /\ p(c).prev_interrupt <= kcpustat[c].intr
    BY DEF BasicInv, p
  <2>8. \A c \in Cpus :
          \/ Mixed(c)' \/ There("callback", "store_3", c)'
          \/ p(c)'.prev_total <= p(c)'.prev_interrupt + kcpustat'[c].rest + kcpustat'[c].idle
    BY <2>3, <2>5, <2>6 DEF InterruptInv, There
  <2>9. CASE x = "feeder"
    <3>1. at'["callback"] = at["callback"] /\ snap'["callback"] = snap["callback"]
      BY <1>0, <2>2, <2>9
    <3>2. at'["feeder"] # "store_3"
      BY <2>1, <2>2, <2>9
    <3>3. at'["callback"] = "store_3" => px("callback")'.prev_total = total("callback")'
      BY <2>6, <3>1 DEF InterruptInv, total
    <3> QED
      BY <2>3, <2>6, <2>8, <3>1, <3>2, <3>3 DEF InterruptInv
  <2>10. CASE x = "callback"
    <3>1. at'["feeder"] = at["feeder"] /\ snap'["feeder"] = snap["feeder"]
      BY <1>0, <2>2, <2>10
    <3>2. at'["feeder"] = "store_3" /\ ~late_intr' => px("feeder")'.prev_total = total("feeder")'
      BY <2>3, <3>1 DEF InterruptInv, total, px
    <3>3. at'["callback"] \in {"idle_time", "irq", "calculate", "store_1"}
      BY <2>1, <2>2, <2>10
    <3>4. /\ at["callback"] # "store_3"
          /\ \/ Mixed(cpu["callback"])
             \/ p(cpu["callback"]).prev_total <= p(cpu["callback"]).prev_interrupt
                   + kcpustat[cpu["callback"]].rest + kcpustat[cpu["callback"]].idle
      BY <2>1, <2>2, <2>6, <2>10 DEF InterruptInv, There
    <3>5. Mixed(cpu["callback"])' <=> Mixed(cpu["callback"])
      BY <2>3, <3>1 DEF Mixed, There
    <3> QED
      BY <1>0, <2>1, <2>2, <2>3, <2>6, <2>7, <2>8, <2>10, <3>2, <3>3, <3>4, <3>5, Numbers
      DEF InterruptInv
  <2> QED BY <2>9, <2>10 DEF Context
<1>7. ASSUME NEW x \in Context, Calculate(x)
      PROVE  InterruptInv'
  <2>1. NextCpu(x) /\ at[x] = "calculate"
        /\ UNCHANGED <<kcpustat, prev_cpu_usage_stats, late_intr, mixed>>
    BY <1>7 DEF Calculate
  <2>2. x = "callback"
    BY <2>1 DEF UsageInv, Context
  <2>3. /\ at'["callback"] \in {"user", "mod_timer"}
        /\ snap'["feeder"] = snap["feeder"] /\ cpu'["feeder"] = cpu["feeder"]
        /\ at'["feeder"] = at["feeder"]
    BY <1>0, <2>1, <2>2, NextCpuEffect
  <2> QED BY <2>1, <2>2, <2>3 DEF InterruptInv, Mixed, There, p, px, total
<1>8. ASSUME NEW x \in Context, StoreFirst(x) \/ StoreSecond(x) \/ StoreThird(x)
      PROVE  InterruptInv'
  <2>1. PICK place \in {"store_1", "store_2", "store_3"},
             field \in {"prev_idle", "prev_total", "prev_interrupt"} :
           /\ Store(x, place, field)
           /\ place = "store_1" => field = "prev_idle" /\ StoreFirst(x)
           /\ place = "store_2" => field = "prev_total" /\ StoreSecond(x)
           /\ place = "store_3" => field = "prev_interrupt" /\ StoreThird(x)
    BY <1>8 DEF StoreFirst, StoreSecond, StoreThird, Stores
  <2>2. at[x] = place /\ Running(x) /\ UNCHANGED kcpustat
    BY <2>1 DEF Store
  <2>3. PICK d \in Cpus : d = cpu[x]
    BY <1>0 DEF Shape
  <2>4. /\ \A c \in Cpus : c # d => p(c)' = p(c)
        /\ p(d)'.prev_total = IF field = "prev_total" THEN total(x) ELSE p(d).prev_total
        /\ p(d)'.prev_interrupt = IF field = "prev_interrupt" THEN snap[x].intr
                                                               ELSE p(d).prev_interrupt
    <3>1. /\ \A c \in Cpus : c # cpu[x] => prev_cpu_usage_stats'[c] = prev_cpu_usage_stats[c]
          /\ \A g \in {"prev_idle", "prev_total", "prev_interrupt"} :
                prev_cpu_usage_stats'[cpu[x]][g] =
                   IF g = field THEN Value(x, field) ELSE prev_cpu_usage_stats[cpu[x]][g]
      BY <1>0, <2>1, StoreEffect DEF Place
    <3>2. \A g \in {"prev_total", "prev_interrupt"} :
             prev_cpu_usage_stats'[d][g] =
                IF g = field THEN Value(x, field) ELSE prev_cpu_usage_stats[d][g]
      BY <2>3, <3>1
    <3>3. /\ Value(x, "prev_total") = total(x)
          /\ Value(x, "prev_interrupt") = snap[x].intr
      BY DEF Value
    <3> QED BY <2>3, <3>1, <3>2, <3>3 DEF p
  <2>5. /\ \A y \in Context : y # x => /\ snap'[y] = snap[y] /\ cpu'[y] = cpu[y]
                                       /\ at'[y] = at[y]
        /\ place # "store_3" => snap'[x] = snap[x] /\ cpu'[x] = cpu[x] /\ mixed' = mixed
        /\ place = "store_1" => at'[x] = "store_2"
        /\ place = "store_2" => at'[x] = "store_3"
        /\ place = "store_3" =>
              /\ at'[x] \in {"user", "mod_timer"}
              /\ mixed' = IF x = "feeder" /\ late_intr THEN mixed \cup {d} ELSE mixed \ {d}
    <3>1. CASE place # "store_3"
      BY <1>0, <2>1, <2>2, <3>1 DEF StoreFirst, StoreSecond, Goto, Shape
    <3>2. CASE place = "store_3"
      BY <1>0, <2>1, <2>3, <3>2, NextCpuEffect DEF StoreThird
    <3> QED BY <3>1, <3>2
  <2>6. /\ Leq(snap[x], kcpustat[d])
        /\ total(x) = snap[x].rest + snap[x].idle + snap[x].intr
    BY <2>3 DEF BasicInv, total, Sum
  <2>7. \A c \in Cpus :
          \/ Mixed(c)' \/ There("callback", "store_3", c)'
          \/ p(c)'.prev_total <= p(c)'.prev_interrupt + kcpustat'[c].rest + kcpustat'[c].idle
    <3> SUFFICES ASSUME NEW c \in Cpus, ~Mixed(c)', ~There("callback", "store_3", c)'
                 PROVE  p(c)'.prev_total <= p(c)'.prev_interrupt + kcpustat[c].rest
                                                                 + kcpustat[c].idle
      BY <2>2
    <3>1. CASE c # d
      <4>1. ~Mixed(c) /\ ~There("callback", "store_3", c)
        BY <1>0, <2>1, <2>2, <2>3, <2>5, <3>1 DEF Mixed, There, Context
      <4> QED BY <2>4, <3>1, <4>1 DEF InterruptInv
    <3>2. CASE c = d /\ place = "store_1"
      <4>1. ~Mixed(c) /\ ~There("callback", "store_3", c)
        BY <1>0, <2>1, <2>2, <2>3, <2>5, <3>2 DEF Mixed, There, Context
      <4> QED BY <2>1, <2>4, <3>2, <4>1 DEF InterruptInv
    <3>3. CASE c = d /\ place = "store_2"
      BY <2>3, <2>5, <3>3 DEF Mixed, There, Context
    <3>4. CASE c = d /\ place = "store_3"
      <4>1. x = "feeder" => ~late_intr
        BY <2>5, <3>4 DEF Mixed
      <4>2. p(d).prev_total = total(x)
        BY <2>2, <2>3, <3>4, <4>1 DEF InterruptInv, p, px, Context
      <4> QED BY <2>1, <2>4, <2>6, <3>4, <4>2, Numbers DEF Leq
    <3> QED BY <2>1, <3>1, <3>2, <3>3, <3>4
  <2>8. CASE x = "feeder"
    <3>1. at'["callback"] = "idle"
      BY <1>0, <2>2, <2>5, <2>8 DEF Running
    <3>2. at'["feeder"] = "store_3" => px("feeder")'.prev_total = total("feeder")'
      BY <2>1, <2>3, <2>4, <2>5, <2>8 DEF p, px, total
    <3> QED BY <2>7, <3>1, <3>2 DEF InterruptInv
  <2>9. CASE x = "callback"
    <3>1. at["feeder"] = "store_3" /\ ~late_intr'
            => px("feeder")'.prev_total = total("feeder")'
      <4>1. late_intr' <=> (late_intr \/ Overtakes(x))
        BY <2>1, <2>9, <1>0 DEF StoreFirst, StoreSecond, StoreThird
      <4>2. ~late_intr' => cpu["feeder"] # d
        BY <2>3, <2>9, <4>1 DEF Overtakes
      <4>3. ~late_intr' => px("feeder")' = px("feeder")
        BY <1>0, <2>4, <2>5, <2>9, <4>2, Numbers DEF p, px
      <4> QED BY <1>0, <2>5, <2>9, <4>1, <4>3 DEF InterruptInv, total
    <3>2. at'["callback"] = "store_3" => px("callback")'.prev_total = total("callback")'
      BY <2>1, <2>3, <2>4, <2>5, <2>9 DEF p, px, total
    <3>3. /\ at'["callback"] \notin {"idle_time", "irq", "calculate"}
          /\ at'["feeder"] = at["feeder"]
      BY <1>0, <2>1, <2>5, <2>9
    <3> QED BY <2>7, <3>1, <3>2, <3>3 DEF InterruptInv
  <2> QED BY <2>8, <2>9 DEF Context
<1> QED
  BY <1>1, <1>2, <1>3, <1>4, <1>5, <1>6, <1>7, <1>8 DEF Next

\* As UsageReport, for the interrupt time.
LEMMA InterruptReport ==
    ASSUME Nested, BasicInv, UsageInv, ReadInv, InterruptInv, NEW x \in Context, Calculate(x)
    PROVE  ~report'.interrupt_ok => report'.mixed
<1>0. /\ x = "callback" /\ at["callback"] = "calculate"
      /\ cpu[x] \in Cpus /\ "callback" \in Context
  BY Numbers DEF Calculate, UsageInv, Context
<1> DEFINE c == cpu["callback"]
           s == snap["callback"]
           q == prev_cpu_usage_stats[c]
<1>1. /\ report'.interrupt_ok <=>
            (Minus(total(x), q.prev_total) # 0
               => Minus(s.intr, q.prev_interrupt) <= Minus(total(x), q.prev_total))
      /\ report'.mixed <=> Mixed(c)
  BY <1>0 DEF Calculate, Mixed, There
<1>2. /\ s.rest \in Nat /\ s.idle \in Nat /\ s.intr \in Nat
      /\ q.prev_interrupt \in Nat /\ q.prev_total \in Nat
  BY <1>0, Numbers DEF p
<1>3. Sum(s) <= MaxTime /\ MaxTime \in Nat
  <2>1. /\ Leq(s, kcpustat[c]) /\ Sum(kcpustat[c]) <= MaxTime
        /\ kcpustat[c].rest \in Nat /\ kcpustat[c].idle \in Nat /\ kcpustat[c].intr \in Nat
    BY <1>0, Numbers DEF BasicInv
  <2> QED BY <1>2, <2>1, ConstantsAssumption DEF Leq, Sum, ConstantsAssumption
<1>4. /\ q.prev_total <= Sum(s) /\ q.prev_interrupt <= s.intr
      /\ Mixed(c) \/ q.prev_total <= q.prev_interrupt + s.rest + s.idle
  BY <1>0 DEF ReadInv, InterruptInv, px
<1>5. /\ Minus(total(x), q.prev_total) = Sum(s) - q.prev_total
      /\ Minus(s.intr, q.prev_interrupt) = s.intr - q.prev_interrupt
  <2>1. total(x) = Sum(s)
    BY <1>0 DEF total
  <2>2. /\ Sum(s) \in 0..MaxTime /\ s.intr \in 0..MaxTime
        /\ q.prev_total \in 0..MaxTime /\ q.prev_interrupt \in 0..MaxTime
    BY <1>2, <1>3, <1>4 DEF Sum
  <2> QED BY <1>4, <2>1, <2>2, MinusExact
<1>6. ~Mixed(c) => s.intr - q.prev_interrupt <= Sum(s) - q.prev_total
  BY <1>2, <1>4 DEF Sum
<1> QED BY <1>1, <1>5, <1>6

\* A printed interrupt usage is out of range only after, or in, the window
\* between the stores of the total and the interrupt time.
THEOREM InterruptStaysInRange == Spec => []InterruptInRange
<1>1. Init => InterruptInRange /\ NestedUsageInv /\ NestedInterruptInv
  <2> SUFFICES ASSUME Init PROVE InterruptInRange /\ NestedUsageInv /\ NestedInterruptInv
    OBVIOUS
  <2>1. at["feeder"] = "idle" /\ at["callback"] = "idle"
    BY DEF Init, Context
  <2>2. \A c \in Cpus : p(c).prev_total = 0 /\ p(c).prev_interrupt = 0
                      /\ kcpustat[c].rest = 0 /\ kcpustat[c].idle = 0
    BY DEF Init, p, Zero
  <2>3. InterruptInRange
    BY DEF Init, InterruptInRange
  <2> QED
    BY <2>1, <2>2, <2>3, UsageInit DEF InterruptInv, NestedUsageInv, NestedInterruptInv
<1>2. NestedUsageInv /\ BasicInv /\ BasicInv' /\ [Next]_vars => NestedUsageInv'
  BY UsageStep DEF NestedUsageInv
<1>3. NestedUsageInv /\ NestedInterruptInv /\ BasicInv /\ BasicInv' /\ [Next]_vars
        => NestedInterruptInv'
  BY InterruptStep DEF NestedUsageInv, NestedInterruptInv
<1>4. BasicInv /\ NestedUsageInv /\ NestedInterruptInv /\ InterruptInRange /\ [Next]_vars
        => InterruptInRange'
  <2> SUFFICES ASSUME Nested, BasicInv, UsageInv, ReadInv, InterruptInv, InterruptInRange,
                      [Next]_vars
               PROVE  ~report'.interrupt_ok => report'.mixed
    BY DEF InterruptInRange, NestedUsageInv, NestedInterruptInv
  <2>1. CASE \E x \in Context : Calculate(x)
    BY <2>1, InterruptReport
  <2>2. CASE UNCHANGED report
    BY <2>2 DEF InterruptInRange
  <2> QED
    BY <2>1, <2>2
    DEF Next, vars, Account, Feed, Timeout, ReadUser, ReadIdle, ReadIrq, Read,
        StoreFirst, StoreSecond, StoreThird, Store, Arm
<1> QED
  BY <1>1, <1>2, <1>3, <1>4, BasicInit, BasicStep, PTL DEF Spec

=============================================================================
