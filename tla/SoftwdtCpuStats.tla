-------------------------- MODULE SoftwdtCpuStats --------------------------
(***************************************************************************)
(* The cpu accounting of load_softwdt3.c.  ste_calculate_cpu_stats is run  *)
(* by the feeder (to collect) and by the timer callback (to calculate, then *)
(* to collect), both over the unlocked array prev_cpu_usage_stats.         *)
(*                                                                         *)
(* The kernel's counters of a cpu are three: the interrupt time (irq and   *)
(* softirq), the idle time and the rest; each only grows, at any moment.   *)
(* Each read of a counter and each store to the array is a step.           *)
(*                                                                         *)
(* The feeder runs on cpu 0 and so does the timer it arms: the callback    *)
(* then interrupts the feeder and runs to its end first (Nested).          *)
(***************************************************************************)
EXTENDS Integers

CONSTANTS
    CPU,       \* the number of online cpus
    Nested,    \* the callback runs on the cpu of the feeder
    MaxTime,   \* bound of the time a cpu has been accounted
    Word       \* the range of unsigned long

ASSUME ConstantsAssumption ==
    /\ CPU \in Nat \ {0}
    /\ Nested \in BOOLEAN
    /\ MaxTime \in Nat
    /\ Word \in Nat /\ Word > MaxTime

VARIABLES
    kcpustat,   \* the kernel's counters of each cpu
    prev_cpu_usage_stats,
    at,         \* where each context is in ste_calculate_cpu_stats
    op,         \* the operation it was called with
    cpu,        \* its loop variable
    snap,       \* the counters it has read for that cpu
    armed,      \* the timer is pending
    report,     \* what the last calculation printed for its cpu
    overtaken,  \* history: since the feeder read its cpu, the callback stored it
    late_intr,  \* history: likewise since the feeder stored prev_total
    mixed       \* history: cpus whose interrupt time is older than their total

vars == <<kcpustat, prev_cpu_usage_stats, at, op, cpu, snap, armed, report,
          overtaken, late_intr, mixed>>

Context == {"feeder", "callback"}
Cpus    == 0..(CPU - 1)
Place   == {"idle", "user", "idle_time", "irq", "calculate",
            "store_1", "store_2", "store_3", "mod_timer"}
Time    == 0..MaxTime

TypeOK ==
    /\ kcpustat \in [Cpus -> [rest: Time, idle: Time, intr: Time]]
    /\ prev_cpu_usage_stats \in
           [Cpus -> [prev_idle: Time, prev_total: Time, prev_interrupt: Time]]
    /\ at \in [Context -> Place]
    /\ op \in [Context -> {"CALCULATE_USAGE", "COLLECT_TIMINGS"}]
    /\ cpu \in [Context -> Cpus]
    /\ snap \in [Context -> [rest: Time, idle: Time, intr: Time]]
    /\ armed \in BOOLEAN
    /\ report \in [usage_ok: BOOLEAN, interrupt_ok: BOOLEAN,
                   torn: BOOLEAN, mixed: BOOLEAN]
    /\ overtaken \in BOOLEAN
    /\ late_intr \in BOOLEAN
    /\ mixed \subseteq Cpus

Zero == [rest |-> 0, idle |-> 0, intr |-> 0]
Sum(counters) == counters.rest + counters.idle + counters.intr

\* kcalloc has cleared the array.
Init ==
    /\ kcpustat = [c \in Cpus |-> Zero]
    /\ prev_cpu_usage_stats =
           [c \in Cpus |-> [prev_idle |-> 0, prev_total |-> 0, prev_interrupt |-> 0]]
    /\ at = [x \in Context |-> "idle"]
    /\ op = [x \in Context |-> "COLLECT_TIMINGS"]
    /\ cpu = [x \in Context |-> 0]
    /\ snap = [x \in Context |-> Zero]
    /\ armed = FALSE
    /\ report = [usage_ok |-> TRUE, interrupt_ok |-> TRUE, torn |-> FALSE, mixed |-> FALSE]
    /\ overtaken = FALSE /\ late_intr = FALSE /\ mixed = {}

-----------------------------------------------------------------------------
\* An interrupted feeder waits for the end of the softirq.
Running(x) == Nested /\ x = "feeder" => at["callback"] = "idle"

Goto(x, place) == at' = [at EXCEPT ![x] = place]

\* The kernel accounts a unit of time to a cpu.
Account ==
    \E c \in Cpus, kind \in {"rest", "idle", "intr"} :
        /\ Sum(kcpustat[c]) < MaxTime
        /\ kcpustat' = [kcpustat EXCEPT ![c][kind] = @ + 1]
        /\ UNCHANGED <<prev_cpu_usage_stats, at, op, cpu, snap, armed, report,
                       overtaken, late_intr, mixed>>

\* Enter ste_calculate_cpu_stats(operation): the loop is at its first cpu.
Enter(x, operation) ==
    /\ op' = [op EXCEPT ![x] = operation]
    /\ cpu' = [cpu EXCEPT ![x] = 0]
    /\ Goto(x, "user")

\* ste_softwdt_load_monitor_feed_task, whose kick collects
Feed ==
    /\ at["feeder"] = "idle" /\ Running("feeder")
    /\ Enter("feeder", "COLLECT_TIMINGS")
    /\ UNCHANGED <<kcpustat, prev_cpu_usage_stats, snap, armed, report,
                   overtaken, late_intr, mixed>>

\* ste_softwdt_load_monitor_timeout, in a branch that reports or in one that
\* goes straight to its kick
Timeout ==
    /\ armed /\ at["callback"] = "idle"
    /\ armed' = FALSE
    /\ \E operation \in {"CALCULATE_USAGE", "COLLECT_TIMINGS"} : Enter("callback", operation)
    /\ UNCHANGED <<kcpustat, prev_cpu_usage_stats, snap, report, overtaken, late_intr, mixed>>

\* The reads of lines 81 to 91, by the counters they add up to.  The code reads some of
\* the rest (iowait, steal, guest) after the idle time; here all of it is read before:
\* the properties use only that a value read is one the growing counter has had.
Read(x, place, kind, next) ==
    /\ at[x] = place /\ Running(x)
    /\ snap' = [snap EXCEPT ![x][kind] = kcpustat[cpu[x]][kind]]
    /\ Goto(x, next)
    /\ UNCHANGED <<kcpustat, prev_cpu_usage_stats, op, cpu, armed, report, late_intr, mixed>>

ReadUser(x) ==
    /\ Read(x, "user", "rest", "idle_time")
    /\ overtaken' = (overtaken /\ x # "feeder")

ReadIdle(x) ==
    /\ Read(x, "idle_time", "idle", "irq")
    /\ UNCHANGED overtaken

\* ... and the branch on the operation
ReadIrq(x) ==
    /\ Read(x, "irq", "intr",
            IF op[x] = "CALCULATE_USAGE" THEN "calculate" ELSE "store_1")
    /\ UNCHANGED overtaken

total(x) == Sum(snap[x])

\* unsigned subtraction
Minus(a, b) == (a - b) % Word

\* for_each_online_cpu ends after the last cpu; a loop that ran on would not.
AtLastCpu_off_by_one(x) == cpu[x] = CPU
AtLastCpu(x) == cpu[x] = CPU - 1

\* The end of the loop's body: the next cpu, or what follows the function.
NextCpu(x) ==
    /\ snap' = [snap EXCEPT ![x] = Zero]
    /\ IF ~AtLastCpu(x)
       THEN /\ cpu' = [cpu EXCEPT ![x] = @ + 1]
            /\ Goto(x, "user")
            /\ UNCHANGED op
       ELSE IF op[x] = "CALCULATE_USAGE"
            THEN Enter(x, "COLLECT_TIMINGS")
            ELSE Goto(x, "mod_timer") /\ UNCHANGED <<cpu, op>>

\* The report of one cpu: a share is printed right when its part is no more
\* than the whole; nothing is printed when no time has passed.
Calculate(x) ==
    LET c    == cpu[x]
        prev == prev_cpu_usage_stats[c]
        diff_idle  == Minus(snap[x].idle, prev.prev_idle)
        diff_total == Minus(total(x), prev.prev_total)
        diff_interrupt_time == Minus(snap[x].intr, prev.prev_interrupt)
        there(place) == at["feeder"] = place /\ cpu["feeder"] = c
    IN
    /\ at[x] = "calculate" /\ Running(x)
    /\ report' = [usage_ok     |-> diff_total # 0 => diff_idle <= diff_total,
                  interrupt_ok |-> diff_total # 0 => diff_interrupt_time <= diff_total,
                  torn  |-> there("store_2") /\ overtaken,
                  mixed |-> c \in mixed \/ there("store_3")]
    /\ NextCpu(x)
    /\ UNCHANGED <<kcpustat, prev_cpu_usage_stats, armed, overtaken, late_intr, mixed>>

\* The callback stores to a cpu the feeder is at.
Overtakes(x) == x = "callback" /\ cpu["feeder"] = cpu["callback"]

\* Lines 118 to 121: the three fields are stored in this order.
Stores_total_first == <<"prev_total", "prev_idle", "prev_interrupt">>
Stores == <<"prev_idle", "prev_total", "prev_interrupt">>

Value(x, field) ==
    CASE field = "prev_idle"      -> snap[x].idle
      [] field = "prev_total"     -> total(x)
      [] field = "prev_interrupt" -> snap[x].intr

Store(x, place, field) ==
    /\ at[x] = place /\ Running(x)
    /\ prev_cpu_usage_stats' =
           [prev_cpu_usage_stats EXCEPT ![cpu[x]][field] = Value(x, field)]
    /\ overtaken' = (overtaken \/ Overtakes(x))
    /\ UNCHANGED <<kcpustat, armed, report>>

StoreFirst(x) ==
    /\ Store(x, "store_1", Stores[1])
    /\ Goto(x, "store_2")
    /\ late_intr' = (late_intr \/ Overtakes(x))
    /\ UNCHANGED <<op, cpu, snap, mixed>>

StoreSecond(x) ==
    /\ Store(x, "store_2", Stores[2])
    /\ Goto(x, "store_3")
    /\ late_intr' = (x = "callback" /\ (late_intr \/ Overtakes(x)))
    /\ UNCHANGED <<op, cpu, snap, mixed>>

StoreThird(x) ==
    /\ Store(x, "store_3", Stores[3])
    /\ mixed' = IF x = "feeder" /\ late_intr THEN mixed \cup {cpu[x]} ELSE mixed \ {cpu[x]}
    /\ NextCpu(x)
    /\ late_intr' = (late_intr \/ Overtakes(x))

\* the mod_timer of the kick
Arm(x) ==
    /\ at[x] = "mod_timer" /\ Running(x)
    /\ armed' = TRUE
    /\ Goto(x, "idle")
    /\ UNCHANGED <<kcpustat, prev_cpu_usage_stats, op, cpu, snap, report,
                   overtaken, late_intr, mixed>>

Next ==
    \/ Account
    \/ Feed
    \/ Timeout
    \/ \E x \in Context :
          \/ ReadUser(x) \/ ReadIdle(x) \/ ReadIrq(x)
          \/ Calculate(x)
          \/ StoreFirst(x) \/ StoreSecond(x) \/ StoreThird(x)
          \/ Arm(x)

Spec == Init /\ [][Next]_vars

-----------------------------------------------------------------------------
(* Properties                                                              *)

\* A printed usage lies between 0 and 100 % although nothing locks the array:
\* prev_idle is stored before prev_total (load_softwdt3.c:118-119).  The one
\* exception: the callback calculates while the feeder, which an earlier
\* callback has overtaken, is between these two stores of the same cpu.
UsageInRange == Nested /\ ~report.usage_ok => report.torn

\* The interrupt usage is in range unless the feeder is, or was overtaken,
\* between the stores of prev_total and prev_interrupt of that cpu.
InterruptInRange == Nested /\ ~report.interrupt_ok => report.mixed

=============================================================================
