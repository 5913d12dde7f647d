--------------------------- MODULE CpuUsageTimer ---------------------------
(***************************************************************************)
(* The periodic cpu usage of cpu_usage.c (version 1), cpu_usage2.c (2) and *)
(* per_cpu_usage.c (3).  A timer arms itself again in its callback, which  *)
(* takes the sample itself in version 2 and hands it to a work in the      *)
(* others.  The exit functions delete the timer without waiting for the    *)
(* callback.                                                               *)
(*                                                                         *)
(* Version 3 takes the lines of /proc/stat one by one for the cpus 0, 1,   *)
(* 2...; the file has lines for the cpus that are online only.             *)
(***************************************************************************)
EXTENDS Integers, FiniteSets, FiniteSetsExt

CONSTANTS
    NCpus,        \* num_possible_cpus()
    Word,         \* the range of an unsigned long (2^64 in the code)
    MaxTicks      \* bound: ticks of each cpu

ASSUME CpusAssumption == NCpus \in Nat \ {0}
ASSUME WordAssumption == MaxTicks \in Nat /\ Word \in Nat /\ Word > 2 * NCpus * MaxTicks

Cpus == 1..NCpus

VARIABLES
    version,
    online, idle, total,    \* the system's cpus and their times
    mod,          \* absent, live, a step of the exit function, gone
    set_up,       \* timer_setup was reached
    armed, cb,    \* the timer, and where its callback is
    pending, working,       \* cpu_work
    barrier,      \* which run of the work flush_work waits for, if any
    prev, prev_mem,         \* prev_idle and prev_total, and their memory in version 3
    who,          \* history: whose times prev holds, 0 for those of the start
    off, mixed,   \* history, of the last sample: the usages outside 0..100, and
                  \* which compare the times of two cpus
    raced,        \* history: the callback was running in del_timer
    fault         \* an access to something that is gone

system == <<online, idle, total>>
timer  == <<armed, cb>>
work   == <<pending, working, barrier>>
figures == <<prev, who, off, mixed>>
vars == <<version, system, mod, set_up, timer, work, figures, prev_mem, raced, fault>>

TypeOK ==
    /\ version \in 1..3
    /\ online \subseteq Cpus
    /\ total \in [Cpus -> 0..MaxTicks] /\ idle \in [Cpus -> 0..MaxTicks]
    /\ mod \in {"absent", "live", "flush", "wait", "kfree", "unload", "gone"}
    /\ set_up \in BOOLEAN /\ armed \in BOOLEAN /\ cb \in {"idle", "run", "arm"}
    /\ pending \in BOOLEAN /\ working \in BOOLEAN /\ barrier \in {"none", "pending", "running"}
    /\ prev \in [Cpus -> [idle : 0..(Word - 1), total : 0..(Word - 1)]]
    /\ \A k \in Cpus : prev[k].idle <= prev[k].total
    /\ prev_mem \in {"none", "live", "freed"}
    /\ who \in [Cpus -> Cpus \cup {0}] /\ off \subseteq Cpus /\ mixed \subseteq Cpus
    /\ raced \in BOOLEAN /\ fault \in BOOLEAN

Init ==
    /\ version \in 1..3
    /\ online = Cpus /\ idle = [c \in Cpus |-> 0] /\ total = [c \in Cpus |-> 0]
    /\ mod = "absent" /\ set_up = FALSE
    /\ armed = FALSE /\ cb = "idle"
    /\ pending = FALSE /\ working = FALSE /\ barrier = "none"
    /\ prev = [k \in Cpus |-> [idle |-> 0, total |-> 0]] /\ prev_mem = "none"
    /\ who = [k \in Cpus |-> 0] /\ off = {} /\ mixed = {}
    /\ raced = FALSE /\ fault = FALSE

-----------------------------------------------------------------------------
(* The system                                                              *)

System == mod # "gone" /\ UNCHANGED <<version, mod, set_up, timer, work, figures, prev_mem, raced, fault>>

Tick(c) ==
    /\ System /\ c \in online /\ total[c] < MaxTicks
    /\ total' = [total EXCEPT ![c] = @ + 1]
    /\ \/ idle' = [idle EXCEPT ![c] = @ + 1]
       \/ UNCHANGED idle
    /\ UNCHANGED online

\* A cpu goes offline or online; the first one stays.
Plug(c) ==
    /\ System /\ c # 1
    /\ online' = IF c \in online THEN online \ {c} ELSE online \cup {c}
    /\ UNCHANGED <<idle, total>>

-----------------------------------------------------------------------------
(* The sample                                                              *)

Sum(f) == MapThenSumSet(LAMBDA c : f[c], Cpus)

\* The entries a sample fills, and the cpu whose line it takes for one
Slots == IF version = 3 THEN 1..Cardinality(online) ELSE {1}
Line(k) == CHOOSE c \in online : Cardinality({d \in online : d < c}) = k - 1

Value_of_parts(k) ==
    IF version = 3 THEN [idle |-> idle[Line(k)], total |-> total[Line(k)] - idle[Line(k)]]
    ELSE [idle |-> Sum(idle), total |-> Sum(total)]
Value(k) ==
    IF version = 3 THEN [idle |-> idle[Line(k)], total |-> total[Line(k)]]
    ELSE [idle |-> Sum(idle), total |-> Sum(total)]

Owner(k) == IF version = 3 THEN Line(k) ELSE 1

\* 100 * (diff_total - diff_idle) / diff_total, in unsigned arithmetic
Diff_of_total(k) ==
    [idle |-> Value(k).idle, total |-> (Value(k).total - prev[k].total) % Word]
Diff(k) ==
    [idle  |-> (Value(k).idle - prev[k].idle) % Word,
     total |-> (Value(k).total - prev[k].total) % Word]

Sample ==
    /\ off' = {k \in Slots : Diff(k).total # 0 /\ Diff(k).idle > Diff(k).total}
    /\ mixed' = {k \in Slots : who[k] # 0 /\ who[k] # Owner(k)}
    /\ prev' = [k \in Cpus |-> IF k \in Slots THEN Value(k) ELSE prev[k]]
    /\ who' = [k \in Cpus |-> IF k \in Slots THEN Owner(k) ELSE who[k]]

-----------------------------------------------------------------------------
(* init and the timer's callback                                           *)

\* In version 3 a failed allocation ends init early, with 0.
ModuleInit ==
    /\ mod = "absent" /\ mod' = "live"
    /\ \/ set_up' = TRUE /\ armed' = TRUE
          /\ prev_mem' = IF version = 3 THEN "live" ELSE "none"
       \/ version = 3 /\ UNCHANGED <<set_up, armed, prev_mem>>
    /\ UNCHANGED <<version, system, cb, work, figures, raced, fault>>

TimerExpire ==
    /\ armed /\ cb = "idle"
    /\ armed' = FALSE
    /\ IF mod = "gone" THEN fault' = TRUE /\ UNCHANGED cb ELSE cb' = "run" /\ UNCHANGED fault
    /\ UNCHANGED <<version, system, mod, set_up, work, figures, prev_mem, raced>>

CbRun ==
    /\ cb = "run" /\ cb' = "arm"
    /\ fault' = (mod = "gone")
    /\ IF version = 2 THEN Sample /\ UNCHANGED pending
       ELSE pending' = TRUE /\ UNCHANGED figures
    /\ UNCHANGED <<version, system, mod, set_up, armed, working, barrier, prev_mem, raced>>

CbArm_forgotten ==
    /\ cb = "arm" /\ cb' = "idle"
    /\ fault' = (mod = "gone")
    /\ UNCHANGED <<version, system, mod, set_up, armed, work, figures, prev_mem, raced>>
CbArm ==
    /\ cb = "arm" /\ cb' = "idle"
    /\ fault' = (mod = "gone")
    /\ armed' = TRUE
    /\ UNCHANGED <<version, system, mod, set_up, work, figures, prev_mem, raced>>

-----------------------------------------------------------------------------
(* calculate_cpu_usage as a work                                           *)

WorkStart ==
    /\ pending /\ ~working
    /\ pending' = FALSE /\ working' = TRUE
    /\ barrier' = IF barrier = "pending" THEN "running" ELSE barrier
    /\ fault' = (mod = "gone")
    /\ UNCHANGED <<version, system, mod, set_up, timer, figures, prev_mem, raced>>

\* Without memory for its buffer, or when /proc/stat cannot be opened or read, there
\* is no sample.
NoSample == fault' = (mod = "gone") /\ UNCHANGED figures

WorkEnd ==
    /\ working /\ working' = FALSE
    /\ barrier' = IF barrier = "running" THEN "none" ELSE barrier
    /\ \/ NoSample
       \/ fault' = (mod = "gone" \/ prev_mem = "freed") /\ Sample
    /\ UNCHANGED <<version, system, mod, set_up, timer, pending, prev_mem, raced>>

-----------------------------------------------------------------------------
(* exit                                                                    *)

\* del_timer does not wait for the callback.
ExitDelTimer ==
    /\ mod = "live" /\ mod' = IF version = 2 THEN "unload" ELSE "flush"
    /\ armed' = FALSE
    /\ raced' = (cb # "idle")
    /\ UNCHANGED <<version, system, set_up, cb, work, figures, prev_mem, fault>>

ExitFlush_forgotten ==
    /\ mod = "flush" /\ mod' = "kfree"
    /\ UNCHANGED <<version, system, set_up, timer, work, figures, prev_mem, raced, fault>>
ExitFlush ==
    /\ mod = "flush" /\ mod' = "wait"
    /\ barrier' = CASE pending -> "pending"
                    [] ~pending /\ working -> "running"
                    [] OTHER -> "none"
    /\ UNCHANGED <<version, system, set_up, timer, pending, working, figures, prev_mem, raced, fault>>

ExitWait ==
    /\ mod = "wait" /\ barrier = "none"
    /\ mod' = IF version = 3 THEN "kfree" ELSE "unload"
    /\ UNCHANGED <<version, system, set_up, timer, work, figures, prev_mem, raced, fault>>

ExitKfree ==
    /\ mod = "kfree" /\ mod' = "unload"
    /\ prev_mem' = IF prev_mem = "live" THEN "freed" ELSE "none"
    /\ UNCHANGED <<version, system, set_up, timer, work, figures, raced, fault>>

ExitUnload ==
    /\ mod = "unload" /\ mod' = "gone"
    /\ UNCHANGED <<version, system, set_up, timer, work, figures, prev_mem, raced, fault>>

-----------------------------------------------------------------------------
\* A fault stops the machine.
Next ==
    /\ ~fault
    /\ \/ \E c \in Cpus : Tick(c) \/ Plug(c)
       \/ ModuleInit \/ TimerExpire \/ CbRun \/ CbArm \/ WorkStart \/ WorkEnd
       \/ ExitDelTimer \/ ExitFlush \/ ExitWait \/ ExitKfree \/ ExitUnload

Spec == Init /\ [][Next]_vars

\* Timers, their callbacks and the works of the system's queue are served.
Fairness ==
    /\ WF_vars(~fault /\ TimerExpire) /\ WF_vars(~fault /\ (CbRun \/ CbArm))
    /\ WF_vars(~fault /\ WorkStart) /\ WF_vars(~fault /\ WorkEnd)

-----------------------------------------------------------------------------
(* Properties                                                              *)

\* Removing a module faults only when del_timer meets a running callback: the
\* work that is queued or runs then is waited for, and nothing queues it again.
FaultNeedsRunningCallback == fault => raced

\* A usage that is not a percentage compares the times of two cpus: it needs a
\* version 3 whose lines of /proc/stat moved because a cpu went on- or offline.
OffNeedsMixed == off \subseteq mixed /\ (mixed # {} => version = 3)

\* As long as the module is there a sample is always taken again, unless init gave
\* up before it set up the timer and reported success all the same.
KeepsSampling ==
    []<>(mod # "live" \/ ~set_up \/ (IF version = 2 THEN cb = "run" ELSE working))
=============================================================================
