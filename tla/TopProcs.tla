------------------------------ MODULE TopProcs ------------------------------
(***************************************************************************)
(* The userspace top of top.c.  Two samples of /proc are taken in turn     *)
(* into arrays of records, which come from and return to a free list; the  *)
(* difference of the cpu times of two samples is sorted and shown.         *)
(*                                                                         *)
(* Processes and threads run, end and are replaced by others of the same   *)
(* number while /proc is read.  A record names the task it is for, and     *)
(* what was read last into its fields: the task a value is of, counted     *)
(* from the start of the system, tells stale values from fresh ones.       *)
(***************************************************************************)
EXTENDS Integers, Sequences, FiniteSets, FiniteSetsExt, Functions

CONSTANTS
    Tasks,        \* pairs <<pid, tid>>; the leader of a process has tid = pid
    Size,         \* what vss and rss show of each task
    Options,      \* the command lines: threads, sort, max_procs, delay, iterations
    INIT_PROCS, THREAD_MULT,
    Word,         \* the range of an unsigned long (2^64 in the code)
    MaxRecs,      \* bound: records malloc can give
    MaxTicks,     \* bound: ticks of the clock
    MaxChanges    \* bound: tasks that end or start while top runs

ASSUME TasksAssumption ==
    /\ Tasks \subseteq (Nat \ {0}) \X (Nat \ {0}) /\ IsFiniteSet(Tasks)
    /\ \A t \in Tasks : <<t[1], t[1]>> \in Tasks
    /\ Size \in [Tasks -> Nat]
ASSUME OptionsAssumption ==
    Options \subseteq [threads : BOOLEAN, sort : {"cpu", "size", "thr"}, max_procs : Nat,
                       delay : Nat, iterations : Nat \cup {-1}]
ASSUME BoundsAssumption ==
    /\ INIT_PROCS \in Nat \ {0} /\ THREAD_MULT \in Nat \ {0}
    /\ MaxRecs \in Nat /\ MaxTicks \in Nat /\ MaxChanges \in Nat
    /\ Word \in Nat /\ Word > 2 * MaxTicks

VARIABLES
    alive, start, time, clock,   \* the system: its tasks, which start of each, cpu times
    changes,      \* how many tasks have ended or started
    pc, options, iterations,
    old_procs, new_procs, proc_num, old_cpu, new_cpu,
    free_procs, num_used_procs, num_free_procs, mallocs,
    rec,          \* the memory of the records
    proc,         \* proc of read_procs, NULL when it holds none
    cur_proc,     \* the name and the user of a process, for its threads
    dir,          \* where readdir is in /proc and in the task directory
    lost          \* history: records that nothing refers to any more

system  == <<alive, start, time, clock, changes>>
arrays  == <<old_procs, new_procs, proc_num, old_cpu, new_cpu>>
pool    == <<free_procs, num_used_procs, num_free_procs, mallocs>>
reading == <<proc, cur_proc, dir>>
vars    == <<system, pc, options, iterations, arrays, pool, rec, reading, lost>>

NULL    == 0
Recs    == 1..MaxRecs
Unknown == <<0, 0, 0>>    \* what memory of malloc or of the stack is of
Pids    == {t[1] : t \in Tasks}
Leader(pid) == <<pid, pid>>
This(t) == <<t[1], t[2], start[t]>>
Stopped == {"exit", "died", "segv", "fpe"}

Origin == {Unknown} \cup {<<t[1], t[2], n>> : t \in Tasks, n \in 0..MaxChanges}
Record == [task : Tasks \cup {<<0, 0>>}, stat : Origin, time : 0..(Word - 1), size : Nat,
           name : Origin, uid : Origin, num_threads : Nat]
Blank  == [task |-> <<0, 0>>, stat |-> Unknown, time |-> 0, size |-> 0,
           name |-> Unknown, uid |-> Unknown, num_threads |-> 0]

TypeOK ==
    /\ alive \subseteq Tasks
    /\ changes \in Nat /\ start \in [Tasks -> 0..MaxChanges] /\ time \in [Tasks -> 0..MaxTicks]
    /\ clock \in 0..MaxTicks /\ old_cpu \in 0..clock /\ new_cpu \in 0..clock
    /\ pc \in Stopped \cup {"main", "read", "readdir", "stat", "cmdline", "status", "task",
                            "tasks", "thread", "loop", "print", "free"}
    /\ options \in Options /\ iterations \in -1..options.iterations
    /\ old_procs \in Seq(Recs \cup {NULL}) /\ new_procs \in Seq(Recs \cup {NULL})
    /\ proc_num \in 0..Len(new_procs)
    /\ free_procs \in Seq(Recs)
    /\ num_used_procs \in Nat /\ num_free_procs \in Nat
    /\ mallocs \in 0..MaxRecs /\ lost \subseteq Recs
    /\ rec \in [Recs -> Record]
    /\ proc \in Recs \cup {NULL}
    /\ cur_proc \in [name : Origin, uid : Origin]
    /\ dir \in [pid : Nat, tid : Nat]

Init ==
    /\ alive = Tasks /\ start = [t \in Tasks |-> 0] /\ time = [t \in Tasks |-> 0] /\ clock = 0
    /\ changes = 0
    /\ pc = "main" /\ options \in Options /\ iterations = options.iterations
    /\ old_procs = <<>> /\ new_procs = <<>> /\ proc_num = 0 /\ old_cpu = 0 /\ new_cpu = 0
    /\ free_procs = <<>> /\ num_used_procs = 0 /\ num_free_procs = 0 /\ mallocs = 0
    /\ rec = [r \in Recs |-> Blank]
    /\ proc = NULL /\ cur_proc = [name |-> Unknown, uid |-> Unknown]
    /\ dir = [pid |-> 0, tid |-> 0] /\ lost = {}

-----------------------------------------------------------------------------
(* The system.  Its steps are independent of those of top that read no file *)
(* of /proc: they are taken where the next step of top can tell.           *)

System(where) ==
    pc \in where /\ UNCHANGED <<pc, options, iterations, arrays, pool, rec, reading, lost>>

Tick ==
    /\ System({"read", "stat", "thread"}) /\ clock < MaxTicks
    /\ clock' = clock + 1
    /\ \/ \E t \in alive : time' = [time EXCEPT ![t] = @ + 1]
       \/ UNCHANGED time
    /\ UNCHANGED <<alive, start, changes>>

\* A thread ends, or its whole process when it is the leader.
Probes == {"readdir", "stat", "cmdline", "status", "task", "tasks", "thread"}

TaskEnds(t) ==
    /\ System(Probes) /\ t \in alive /\ changes < MaxChanges
    /\ alive' = {u \in alive : u # t /\ (t = Leader(t[1]) => u[1] # t[1])}
    /\ changes' = changes + Cardinality(alive \ alive')
    /\ UNCHANGED <<start, time, clock>>

TaskStarts(t) ==
    /\ System(Probes) /\ t \in Tasks \ alive /\ changes < MaxChanges
    /\ changes' = changes + 1
    /\ t # Leader(t[1]) => Leader(t[1]) \in alive
    /\ alive' = alive \cup {t}
    /\ start' = [start EXCEPT ![t] = @ + 1]
    /\ time' = [time EXCEPT ![t] = 0]
    /\ UNCHANGED clock

-----------------------------------------------------------------------------
(* main, alloc_proc, add_proc                                              *)

Main ==
    /\ pc = "main"
    /\ pc' = IF options.threads /\ options.sort = "thr" THEN "died" ELSE "read"
    /\ UNCHANGED <<system, options, iterations, arrays, pool, rec, reading, lost>>

\* The next round, or the end; old_procs takes over what was read.
Loop ==
    /\ pc = "loop"
    /\ IF iterations = -1 \/ iterations > 0
       THEN /\ pc' = "read"
            /\ old_procs' = new_procs /\ old_cpu' = new_cpu
       ELSE pc' = "exit" /\ UNCHANGED <<old_procs, old_cpu>>
    /\ iterations' = IF iterations = -1 THEN -1 ELSE iterations - 1
    /\ UNCHANGED <<system, options, new_procs, proc_num, new_cpu, pool, rec, reading, lost>>

\* A record of the free list, or a new one, for task t; malloc may fail.
alloc_proc(t, next) ==
    \/ /\ free_procs # <<>>
       /\ proc' = Head(free_procs) /\ free_procs' = Tail(free_procs)
       /\ num_free_procs' = num_free_procs - 1 /\ num_used_procs' = num_used_procs + 1
       /\ rec' = [rec EXCEPT ![proc'].task = t]
       /\ pc' = next /\ UNCHANGED mallocs
    \/ /\ free_procs = <<>> /\ mallocs < MaxRecs
       /\ mallocs' = mallocs + 1 /\ proc' = mallocs'
       /\ num_used_procs' = num_used_procs + 1
       /\ rec' = [rec EXCEPT ![proc'].task = t]
       /\ pc' = next /\ UNCHANGED <<free_procs, num_free_procs>>
    \/ free_procs = <<>> /\ pc' = "died" /\ UNCHANGED <<pool, rec, proc>>

\* add_proc doubles a full array, or dies.
Grown_never == new_procs
Grown == IF proc_num < Len(new_procs) THEN new_procs
         ELSE new_procs \o [i \in 1..Len(new_procs) |-> NULL]

add_proc(r, next) ==
    \/ /\ new_procs' = [Grown EXCEPT ![proc_num + 1] = r] /\ proc_num' = proc_num + 1
       /\ proc' = NULL /\ pc' = next
    \/ proc_num = Len(new_procs) /\ pc' = "died" /\ UNCHANGED <<new_procs, proc_num, proc>>

-----------------------------------------------------------------------------
(* read_procs                                                              *)

\* The times of /proc/stat; were its file not read, the last ones would stay.
cpu_times_kept == new_cpu
cpu_times == clock

\* The sleep of main comes first: a delay of a second or more sees the clock move.
\* Then opendir, fopen of /proc/stat and an unchecked calloc may fail.
ReadStart ==
    /\ pc = "read" /\ (old_procs # <<>> /\ options.delay > 0 => clock > old_cpu)
    /\ \/ pc' = "died" /\ UNCHANGED <<new_procs, proc_num, new_cpu, dir>>
       \/ /\ pc' \in {"readdir", "segv"}
          /\ new_procs' = [i \in 1..(INIT_PROCS * (IF options.threads THEN THREAD_MULT ELSE 1)) |-> NULL]
          /\ proc_num' = 0 /\ new_cpu' = cpu_times
          /\ dir' = [pid |-> 0, tid |-> 0]
    /\ UNCHANGED <<system, options, iterations, old_procs, old_cpu, pool, rec, proc, cur_proc, lost>>

\* /proc lists the processes by number, as they are when the next one is asked for.
Readdir ==
    /\ pc = "readdir"
    /\ LET next == {t[1] : t \in {u \in alive : u[1] > dir.pid}} IN
       IF next = {}
       THEN /\ pc' = IF old_procs = <<>> THEN "loop" ELSE "print"
            /\ UNCHANGED <<pool, rec, proc, dir>>
       ELSE /\ dir' = [pid |-> Min(next), tid |-> 0]
            /\ IF options.threads THEN pc' = "cmdline" /\ UNCHANGED <<pool, rec, proc>>
               ELSE alloc_proc(Leader(Min(next)), "stat")
    /\ UNCHANGED <<system, options, iterations, arrays, cur_proc, lost>>

\* read_stat changes the record only when the file of the task is there; memory of
\* malloc that was never written has any value.
read_stat(t, r) ==
    IF t \in alive THEN {[r EXCEPT !.stat = This(t), !.time = time[t], !.size = Size[t]]}
    ELSE IF r.stat # Unknown THEN {r}
    ELSE {[r EXCEPT !.time = x] : x \in 0..(Word - 1)}

ReadStat ==
    /\ pc = "stat" /\ pc' = "cmdline"
    /\ \E r \in read_stat(rec[proc].task, rec[proc]) : rec' = [rec EXCEPT ![proc] = r]
    /\ UNCHANGED <<system, options, iterations, arrays, pool, reading, lost>>

\* read_cmdline and read_status, into the record or, for threads, into cur_proc
ReadFile(field, next) ==
    LET fresh == This(Leader(dir.pid)) IN
    /\ pc' = next
    /\ IF Leader(dir.pid) \notin alive THEN UNCHANGED <<rec, cur_proc>>
       ELSE IF options.threads
       THEN cur_proc' = [cur_proc EXCEPT ![field] = fresh] /\ UNCHANGED rec
       ELSE rec' = [rec EXCEPT ![proc][field] = fresh] /\ UNCHANGED cur_proc
    /\ UNCHANGED <<system, options, iterations, arrays, pool, proc, dir, lost>>

ReadCmdline == pc = "cmdline" /\ ReadFile("name", "status")

ReadStatus == pc = "status" /\ ReadFile("uid", "task")

\* Without its task directory the process is passed over, and with it the record.
OpenTask_unchecked ==
    /\ pc = "task" /\ pc' = "tasks"
    /\ rec' = IF options.threads THEN rec ELSE [rec EXCEPT ![proc].num_threads = 0]
    /\ UNCHANGED <<system, options, iterations, arrays, pool, reading, lost>>

OpenTask ==
    /\ pc = "task"
    /\ IF Leader(dir.pid) \in alive
       THEN /\ pc' = "tasks" /\ UNCHANGED <<proc, lost>>
            /\ rec' = IF options.threads THEN rec ELSE [rec EXCEPT ![proc].num_threads = 0]
       ELSE /\ pc' = "readdir" /\ proc' = NULL
            /\ lost' = lost \cup ({proc} \ {NULL})
            /\ rec' = IF options.threads THEN rec ELSE [rec EXCEPT ![proc] = Blank]
    /\ UNCHANGED <<system, options, iterations, arrays, pool, cur_proc, dir>>

ReadTasks ==
    /\ pc = "tasks"
    /\ LET next == {t[2] : t \in {u \in alive : u[1] = dir.pid /\ u[2] > dir.tid}} IN
       IF next = {}
       THEN /\ IF options.threads THEN pc' = "readdir" /\ UNCHANGED <<new_procs, proc_num, proc>>
               ELSE add_proc(proc, "readdir")
            /\ UNCHANGED <<pool, rec, dir>>
       ELSE /\ dir' = [dir EXCEPT !.tid = Min(next)]
            /\ IF options.threads THEN alloc_proc(<<dir.pid, Min(next)>>, "thread")
               ELSE /\ rec' = [rec EXCEPT ![proc].num_threads = @ + 1]
                    /\ UNCHANGED <<pc, pool, proc>>
            /\ UNCHANGED <<new_procs, proc_num>>
    /\ UNCHANGED <<system, options, iterations, old_procs, old_cpu, new_cpu, cur_proc, lost>>

\* The rest of the body for one thread
ReadThread ==
    /\ pc = "thread"
    /\ \E r \in read_stat(rec[proc].task, rec[proc]) :
          rec' = [rec EXCEPT ![proc] = [r EXCEPT !.name = cur_proc.name, !.uid = cur_proc.uid]]
    /\ add_proc(proc, "tasks")
    /\ UNCHANGED <<system, options, iterations, old_procs, old_cpu, new_cpu, pool, cur_proc, dir, lost>>

-----------------------------------------------------------------------------
(* print_procs, free_old_procs                                             *)

Occupied(array) == {i \in DOMAIN array : array[i] # NULL}
Held(array) == {array[i] : i \in Occupied(array)}

find_old_proc_by_pid(t) ==
    LET found == {i \in Occupied(old_procs) : rec[old_procs[i]].task[1] = t[1]}
    IN  IF found = {} THEN NULL ELSE old_procs[Min(found)]
find_old_proc(t) ==
    LET found == {i \in Occupied(old_procs) : rec[old_procs[i]].task = t}
    IN  IF found = {} THEN NULL ELSE old_procs[Min(found)]

delta_time(r) ==
    LET old == find_old_proc(rec[r].task)
    IN  IF old = NULL THEN 0 ELSE (rec[r].time - rec[old].time) % Word

\* The column that is sorted by; numcmp takes signed numbers.
Key(r) == CASE options.sort = "cpu" -> IF 2 * delta_time(r) < Word THEN delta_time(r)
                                       ELSE delta_time(r) - Word
            [] options.sort = "thr" -> rec[r].num_threads
            [] OTHER -> rec[r].size

\* proc_cmp(a, b) <= 0: greater keys first, NULL last
NotAfter_nulls_first(a, b) == a = NULL \/ (b # NULL /\ Key(a) >= Key(b))
NotAfter(a, b) == b = NULL \/ (a # NULL /\ Key(a) >= Key(b))

\* What qsort may make of the array
Permuted == {[i \in DOMAIN p |-> new_procs[p[i]]] :
                p \in Bijection(DOMAIN new_procs, DOMAIN new_procs)}
qsort == {a \in Permuted : \A i, j \in DOMAIN a : i < j => NotAfter(a[i], a[j])}

PrintProcs ==
    /\ pc = "print"
    /\ pc' = IF new_cpu = old_cpu THEN "fpe" ELSE "free"
    /\ new_procs' \in qsort
    /\ UNCHANGED <<system, options, iterations, old_procs, proc_num, old_cpu, new_cpu, pool, rec, reading, lost>>

\* The lines that are printed: up to the first NULL, and max_procs of them
Shown ==
    {i \in DOMAIN new_procs :
        /\ \A j \in 1..i : new_procs[j] # NULL
        /\ options.max_procs # 0 => i <= options.max_procs}

\* Each record of the array is put at the head of the list; the NULLs come last.
Pushed(array, list) ==
    LET n == Cardinality(Occupied(array))
    IN  [i \in 1..n |-> array[n + 1 - i]] \o list

FreeOldProcs_of_new ==
    /\ pc = "free" /\ pc' = "loop"
    /\ free_procs' = Pushed(new_procs, free_procs)
    /\ num_used_procs' = num_used_procs - Cardinality(Occupied(old_procs))
    /\ num_free_procs' = num_free_procs + Cardinality(Occupied(old_procs))
    /\ old_procs' = <<>>
    /\ UNCHANGED <<system, options, iterations, new_procs, proc_num, old_cpu, new_cpu, mallocs, rec, reading, lost>>

FreeOldProcs ==
    /\ pc = "free" /\ pc' = "loop"
    /\ free_procs' = Pushed(old_procs, free_procs)
    /\ num_used_procs' = num_used_procs - Cardinality(Occupied(old_procs))
    /\ num_free_procs' = num_free_procs + Cardinality(Occupied(old_procs))
    /\ old_procs' = <<>>
    /\ UNCHANGED <<system, options, iterations, new_procs, proc_num, old_cpu, new_cpu, mallocs, rec, reading, lost>>

-----------------------------------------------------------------------------
Next ==
    \/ Tick \/ \E t \in Tasks : TaskEnds(t) \/ TaskStarts(t)
    \/ Main \/ Loop
    \/ ReadStart \/ Readdir \/ ReadStat \/ ReadCmdline \/ ReadStatus \/ OpenTask
    \/ ReadTasks \/ ReadThread
    \/ PrintProcs \/ FreeOldProcs

Spec == Init /\ [][Next]_vars

-----------------------------------------------------------------------------
(* Properties                                                              *)

\* Before the next calloc, new_procs is still the array that became old_procs.
Sampled == IF pc = "read" THEN {} ELSE Held(new_procs)
Listed  == {free_procs[i] : i \in DOMAIN free_procs}

\* Every record malloc gave is in one place: on the free list, in one of the two
\* arrays, in the hand of read_procs, or lost for good with a process that ended
\* (never when threads are shown); none is there twice.  So no record that is
\* shown or compared is handed out again, and the counters tell the truth.
RecordsOwnedOnce ==
    LET places == <<Listed, Held(old_procs), Sampled, {proc} \ {NULL}, lost>> IN
    pc \notin Stopped =>
        /\ \A i, j \in DOMAIN places : i # j => places[i] \cap places[j] = {}
        /\ UNION {places[i] : i \in DOMAIN places} = 1..mallocs
        /\ Cardinality(Listed) = Len(free_procs)
        /\ \A a \in {old_procs, new_procs} : Cardinality(Held(a)) = Cardinality(Occupied(a))
        /\ num_free_procs = Len(free_procs) /\ num_used_procs = mallocs - Len(free_procs)
        /\ options.threads => lost = {}

\* A line that shows values of two processes, or of none, needs more than a
\* process that ends while it is read: its number must have been taken again
\* before the task directory is opened.  Only the times of a thread may be another
\* task's when the thread just ends.
MixedNeedsReuse ==
    \A r \in Held(new_procs) :
        LET leader == Leader(rec[r].task[1])
            whole  == /\ rec[r].name = rec[r].uid
                      /\ <<rec[r].name[1], rec[r].name[2]>> = leader
                      /\ ~options.threads => rec[r].stat = rec[r].name
        IN  whole \/ start[leader] > 0

\* A delta below zero, which sorts last and prints as a huge share, is not of a
\* task that was there all the time: its number was taken again between the
\* samples, or it is a thread that ended after readdir.
WrappedNeedsEnd ==
    pc = "free" => \A r \in Held(new_procs) :
        2 * delta_time(r) >= Word =>
            \/ start[rec[r].task] > 0
            \/ options.threads /\ rec[r].task \notin alive

\* "-m num  Maximum number of processes to display" (top.c:566): that many lines or
\* all there are, in order, and nothing left out is greater than what is shown.
LargestShown ==
    pc = "free" =>
        /\ Cardinality(Shown) = IF options.max_procs = 0 THEN proc_num
                                ELSE Min({proc_num, options.max_procs})
        /\ \A i \in Shown, j \in Occupied(new_procs) :
              i < j \/ j \notin Shown => Key(new_procs[i]) >= Key(new_procs[j])

\* The shares are divided by the time between the samples: it is zero only when
\* top was told not to wait.
DivideNeedsNoDelay == pc = "fpe" => options.delay = 0
=============================================================================
