--------------------------- MODULE TopProcs_proof ---------------------------
(***************************************************************************)
(* Proofs about TopProcs: types, the place of every record, whose values a *)
(* line shows, when a share wraps, what is shown, and the division.        *)
(***************************************************************************)
EXTENDS TopProcs, FiniteSetTheorems, WellFoundedInduction, TLAPS

(* The inductive invariant                                                 *)

\* No time is ahead of the clock.
ClockInv == \A t \in Tasks : time[t] <= clock /\ start[t] <= changes

Reads == {"stat", "cmdline", "status", "task", "tasks", "thread"}

\* read_procs has a record in hand from alloc_proc to add_proc.
InHand == pc \in {"stat", "thread"} \/ (~options.threads /\ pc \in Reads)

PlaceInv ==
    /\ pc = "stat" => ~options.threads
    /\ pc = "thread" => options.threads /\ <<dir.pid, dir.tid>> \in Tasks
    /\ pc \in Reads => Leader(dir.pid) \in Tasks
    /\ InHand => proc \in Recs
    /\ InHand => rec[proc].task = IF options.threads THEN <<dir.pid, dir.tid>> ELSE Leader(dir.pid)
    /\ pc \notin Stopped /\ ~InHand => proc = NULL
    /\ pc \in Reads \cup {"readdir"} => new_procs # <<>>
    /\ pc \in {"main", "loop"} => old_procs = <<>>
    /\ pc = "main" => new_procs = <<>>
    /\ pc = "print" => old_procs # <<>>

\* Each array holds different records, and the NULLs after them.
Distinct(a) == \A i, j \in Occupied(a) : a[i] = a[j] => i = j

ArrayInv ==
    /\ Occupied(new_procs) = 1..proc_num
    /\ \E n \in 0..Len(old_procs) : Occupied(old_procs) = 1..n
    /\ Distinct(new_procs) /\ Distinct(old_procs) /\ Distinct(free_procs)

Apart(A, B, C, D, E) ==
    /\ A \cap B = {} /\ A \cap C = {} /\ A \cap D = {} /\ A \cap E = {}
    /\ B \cap C = {} /\ B \cap D = {} /\ B \cap E = {}
    /\ C \cap D = {} /\ C \cap E = {} /\ D \cap E = {}

Hand == {proc} \ {NULL}

OwnInv ==
    pc \notin Stopped =>
        /\ Apart(Listed, Held(old_procs), Sampled, Hand, lost)
        /\ Listed \cup Held(old_procs) \cup Sampled \cup Hand \cup lost = 1..mallocs
        /\ num_free_procs = Len(free_procs) /\ num_used_procs = mallocs - Len(free_procs)
        /\ options.threads => lost = {}

\* Between the samples the clock moves, unless top was told not to wait.
CpuInv ==
    /\ pc \in Reads \cup {"readdir", "print"} /\ old_procs # <<>> /\ options.delay > 0
           => old_cpu < new_cpu
    /\ DivideNeedsNoDelay

\* The files of a process whose number is never taken again are its own, as long as
\* it is there or once its task directory was opened.
Sure(t) == start[t] = 0 /\ (t \in alive \/ pc \in {"tasks", "thread"})
First(t) == <<t[1], t[2], 0>>

OwnFiles(r) ==
    LET leader == Leader(rec[r].task[1]) IN
    /\ leader \in Tasks
    /\ ~options.threads => rec[r].task = leader
    /\ start[leader] = 0 =>
         /\ rec[r].name = First(leader) /\ rec[r].uid = First(leader)
         /\ ~options.threads => rec[r].stat = First(leader)

FilesInv ==
    /\ \A r \in Held(new_procs) : OwnFiles(r)
    /\ pc \in Reads /\ Sure(Leader(dir.pid)) =>
         LET leader == Leader(dir.pid) IN
         IF options.threads
         THEN /\ pc # "cmdline" => cur_proc.name = First(leader)
              /\ pc \notin {"cmdline", "status"} => cur_proc.uid = First(leader)
         ELSE /\ pc # "stat" => rec[proc].stat = First(leader)
              /\ pc \notin {"stat", "cmdline"} => rec[proc].name = First(leader)
              /\ pc \notin {"stat", "cmdline", "status"} => rec[proc].uid = First(leader)

\* The times of a task that was there all the time grow from sample to sample.
Timed == {"cmdline", "status", "task", "tasks"}
InTime == IF pc \in Timed THEN Hand ELSE {}

Lasting(r) ==
    /\ start[rec[r].task] = 0
    /\ options.threads \/ (r = proc /\ pc # "tasks") => rec[r].task \in alive

\* A sampled time is not of before the last sample, nor ahead of the task.
InOrder(r) ==
    Lasting(r) =>
        /\ rec[r].time <= time[rec[r].task]
        /\ \A o \in Held(old_procs) : rec[o].task = rec[r].task => rec[o].time <= rec[r].time

TimeInv ==
    /\ \A r \in Held(old_procs) \cup Sampled : rec[r].task \in Tasks
    /\ \A r \in Held(old_procs) : Lasting(r) => rec[r].time <= time[rec[r].task]
    /\ \A r \in Sampled \cup InTime : InOrder(r)

\* After the sort
SortInv ==
    pc = "free" => \A i, j \in DOMAIN new_procs : i < j => NotAfter(new_procs[i], new_procs[j])

IInv ==
    /\ TypeOK /\ ClockInv /\ PlaceInv /\ ArrayInv /\ OwnInv /\ CpuInv /\ FilesInv
    /\ pc \notin Stopped => TimeInv
    /\ SortInv
-----------------------------------------------------------------------------
(* Lemmas about numbers, sequences and arrays                              *)

\* The least element of a set of natural numbers
LEMMA MinLemma ==
    ASSUME NEW S, S \subseteq Nat, S # {}
    PROVE  Min(S) \in S /\ \A x \in S : Min(S) <= x
<1>1. PICK m \in S : \A y \in S : ~ (<<y, m>> \in OpToRel(<, Nat))
  BY WFMin, NatLessThanWellFounded
<1>2. ASSUME NEW y \in S PROVE m <= y
  <2>1. m \in Nat /\ y \in Nat
    OBVIOUS
  <2>2. <<y, m>> \in Nat \X Nat => (y < m => <<y, m>> \in OpToRel(<, Nat))
    BY DEF OpToRel
  <2>3. ~ (y < m)
    BY <1>1, <2>1, <2>2
  <2> QED BY <2>1, <2>3
<1> QED BY <1>2 DEF Min

\* A set of natural numbers that has all those below each of its elements
LEMMA DownwardClosed ==
    ASSUME NEW N \in Nat, NEW S \in SUBSET (1..N),
           \A i, j \in 1..N : i < j /\ j \in S => i \in S
    PROVE  \E n \in 0..N : S = 1..n
<1> DEFINE B == {k \in Nat : \A s \in S : s <= k}
<1>1. N \in B
  OBVIOUS
<1>2. Min(B) \in B /\ \A x \in B : Min(B) <= x
  BY <1>1, MinLemma
<1> DEFINE n == Min(B)
<1>3. n \in Nat /\ n <= N /\ S \subseteq 1..n
  BY <1>1, <1>2
<1> HIDE DEF n
<1>4. 1..n \subseteq S
  <2>1. CASE n = 0
    BY <2>1
  <2>2. CASE n # 0
    <3>1. n \in S
      <4>1. SUFFICES ASSUME n \notin S PROVE FALSE
        OBVIOUS
      <4>2. n - 1 \in B
        BY <1>3, <2>2, <4>1
      <4> QED BY <1>2, <1>3, <4>2 DEF n
    <3> QED BY <1>3, <3>1
  <2> QED BY <2>1, <2>2
<1>5. n \in 0..N
  BY <1>3
<1>6. S = 1..n
  BY <1>3, <1>4, Zenon
<1> QED BY <1>5, <1>6

\* The records of an array without duplicates are as many as its entries.
LEMMA HeldCount ==
    ASSUME NEW a, NEW n \in Nat, Occupied(a) = 1..n, Distinct(a)
    PROVE  /\ IsFiniteSet(Held(a)) /\ Cardinality(Held(a)) = n
           /\ Cardinality(Occupied(a)) = n
<1>1. IsFiniteSet(1..n) /\ Cardinality(1..n) = n
  BY FS_Interval
<1> DEFINE f == [i \in 1..n |-> a[i]]
<1>2. f \in [1..n -> Held(a)]
  BY DEF Held
<1>3. \A i \in 1..n : f[i] = a[i]
  OBVIOUS
<1> HIDE DEF f
<1>4. f \in Surjection(1..n, Held(a))
  BY <1>2, <1>3 DEF Surjection, Held
<1>5. f \in Injection(1..n, Held(a))
  BY <1>2, <1>3 DEF Injection, IsInjective, Distinct
<1> QED BY <1>1, <1>4, <1>5, FS_Surjection

\* A list of records has no NULL.
LEMMA ListedHeld ==
    ASSUME NEW s \in Seq(Recs)
    PROVE  Occupied(s) = 1..Len(s) /\ {s[i] : i \in DOMAIN s} = Held(s)
<1>1. \A i \in 1..Len(s) : s[i] # NULL
  BY BoundsAssumption DEF Recs, NULL, BoundsAssumption
<1>2. DOMAIN s = 1..Len(s)
  OBVIOUS
<1>3. Occupied(s) = 1..Len(s)
  BY <1>1, <1>2, Zenon DEF Occupied
<1> QED BY <1>2, <1>3 DEF Held

\* qsort moves records, makes none and loses none, and leaves the NULLs at the end.
LEMMA SortLemma ==
    ASSUME NEW a \in qsort, new_procs \in Seq(Recs \cup {NULL}), proc_num \in 0..Len(new_procs),
           Occupied(new_procs) = 1..proc_num, Distinct(new_procs)
    PROVE  /\ a \in Seq(Recs \cup {NULL}) /\ Len(a) = Len(new_procs)
           /\ Held(a) = Held(new_procs) /\ Occupied(a) = 1..proc_num /\ Distinct(a)
           /\ \A i, j \in DOMAIN a : i < j => NotAfter(a[i], a[j])
<1> DEFINE N == Len(new_procs)
<1>1. N \in Nat /\ DOMAIN new_procs = 1..N
  OBVIOUS
<1>2. PICK p \in Bijection(1..N, 1..N) : a = [i \in 1..N |-> new_procs[p[i]]]
  <2>1. PICK p \in Bijection(DOMAIN new_procs, DOMAIN new_procs) :
           a = [i \in DOMAIN p |-> new_procs[p[i]]]
    BY DEF qsort, Permuted
  <2>2. p \in Bijection(1..N, 1..N) /\ DOMAIN p = 1..N
    BY <1>1 DEF Bijection, Injection
  <2> QED BY <2>1, <2>2
<1>3. /\ p \in [1..N -> 1..N] /\ \A i, j \in 1..N : p[i] = p[j] => i = j
      /\ \A k \in 1..N : \E i \in 1..N : p[i] = k
  BY DEF Bijection, Injection, IsInjective, Surjection
<1>4. a \in Seq(Recs \cup {NULL}) /\ Len(a) = N /\ DOMAIN a = 1..N
  <2>1. \A i \in 1..N : new_procs[p[i]] \in Recs \cup {NULL}
    <3>1. \A k \in 1..N : new_procs[k] \in Recs \cup {NULL}
      BY <1>1
    <3> QED BY <1>3, <3>1
  <2> QED BY <1>1, <1>2, <2>1
<1>5. \A i \in 1..N : a[i] = new_procs[p[i]]
  BY <1>2
<1>6. \A i, j \in DOMAIN a : i < j => NotAfter(a[i], a[j])
  BY DEF qsort
<1>7. \A i \in 1..N : i \in Occupied(a) <=> p[i] \in 1..proc_num
  BY <1>1, <1>3, <1>4, <1>5 DEF Occupied
<1>8. Held(a) = Held(new_procs)
  <2>1. ASSUME NEW i \in Occupied(a) PROVE a[i] \in Held(new_procs)
    BY <1>3, <1>4, <1>5, <1>7 DEF Held, Occupied
  <2>2. ASSUME NEW k \in Occupied(new_procs)
        PROVE  new_procs[k] \in Held(a)
    <3>1. PICK i \in 1..N : p[i] = k
      BY <1>1, <1>3
    <3> QED BY <1>5, <1>7, <3>1 DEF Held
  <2> QED BY <2>1, <2>2 DEF Held
<1>9. Distinct(a)
  BY <1>1, <1>3, <1>4, <1>5, <1>7 DEF Distinct, Occupied
<1>10. Occupied(a) = 1..proc_num
  <2>1. Occupied(a) \in SUBSET (1..N)
    BY <1>4 DEF Occupied
  <2>2. \A i, j \in 1..N : i < j /\ j \in Occupied(a) => i \in Occupied(a)
    BY <1>4, <1>6 DEF Occupied, NotAfter
  <2>3. PICK n \in 0..N : Occupied(a) = 1..n
    BY <1>1, <2>1, <2>2, DownwardClosed
  <2>4. n \in Nat /\ proc_num \in Nat
    BY <1>1
  <2>5. Cardinality(Held(a)) = n /\ Cardinality(Held(new_procs)) = proc_num
    BY <1>9, <2>3, <2>4, HeldCount
  <2> QED BY <1>8, <2>3, <2>5
<1> QED BY <1>4, <1>6, <1>8, <1>9, <1>10

\* free_old_procs puts the records of the array on the list.
LEMMA PushedLemma ==
    ASSUME NEW a \in Seq(Recs \cup {NULL}), NEW n \in 0..Len(a), NEW s \in Seq(Recs),
           Occupied(a) = 1..n, Distinct(a), Distinct(s), Held(a) \cap Held(s) = {}
    PROVE  /\ Pushed(a, s) \in Seq(Recs) /\ Len(Pushed(a, s)) = Len(s) + n
           /\ Held(Pushed(a, s)) = Held(a) \cup Held(s) /\ Distinct(Pushed(a, s))
           /\ Cardinality(Occupied(a)) = n
<1>1. n \in Nat /\ Cardinality(Occupied(a)) = n
  BY HeldCount
<1> DEFINE q == Pushed(a, s)
<1>2. q = [i \in 1..n |-> a[n + 1 - i]] \o s
  BY <1>1 DEF Pushed
<1>3. \A i \in 1..n : a[i] \in Recs /\ a[i] # NULL
  BY DEF Occupied
<1>4. [i \in 1..n |-> a[n + 1 - i]] \in Seq(Recs)
  <2>1. \A i \in 1..n : n + 1 - i \in 1..n
    BY <1>1
  <2> QED BY <1>1, <1>3, <2>1
<1>5. /\ q \in Seq(Recs) /\ Len(q) = Len(s) + n
      /\ \A i \in 1..Len(q) : q[i] = IF i <= n THEN a[n + 1 - i] ELSE s[i - n]
  BY <1>1, <1>2, <1>4
<1> HIDE DEF q
<1>6. Occupied(q) = 1..(Len(s) + n) /\ Occupied(s) = 1..Len(s) /\ Len(s) \in Nat
  BY <1>5, ListedHeld
<1>7. Held(q) = Held(a) \cup Held(s)
  <2>1. Held(q) \subseteq Held(a) \cup Held(s)
    <3> SUFFICES ASSUME NEW i \in 1..(Len(s) + n) PROVE q[i] \in Held(a) \cup Held(s)
      BY <1>6 DEF Held
    <3>1. CASE i <= n
      <4>1. n + 1 - i \in 1..n /\ q[i] = a[n + 1 - i]
        BY <1>1, <1>5, <1>6, <3>1
      <4> QED BY <4>1 DEF Held
    <3>2. CASE i > n
      <4>1. i - n \in 1..Len(s) /\ q[i] = s[i - n]
        BY <1>1, <1>5, <1>6, <3>2
      <4> QED BY <1>6, <4>1 DEF Held
    <3> QED BY <1>1, <3>1, <3>2
  <2>2. \A i \in 1..n : a[i] = q[n + 1 - i] /\ n + 1 - i \in 1..(Len(s) + n)
    BY <1>1, <1>5, <1>6
  <2>3. \A i \in 1..Len(s) : s[i] = q[i + n] /\ i + n \in 1..(Len(s) + n)
    BY <1>1, <1>5, <1>6
  <2>4. \A i \in 1..n : a[i] \in Held(q)
    <3> SUFFICES ASSUME NEW i \in 1..n PROVE a[i] \in Held(q)
      OBVIOUS
    <3> QED BY <2>2, <1>6 DEF Held
  <2>5. \A i \in 1..Len(s) : s[i] \in Held(q)
    <3> SUFFICES ASSUME NEW i \in 1..Len(s) PROVE s[i] \in Held(q)
      OBVIOUS
    <3> QED BY <2>3, <1>6 DEF Held
  <2>6. Held(a) \cup Held(s) \subseteq Held(q)
    BY <1>6, <2>4, <2>5 DEF Held
  <2> QED BY <2>1, <2>6, Zenon
<1>8. Distinct(q)
  <2> SUFFICES ASSUME NEW i \in 1..(Len(s) + n), NEW j \in 1..(Len(s) + n), q[i] = q[j]
               PROVE  i = j
    BY <1>6 DEF Distinct
  <2>1. CASE i <= n /\ j <= n
    <3>1. n + 1 - i \in 1..n /\ n + 1 - j \in 1..n /\ a[n + 1 - i] = a[n + 1 - j]
      BY <1>1, <1>5, <2>1
    <3>2. n + 1 - i = n + 1 - j
      BY <3>1 DEF Distinct
    <3> QED BY <1>1, <3>2
  <2>2. CASE i > n /\ j > n
    <3>1. i - n \in 1..Len(s) /\ j - n \in 1..Len(s) /\ s[i - n] = s[j - n]
      BY <1>1, <1>5, <1>6, <2>2
    <3>2. i - n = j - n
      BY <1>6, <3>1 DEF Distinct
    <3> QED BY <1>1, <3>2
  <2>3. ASSUME NEW k \in 1..n, NEW m \in 1..(Len(s) + n), m > n, q[k] = q[m] PROVE FALSE
    <3>1. n + 1 - k \in 1..n /\ q[k] = a[n + 1 - k]
      BY <1>1, <1>5, <1>6, <2>3
    <3>2. m - n \in 1..Len(s) /\ q[m] = s[m - n]
      BY <1>1, <1>5, <1>6, <2>3
    <3> QED BY <1>6, <2>3, <3>1, <3>2 DEF Held
  <2> QED BY <1>1, <2>1, <2>2, <2>3
<1> QED BY <1>1, <1>5, <1>7, <1>8 DEF q
-----------------------------------------------------------------------------
(* The tasks of the system                                                 *)

\* A pair of Tasks and its leader
LEMMA TaskPair ==
    ASSUME NEW t \in Tasks
    PROVE  /\ t = <<t[1], t[2]>> /\ t[1] \in Nat \ {0} /\ t[2] \in Nat \ {0}
           /\ Leader(t[1]) \in Tasks
BY TasksAssumption DEF TasksAssumption, Leader

\* What is read of a task fits in a record.
LEMMA TaskValues ==
    ASSUME TypeOK, NEW t \in Tasks
    PROVE  This(t) \in Origin /\ time[t] \in 0..(Word - 1) /\ Size[t] \in Nat
<1>1. This(t) = <<t[1], t[2], start[t]>> /\ start[t] \in 0..MaxChanges
  BY DEF This, TypeOK
<1>2. time[t] \in 0..MaxTicks
  BY DEF TypeOK
<1> QED BY <1>1, <1>2, TasksAssumption, BoundsAssumption
        DEF Origin, TasksAssumption, BoundsAssumption

\* read_stat writes three fields at most, all of them when the task is there.
LEMMA StatLemma ==
    ASSUME TypeOK, NEW t, NEW r \in Record, NEW x \in read_stat(t, r)
    PROVE  /\ x \in Record /\ x.task = r.task /\ x.name = r.name /\ x.uid = r.uid
           /\ x.num_threads = r.num_threads
           /\ t \in alive => x.stat = This(t) /\ x.time = time[t]
<1>1. CASE t \in alive
  <2>1. This(t) \in Origin /\ time[t] \in 0..(Word - 1) /\ Size[t] \in Nat
    BY <1>1, TaskValues DEF TypeOK
  <2>2. x = [r EXCEPT !.stat = This(t), !.time = time[t], !.size = Size[t]]
    BY <1>1 DEF read_stat
  <2> QED BY <2>1, <2>2 DEF Record
<1>2. CASE t \notin alive /\ r.stat # Unknown
  BY <1>2 DEF read_stat
<1>3. CASE t \notin alive /\ r.stat = Unknown
  <2>1. PICK v \in 0..(Word - 1) : x = [r EXCEPT !.time = v]
    BY <1>3 DEF read_stat
  <2> QED BY <1>3, <2>1 DEF Record
<1> QED BY <1>1, <1>2, <1>3

SystemStep == Tick \/ \E t \in Tasks : TaskEnds(t) \/ TaskStarts(t)

\* The steps of the system leave top alone, no task that never ended comes back, and
\* neither its time nor the clock goes back.
LEMMA SystemLemma ==
    ASSUME TypeOK, ClockInv, SystemStep
    PROVE  /\ UNCHANGED <<pc, options, iterations, arrays, pool, rec, reading, lost>>
           /\ alive' \subseteq Tasks /\ changes' \in Nat
           /\ start' \in [Tasks -> 0..MaxChanges] /\ time' \in [Tasks -> 0..MaxTicks]
           /\ clock' \in 0..MaxTicks /\ clock <= clock'
           /\ pc \notin Stopped
           /\ \A t \in Tasks :
                /\ start[t] <= start'[t] /\ start'[t] <= changes' /\ time'[t] <= clock'
                /\ start'[t] = 0 => time[t] <= time'[t] /\ (t \in alive' => t \in alive)
<1> USE BoundsAssumption DEF BoundsAssumption
<1>1. CASE Tick
  <2>1. /\ UNCHANGED <<pc, options, iterations, arrays, pool, rec, reading, lost>>
        /\ UNCHANGED <<alive, start, changes>> /\ clock' = clock + 1 /\ clock < MaxTicks
        /\ pc \in {"read", "stat", "thread"}
    BY <1>1 DEF Tick, System
  <2>2. (\E t \in alive : time' = [time EXCEPT ![t] = @ + 1]) \/ time' = time
    BY <1>1 DEF Tick
  <2>3. \A t \in Tasks : time[t] \in Nat /\ time[t] <= clock
    BY DEF TypeOK, ClockInv
  <2>4. /\ time' \in [Tasks -> 0..MaxTicks]
        /\ \A t \in Tasks : time[t] <= time'[t] /\ time'[t] <= clock + 1
    <3>1. CASE time' = time
      BY <2>3, <3>1 DEF TypeOK
    <3>2. ASSUME NEW u \in alive, time' = [time EXCEPT ![u] = @ + 1]
          PROVE  /\ time' \in [Tasks -> 0..MaxTicks]
                 /\ \A t \in Tasks : time[t] <= time'[t] /\ time'[t] <= clock + 1
      <4>1. u \in Tasks /\ clock \in Nat /\ time \in [Tasks -> 0..MaxTicks]
        BY DEF TypeOK
      <4>2. \A t \in Tasks : time'[t] = IF t = u THEN time[t] + 1 ELSE time[t]
        BY <3>2, <4>1
      <4>3. \A t \in Tasks : time'[t] \in 0..MaxTicks
        BY <2>1, <2>3, <4>1, <4>2
      <4>4. time' \in [Tasks -> 0..MaxTicks]
        BY <3>2, <4>1, <4>3
      <4> QED BY <2>3, <4>1, <4>2, <4>4
    <3> QED BY <2>2, <3>1, <3>2
  <2>5. clock' \in 0..MaxTicks /\ clock <= clock' /\ pc \notin Stopped
    BY <2>1 DEF TypeOK, Stopped
  <2> QED BY <2>1, <2>4, <2>5 DEF TypeOK, ClockInv
<1>2. ASSUME NEW u \in Tasks, TaskEnds(u)
      PROVE  alive' \subseteq alive /\ changes' \in Nat /\ changes <= changes'
  <2>1. alive' \subseteq alive /\ changes' = changes + Cardinality(alive \ alive')
    BY <1>2 DEF TaskEnds
  <2>2. IsFiniteSet(alive \ alive')
    BY FS_Subset, TasksAssumption DEF TasksAssumption, TypeOK
  <2> QED BY <2>1, <2>2, FS_CardinalityType DEF TypeOK
<1>3. ASSUME NEW u \in Tasks, TaskEnds(u)
      PROVE  /\ UNCHANGED <<pc, options, iterations, arrays, pool, rec, reading, lost>>
             /\ UNCHANGED <<start, time, clock>> /\ pc \notin Stopped
  BY <1>3 DEF TaskEnds, System, Probes, Stopped
<1>4. ASSUME NEW u \in Tasks, TaskStarts(u)
      PROVE  /\ UNCHANGED <<pc, options, iterations, arrays, pool, rec, reading, lost>>
             /\ UNCHANGED clock /\ pc \notin Stopped
             /\ alive' = alive \cup {u} /\ changes' = changes + 1 /\ changes < MaxChanges
             /\ start' = [start EXCEPT ![u] = @ + 1] /\ time' = [time EXCEPT ![u] = 0]
  BY <1>4 DEF TaskStarts, System, Probes, Stopped
<1>5. CASE \E u \in Tasks : TaskEnds(u)
  BY <1>2, <1>3, <1>5 DEF TypeOK, ClockInv
<1>6. CASE \E u \in Tasks : TaskStarts(u)
  <2>1. PICK u \in Tasks : TaskStarts(u)
    BY <1>6
  <2>2. \A t \in Tasks : start[t] \in Nat /\ start[t] <= changes /\ time[t] \in Nat
    BY DEF TypeOK, ClockInv
  <2>3. \A t \in Tasks : start'[t] = (IF t = u THEN start[t] + 1 ELSE start[t])
                         /\ time'[t] = (IF t = u THEN 0 ELSE time[t])
    BY <1>4, <2>1 DEF TypeOK
  <2>4. start' \in [Tasks -> 0..MaxChanges] /\ time' \in [Tasks -> 0..MaxTicks]
    <3>1. changes \in Nat /\ changes < MaxChanges
      BY <1>4, <2>1 DEF TypeOK
    <3>2. \A t \in Tasks : start[t] \in 0..MaxChanges /\ time[t] \in 0..MaxTicks
      BY DEF TypeOK
    <3>3. \A t \in Tasks : start'[t] \in 0..MaxChanges
      BY <2>1, <2>2, <2>3, <3>1, <3>2
    <3>4. \A t \in Tasks : time'[t] \in 0..MaxTicks
      BY <2>1, <2>3, <3>2
    <3> QED BY <1>4, <2>1, <3>3, <3>4 DEF TypeOK
  <2>5. alive' \subseteq Tasks /\ changes' \in Nat /\ clock' \in 0..MaxTicks /\ clock <= clock'
    BY <1>4, <2>1 DEF TypeOK
  <2>6. \A t \in Tasks :
          /\ start[t] <= start'[t] /\ start'[t] <= changes' /\ time'[t] <= clock'
          /\ start'[t] = 0 => time[t] <= time'[t] /\ (t \in alive' => t \in alive)
    BY <1>4, <2>1, <2>2, <2>3 DEF TypeOK, ClockInv
  <2> QED BY <1>4, <2>1, <2>4, <2>5, <2>6
<1> QED BY <1>1, <1>5, <1>6 DEF SystemStep
\* The order of the lines depends on the old array, the records and the options.
LEMMA OrderSame ==
    ASSUME UNCHANGED <<old_procs, rec, options>>
    PROVE  \A a, b : NotAfter(a, b)' <=> NotAfter(a, b)
<1>1. ASSUME NEW r PROVE delta_time(r)' = delta_time(r)
  <2> DEFINE t == rec[r].task
  <2>1. find_old_proc(t)' = find_old_proc(t)
    BY DEF find_old_proc, Occupied
  <2> QED BY <2>1 DEF delta_time
<1>2. ASSUME NEW r PROVE Key(r)' = Key(r)
  BY <1>1 DEF Key
<1> QED BY <1>2 DEF NotAfter

\* So every part of the invariant holds after a step of the system.
LEMMA SystemInv == IInv /\ SystemStep => IInv'
<1> SUFFICES ASSUME IInv, SystemStep PROVE IInv'
  OBVIOUS
<1>1. /\ TypeOK /\ ClockInv /\ PlaceInv /\ ArrayInv /\ OwnInv /\ CpuInv /\ FilesInv /\ SortInv
      /\ pc \notin Stopped => TimeInv
  BY DEF IInv
<1>2. /\ UNCHANGED <<pc, options, iterations, old_procs, new_procs, proc_num, old_cpu, new_cpu>>
      /\ UNCHANGED <<free_procs, num_used_procs, num_free_procs, mallocs>>
      /\ UNCHANGED <<rec, proc, cur_proc, dir, lost>>
      /\ alive' \subseteq Tasks /\ changes' \in Nat
      /\ start' \in [Tasks -> 0..MaxChanges] /\ time' \in [Tasks -> 0..MaxTicks]
      /\ clock' \in 0..MaxTicks /\ clock <= clock' /\ pc \notin Stopped
  BY <1>1, SystemLemma DEF arrays, pool, reading
<1>3. \A t \in Tasks :
        /\ start[t] <= start'[t] /\ start'[t] <= changes' /\ time'[t] <= clock'
        /\ start'[t] = 0 => time[t] <= time'[t] /\ (t \in alive' => t \in alive)
  BY <1>1, SystemLemma
<1>4. TypeOK'
  BY <1>1, <1>2 DEF TypeOK
<1>5. ClockInv'
  BY <1>2, <1>3 DEF ClockInv
<1>6. PlaceInv' /\ ArrayInv' /\ OwnInv' /\ CpuInv'
  <2>1. PlaceInv'
    BY <1>1, <1>2 DEF PlaceInv, InHand
  <2>2. ArrayInv'
    BY <1>1, <1>2 DEF ArrayInv, Occupied, Distinct
  <2>3. OwnInv'
    BY <1>1, <1>2 DEF OwnInv, Listed, Held, Occupied, Sampled, Hand
  <2>4. CpuInv'
    BY <1>1, <1>2 DEF CpuInv, DivideNeedsNoDelay
  <2> QED BY <2>1, <2>2, <2>3, <2>4
<1>7. SortInv'
  <2>1. \A a, b : NotAfter(a, b)' <=> NotAfter(a, b)
    BY <1>2, OrderSame
  <2> QED BY <1>1, <1>2, <2>1 DEF SortInv
<1>8. \A t \in Tasks : start'[t] = 0 => start[t] = 0 /\ (t \in alive' => t \in alive)
  BY <1>1, <1>2, <1>3 DEF TypeOK
<1>9. FilesInv'
  <2>1. Held(new_procs)' = Held(new_procs)
    BY <1>2 DEF Held, Occupied
  <2>2. ASSUME NEW r \in Held(new_procs) PROVE OwnFiles(r)'
    <3>1. OwnFiles(r)
      BY <1>1 DEF FilesInv
    <3> QED BY <1>2, <1>8, <3>1 DEF OwnFiles
  <2>3. ASSUME NEW t \in Tasks, Sure(t)' PROVE Sure(t)
    BY <1>2, <1>8, <2>3 DEF Sure
  <2>4. pc \in Reads => Leader(dir.pid) \in Tasks
    BY <1>1 DEF PlaceInv
  <2> QED BY <1>1, <1>2, <2>1, <2>2, <2>3, <2>4 DEF FilesInv
<1>10. TimeInv'
  <2>1. /\ Held(old_procs)' = Held(old_procs) /\ Sampled' = Sampled /\ InTime' = InTime
    BY <1>2 DEF Held, Occupied, Sampled, InTime, Hand
  <2>2. \A r \in Held(old_procs) \cup Sampled \cup InTime : rec[r].task \in Tasks
    <3>1. \A r \in Held(old_procs) \cup Sampled : rec[r].task \in Tasks
      BY <1>1, <1>2 DEF TimeInv
    <3>2. ASSUME NEW r \in InTime PROVE rec[r].task \in Tasks
      <4>1. pc \in Timed /\ r = proc /\ proc # NULL
        BY <3>2 DEF InTime, Hand
      <4>2. InHand
        BY <1>1, <1>2, <4>1 DEF PlaceInv
      <4>3. ~options.threads /\ pc \in Reads
        BY <4>1, <4>2 DEF InHand, Timed, Reads
      <4> QED BY <1>1, <4>1, <4>2, <4>3 DEF PlaceInv
    <3> QED BY <3>1, <3>2
  <2>3. ASSUME NEW r \in Held(old_procs) \cup Sampled \cup InTime, Lasting(r)'
        PROVE  Lasting(r) /\ time[rec[r].task] <= time'[rec[r].task]
    BY <1>2, <1>3, <1>8, <2>2, <2>3 DEF Lasting
  <2>4. ASSUME NEW r \in Held(old_procs) \cup Sampled \cup InTime, Lasting(r)'
        PROVE  rec'[r].time <= time'[rec'[r].task]
    <3>1. rec[r].time <= time[rec[r].task] /\ time[rec[r].task] <= time'[rec[r].task]
      BY <1>1, <1>2, <2>3, <2>4 DEF TimeInv, InOrder
    <3>2. r \in Recs
      BY <1>1 DEF Held, Sampled, InTime, Hand, Occupied, TypeOK
    <3>3. rec[r].time \in Nat /\ time[rec[r].task] \in Nat /\ time'[rec[r].task] \in Nat
      BY <1>1, <1>2, <2>2, <3>2, BoundsAssumption DEF TypeOK, Record, BoundsAssumption
    <3> QED BY <1>2, <3>1, <3>3
  <2>5. ASSUME NEW r \in Sampled \cup InTime PROVE InOrder(r)'
    <3>1. InOrder(r)
      BY <1>1, <1>2 DEF TimeInv
    <3> QED BY <1>2, <2>1, <2>3, <2>4, <3>1 DEF InOrder
  <2>6. \A r \in Held(old_procs) : Lasting(r)' => rec'[r].time <= time'[rec'[r].task]
    BY <2>4
  <2> QED BY <1>2, <2>1, <2>2, <2>5, <2>6 DEF TimeInv
<1> QED BY <1>4, <1>5, <1>6, <1>7, <1>9, <1>10 DEF IInv
-----------------------------------------------------------------------------
(* The steps of top: alloc_proc and add_proc                               *)

\* What is left of a list when its first record is taken
LEMMA HeadLemma ==
    ASSUME NEW s \in Seq(Recs), s # <<>>, Distinct(s)
    PROVE  /\ Head(s) \in Held(s) /\ Tail(s) \in Seq(Recs) /\ Len(Tail(s)) = Len(s) - 1
           /\ Held(Tail(s)) = Held(s) \ {Head(s)} /\ Distinct(Tail(s)) /\ Len(s) > 0
<1> DEFINE q == Tail(s)
           n == Len(s)
<1>1. n \in Nat /\ n > 0 /\ Head(s) = s[1]
  OBVIOUS
<1>2. /\ q \in Seq(Recs) /\ Len(q) = n - 1
      /\ \A i \in 1..(n - 1) : q[i] = s[i + 1]
  BY <1>1
<1> HIDE DEF q
<1>3. Occupied(s) = 1..n /\ Occupied(q) = 1..(n - 1)
  BY <1>2, ListedHeld
<1>4. \A i, j \in 1..n : s[i] = s[j] => i = j
  BY <1>3 DEF Distinct
<1> HIDE DEF n
<1>5. Head(s) \in Held(s)
  BY <1>1, <1>3 DEF Held
<1>6. Distinct(q)
  <2> SUFFICES ASSUME NEW i \in 1..(n - 1), NEW j \in 1..(n - 1), q[i] = q[j] PROVE i = j
    BY <1>3 DEF Distinct
  <2>1. i + 1 \in 1..n /\ j + 1 \in 1..n /\ s[i + 1] = s[j + 1]
    BY <1>1, <1>2
  <2>2. i + 1 = j + 1
    BY <1>4, <2>1
  <2> QED BY <1>1, <2>2
<1>7. ASSUME NEW i \in 1..(n - 1) PROVE q[i] \in Held(s) \ {Head(s)}
  <2>1. i + 1 \in 1..n /\ 1 \in 1..n /\ i + 1 # 1 /\ q[i] = s[i + 1]
    BY <1>1, <1>2
  <2>2. s[i + 1] # s[1] /\ s[i + 1] \in Held(s)
    BY <1>3, <1>4, <2>1 DEF Held
  <2> QED BY <1>1, <2>1, <2>2
<1>8. ASSUME NEW k \in 1..n, s[k] # Head(s) PROVE s[k] \in Held(q)
  <2>1. k - 1 \in 1..(n - 1) /\ k - 1 + 1 = k
    BY <1>1, <1>8
  <2>2. q[k - 1] = s[k]
    BY <1>2, <2>1
  <2> QED BY <1>3, <2>1, <2>2 DEF Held
<1>9. Held(q) = Held(s) \ {Head(s)}
  <2>1. Held(q) \subseteq Held(s) \ {Head(s)}
    BY <1>3, <1>7 DEF Held
  <2>2. Held(s) \ {Head(s)} \subseteq Held(q)
    BY <1>3, <1>8 DEF Held
  <2> QED BY <2>1, <2>2, Zenon
<1> QED BY <1>1, <1>2, <1>5, <1>6, <1>9 DEF q, n

\* What alloc_proc does to the records when it does not die: the one in hand was in no
\* other place.
Allocated(t, next) ==
    /\ pc' = next
    /\ free_procs' \in Seq(Recs) /\ Distinct(free_procs')
    /\ num_used_procs' \in Nat /\ num_free_procs' \in Nat /\ mallocs' \in 0..MaxRecs
    /\ proc' \in Recs /\ rec' \in [Recs -> Record]
    /\ rec'[proc'].task = t /\ \A r \in Recs \ {proc'} : rec'[r] = rec[r]
    /\ Apart(Listed', Held(old_procs), Sampled, {proc'}, lost)
    /\ Listed' \cup Held(old_procs) \cup Sampled \cup {proc'} \cup lost = 1..mallocs'
    /\ num_free_procs' = Len(free_procs')
    /\ num_used_procs' = mallocs' - Len(free_procs')

Dies == pc' = "died" /\ UNCHANGED <<pool, rec, proc>>

\* alloc_proc gives a record, from the list or from malloc, or top dies.
LEMMA AllocLemma ==
    ASSUME TypeOK, ArrayInv, OwnInv, pc \notin Stopped, proc = NULL,
           NEW t \in Tasks, NEW next, alloc_proc(t, next)
    PROVE  Dies \/ Allocated(t, next)
<1> USE DEF Dies, Allocated
<1> USE BoundsAssumption DEF BoundsAssumption
<1>1. /\ free_procs \in Seq(Recs) /\ Distinct(free_procs) /\ Listed = Held(free_procs)
      /\ mallocs \in 0..MaxRecs /\ rec \in [Recs -> Record]
      /\ num_used_procs \in Nat /\ num_free_procs \in Nat
  BY ListedHeld DEF TypeOK, ArrayInv, Listed
<1>2. /\ Apart(Listed, Held(old_procs), Sampled, {}, lost)
      /\ Listed \cup Held(old_procs) \cup Sampled \cup lost = 1..mallocs
      /\ num_free_procs = Len(free_procs) /\ num_used_procs = mallocs - Len(free_procs)
  BY DEF OwnInv, Hand
<1>3. ASSUME NEW r \in Recs, rec' = [rec EXCEPT ![r].task = t]
      PROVE  /\ rec' \in [Recs -> Record] /\ rec'[r].task = t
             /\ \A x \in Recs \ {r} : rec'[x] = rec[x]
  <2>1. rec[r] \in Record
    BY <1>1
  <2>2. rec' = [rec EXCEPT ![r] = [rec[r] EXCEPT !.task = t]]
    BY <1>1, <1>3
  <2>3. [rec[r] EXCEPT !.task = t] \in Record /\ [rec[r] EXCEPT !.task = t].task = t
    BY <2>1 DEF Record
  <2> QED BY <1>1, <2>2, <2>3
<1>4. CASE /\ free_procs # <<>>
           /\ proc' = Head(free_procs) /\ free_procs' = Tail(free_procs)
           /\ num_free_procs' = num_free_procs - 1 /\ num_used_procs' = num_used_procs + 1
           /\ rec' = [rec EXCEPT ![proc'].task = t]
           /\ pc' = next /\ UNCHANGED mallocs
  <2>1. /\ proc' \in Listed /\ free_procs' \in Seq(Recs) /\ Len(free_procs') = Len(free_procs) - 1
        /\ Held(free_procs') = Listed \ {proc'} /\ Distinct(free_procs') /\ Len(free_procs) > 0
    BY <1>1, <1>4, HeadLemma
  <2>2. Listed' = Listed \ {proc'} /\ proc' \in Recs
    <3>1. {free_procs'[i] : i \in DOMAIN free_procs'} = Held(free_procs')
      BY <2>1, ListedHeld
    <3>2. Listed' = Held(free_procs') /\ Listed \subseteq Recs
      BY <1>1, <3>1 DEF Listed
    <3> QED BY <2>1, <3>2
  <2>3. /\ Apart(Listed', Held(old_procs), Sampled, {proc'}, lost)
        /\ Listed' \cup Held(old_procs) \cup Sampled \cup {proc'} \cup lost = 1..mallocs
    BY <1>2, <2>1, <2>2 DEF Apart
  <2>4. /\ num_used_procs' \in Nat /\ num_free_procs' \in Nat
        /\ num_free_procs' = Len(free_procs') /\ num_used_procs' = mallocs - Len(free_procs')
    BY <1>1, <1>2, <1>4, <2>1
  <2> QED BY <1>1, <1>3, <1>4, <2>1, <2>2, <2>3, <2>4
<1>5. CASE /\ free_procs = <<>> /\ mallocs < MaxRecs
           /\ mallocs' = mallocs + 1 /\ proc' = mallocs'
           /\ num_used_procs' = num_used_procs + 1
           /\ rec' = [rec EXCEPT ![proc'].task = t]
           /\ pc' = next /\ UNCHANGED <<free_procs, num_free_procs>>
  <2>1. /\ proc' \in Recs /\ mallocs' \in 0..MaxRecs
        /\ 1..mallocs' = 1..mallocs \cup {proc'} /\ proc' \notin 1..mallocs
    BY <1>1, <1>5 DEF Recs
  <2>2. Listed' = Listed
    BY <1>5 DEF Listed
  <2>3. /\ Apart(Listed', Held(old_procs), Sampled, {proc'}, lost)
        /\ Listed' \cup Held(old_procs) \cup Sampled \cup {proc'} \cup lost = 1..mallocs'
    BY <1>2, <2>1, <2>2 DEF Apart
  <2>4. /\ num_used_procs' \in Nat /\ num_free_procs' \in Nat
        /\ num_free_procs' = Len(free_procs') /\ num_used_procs' = mallocs' - Len(free_procs')
    BY <1>1, <1>2, <1>5
  <2>5. free_procs' \in Seq(Recs) /\ Distinct(free_procs')
    BY <1>1, <1>5
  <2> QED BY <1>3, <1>5, <2>1, <2>2, <2>3, <2>4, <2>5
<1>6. CASE free_procs = <<>> /\ pc' = "died" /\ UNCHANGED <<pool, rec, proc>>
  BY <1>6
<1> QED BY <1>4, <1>5, <1>6 DEF alloc_proc

\* add_proc puts the record behind the others, or top dies.
LEMMA AddLemma ==
    ASSUME TypeOK, ArrayInv, new_procs # <<>>,
           NEW r \in Recs, r \notin Held(new_procs), NEW next, add_proc(r, next)
    PROVE  \/ pc' = "died" /\ UNCHANGED <<new_procs, proc_num, proc>>
           \/ /\ pc' = next /\ proc' = NULL
              /\ new_procs' \in Seq(Recs \cup {NULL}) /\ new_procs' # <<>>
              /\ proc_num' = proc_num + 1 /\ proc_num' \in 0..Len(new_procs')
              /\ Held(new_procs') = Held(new_procs) \cup {r}
              /\ Occupied(new_procs') = 1..proc_num' /\ Distinct(new_procs')
<1> SUFFICES ASSUME new_procs' = [Grown EXCEPT ![proc_num + 1] = r], proc_num' = proc_num + 1,
                    proc' = NULL, pc' = next
             PROVE  /\ new_procs' \in Seq(Recs \cup {NULL}) /\ new_procs' # <<>>
                    /\ proc_num' \in 0..Len(new_procs')
                    /\ Held(new_procs') = Held(new_procs) \cup {r}
                    /\ Occupied(new_procs') = 1..proc_num' /\ Distinct(new_procs')
  BY DEF add_proc
<1> DEFINE N == Len(new_procs)
           n == proc_num
           q == new_procs'
<1>1. /\ new_procs \in Seq(Recs \cup {NULL}) /\ N \in Nat /\ N > 0 /\ n \in 0..N
      /\ Occupied(new_procs) = 1..n /\ Distinct(new_procs)
  BY DEF TypeOK, ArrayInv
<1>2. r # NULL
  BY BoundsAssumption DEF Recs, NULL, BoundsAssumption
<1>3. /\ Grown \in Seq(Recs \cup {NULL}) /\ Len(Grown) \in Nat /\ Len(Grown) > n /\ Len(Grown) >= N
      /\ \A i \in 1..Len(Grown) : Grown[i] = IF i <= N THEN new_procs[i] ELSE NULL
  <2>1. CASE n < N
    BY <1>1, <2>1 DEF Grown
  <2>2. CASE ~(n < N)
    <3> DEFINE e == [i \in 1..N |-> NULL]
    <3>1. e \in Seq(Recs \cup {NULL}) /\ Len(e) = N /\ \A i \in 1..N : e[i] = NULL
      BY <1>1
    <3>2. Grown = new_procs \o e
      BY <2>2 DEF Grown
    <3> HIDE DEF e
    <3> QED BY <1>1, <2>2, <3>1, <3>2
  <2> QED BY <2>1, <2>2
<1> DEFINE M == Len(Grown)
<1>4. n \in Nat /\ M \in Nat /\ n < M /\ n + 1 \in 1..M
  BY <1>1, <1>3
<1>5. /\ q \in Seq(Recs \cup {NULL}) /\ Len(q) = M /\ DOMAIN q = 1..M
      /\ \A i \in 1..M : q[i] = IF i = n + 1 THEN r ELSE Grown[i]
  BY <1>3, <1>4
<1> HIDE DEF N, n, q, M
<1>6. \A i \in 1..n : new_procs[i] \in Held(new_procs) /\ new_procs[i] # NULL
  BY <1>1 DEF Occupied, Held
<1>7. \A i \in 1..N : i \notin 1..n => new_procs[i] = NULL
  BY <1>1 DEF Occupied, N
<1>8. \A i \in 1..M : q[i] = IF i <= n THEN new_procs[i] ELSE IF i = n + 1 THEN r ELSE NULL
  BY <1>1, <1>3, <1>5, <1>7 DEF n, N, M
<1>9. Occupied(q) = 1..(n + 1)
  BY <1>1, <1>2, <1>4, <1>5, <1>6, <1>8 DEF Occupied
<1>10. Held(q) = Held(new_procs) \cup {r}
  <2>1. Held(q) \subseteq Held(new_procs) \cup {r}
    BY <1>1, <1>4, <1>6, <1>8, <1>9 DEF Held
  <2>2. r \in Held(q)
    BY <1>1, <1>4, <1>8, <1>9 DEF Held
  <2>3. \A i \in 1..n : i \in 1..(n + 1) /\ i \in 1..M /\ q[i] = new_procs[i]
    BY <1>1, <1>4, <1>8
  <2>4. Held(new_procs) \subseteq Held(q)
    BY <1>1, <1>9, <2>3 DEF Held, n
  <2> QED BY <2>1, <2>2, <2>4
<1>11. Distinct(q)
  <2> SUFFICES ASSUME NEW i \in 1..(n + 1), NEW j \in 1..(n + 1), q[i] = q[j] PROVE i = j
    BY <1>9 DEF Distinct
  <2>1. CASE i \in 1..n /\ j \in 1..n
    <3>1. new_procs[i] = new_procs[j]
      BY <1>1, <1>4, <1>8, <2>1
    <3> QED BY <1>1, <2>1, <3>1 DEF Distinct, n
  <2>2. ASSUME NEW k \in 1..n PROVE q[k] # q[n + 1]
    BY <1>1, <1>4, <1>6, <1>8
  <2> QED BY <1>1, <2>1, <2>2
<1>12. new_procs' # <<>> /\ proc_num' \in 0..Len(new_procs')
  BY <1>4, <1>5 DEF n, q
<1> QED BY <1>5, <1>9, <1>10, <1>11, <1>12 DEF n, q
-----------------------------------------------------------------------------
(* The steps of top                                                        *)

\* The parts of the invariant, and what they say of the records of the arrays
LEMMA Parts ==
    ASSUME IInv
    PROVE  /\ TypeOK /\ ClockInv /\ PlaceInv /\ ArrayInv /\ OwnInv /\ CpuInv /\ FilesInv /\ SortInv
           /\ pc \notin Stopped => TimeInv
           /\ Held(old_procs) \subseteq Recs /\ Held(new_procs) \subseteq Recs /\ Sampled \subseteq Recs
           /\ NULL \notin Recs
           /\ pc \notin Stopped => proc \notin Held(old_procs) /\ proc \notin Sampled
<1>1. NULL \notin Recs
  BY BoundsAssumption DEF Recs, NULL, BoundsAssumption
<1>2. Held(old_procs) \subseteq Recs /\ Held(new_procs) \subseteq Recs /\ Sampled \subseteq Recs
  BY DEF IInv, TypeOK, Held, Occupied, Sampled
<1>3. pc \notin Stopped => proc \notin Held(old_procs) /\ proc \notin Sampled
  BY <1>1, <1>2 DEF IInv, OwnInv, Apart, Hand
<1> QED BY <1>1, <1>2, <1>3 DEF IInv

\* The records of the arrays that no step writes keep the files they are of ...
LEMMA FilesKept ==
    ASSUME FilesInv, UNCHANGED <<system, options>>,
           \A r \in Held(new_procs) : rec'[r] = rec[r],
           \A r \in Held(new_procs)' : r \in Held(new_procs) \/ OwnFiles(r)'
    PROVE  \A r \in Held(new_procs)' : OwnFiles(r)'
<1> SUFFICES ASSUME NEW r \in Held(new_procs) PROVE OwnFiles(r)'
  OBVIOUS
<1> QED BY DEF FilesInv, OwnFiles, system

\* ... and the order of their times.
LEMMA TimeKept ==
    ASSUME TimeInv, UNCHANGED <<system, options, old_procs>>,
           \A r \in Held(old_procs) \cup Sampled : rec'[r] = rec[r] /\ r # proc,
           \A r \in Sampled' : r \in Sampled \/ rec'[r].task \in Tasks,
           \A r \in Sampled' \cup InTime' : r \in Sampled \/ InOrder(r)'
    PROVE  TimeInv'
<1>1. Held(old_procs)' = Held(old_procs)
  BY DEF Held, Occupied
<1>2. ASSUME NEW r \in Held(old_procs) \cup Sampled, Lasting(r)' PROVE Lasting(r)
  BY <1>2 DEF Lasting, system
<1>3. ASSUME NEW r \in Sampled PROVE InOrder(r)'
  BY <1>1, <1>2 DEF TimeInv, InOrder, system
<1>4. \A r \in Held(old_procs) : Lasting(r)' => rec'[r].time <= time'[rec'[r].task]
  BY <1>2 DEF TimeInv, system
<1> QED BY <1>1, <1>3, <1>4 DEF TimeInv

\* main refuses to sort the threads of a process by their number; else the first round starts.
LEMMA MainInv == IInv /\ Main => IInv'
<1> SUFFICES ASSUME IInv, Main PROVE IInv'
  OBVIOUS
<1>1. /\ pc = "main" /\ pc' \in {"died", "read"}
      /\ UNCHANGED <<system, options, iterations, arrays, pool, rec, reading, lost>>
  BY DEF Main
<1> USE DEF system, arrays, pool, reading, Stopped, Reads
<1>2. proc = NULL /\ old_procs = <<>> /\ new_procs = <<>>
  BY <1>1, Parts DEF PlaceInv, InHand
<1>3. Held(old_procs) = {} /\ Held(new_procs) = {} /\ Sampled = {} /\ Sampled' = {} /\ InTime' = {}
  BY <1>1, <1>2 DEF Held, Occupied, Sampled, InTime, Timed
<1>4. TypeOK' /\ ClockInv'
  BY <1>1, Parts DEF TypeOK, ClockInv
<1>5. PlaceInv'
  BY <1>1, <1>2, Parts DEF PlaceInv, InHand
<1>6. ArrayInv'
  BY <1>1, Parts DEF ArrayInv, Occupied, Distinct
<1>7. OwnInv'
  BY <1>1, <1>3, Parts DEF OwnInv, Listed, Held, Occupied, Hand
<1>8. CpuInv' /\ SortInv'
  BY <1>1 DEF CpuInv, DivideNeedsNoDelay, SortInv
<1>9. FilesInv'
  BY <1>1, <1>3 DEF FilesInv, Held, Occupied
<1>10. TimeInv'
  BY <1>1, <1>3 DEF TimeInv, Held, Occupied
<1> QED BY <1>4, <1>5, <1>6, <1>7, <1>8, <1>9, <1>10 DEF IInv

\* The array that was read becomes the old one, and nothing is sampled yet.
LEMMA LoopInv == IInv /\ Loop => IInv'
<1> SUFFICES ASSUME IInv, Loop PROVE IInv'
  OBVIOUS
<1>1. /\ pc = "loop"
      /\ UNCHANGED <<system, options, new_procs, proc_num, new_cpu, pool, rec, reading, lost>>
      /\ \/ pc' = "read" /\ old_procs' = new_procs /\ old_cpu' = new_cpu
         \/ pc' = "exit" /\ UNCHANGED <<old_procs, old_cpu>>
      /\ iterations' \in -1..options.iterations
  <2>1. options.iterations \in Nat \cup {-1} /\ iterations \in -1..options.iterations
    BY Parts, OptionsAssumption DEF TypeOK, OptionsAssumption
  <2>2. iterations' = IF iterations = -1 THEN -1 ELSE iterations - 1
    BY DEF Loop
  <2>3. iterations' \in -1..options.iterations
    BY <2>1, <2>2
  <2> QED BY <2>3 DEF Loop
<1> USE DEF system, arrays, pool, reading, Stopped, Reads
<1>2. proc = NULL /\ old_procs = <<>>
  BY <1>1, Parts DEF PlaceInv, InHand
<1>3. /\ Held(old_procs) = {} /\ Sampled = Held(new_procs) /\ Held(new_procs)' = Held(new_procs)
      /\ InTime' = {}
  BY <1>1, <1>2 DEF Held, Occupied, Sampled, InTime, Timed
<1>4. TypeOK' /\ ClockInv'
  BY <1>1, Parts DEF TypeOK, ClockInv
<1>5. PlaceInv'
  BY <1>1, <1>2, Parts DEF PlaceInv, InHand
<1>6. ArrayInv'
  <2>1. proc_num \in 0..Len(new_procs) /\ Occupied(new_procs) = 1..proc_num
    BY Parts DEF TypeOK, ArrayInv
  <2>2. \E n \in 0..Len(new_procs) : Occupied(new_procs) = 1..n
    BY <2>1
  <2> QED BY <1>1, <2>2, Parts DEF ArrayInv, Occupied, Distinct
<1>7. OwnInv'
  <2>1. CASE pc' = "exit"
    BY <2>1 DEF OwnInv
  <2>2. CASE pc' = "read" /\ old_procs' = new_procs
    <3>1. Held(old_procs)' = Sampled /\ Sampled' = {} /\ Listed' = Listed /\ Hand' = Hand
      BY <1>1, <1>3, <2>2 DEF Held, Occupied, Sampled, Listed, Hand
    <3> QED BY <1>1, <1>3, <2>2, <3>1, Parts DEF OwnInv, Apart
  <2> QED BY <1>1, <2>1, <2>2
<1>8. CpuInv' /\ SortInv'
  BY <1>1 DEF CpuInv, DivideNeedsNoDelay, SortInv
<1>9. FilesInv'
  BY <1>1, <1>3, FilesKept, Parts DEF FilesInv
<1>10. pc' \notin Stopped => TimeInv'
  <2> SUFFICES ASSUME pc' = "read", old_procs' = new_procs PROVE TimeInv'
    BY <1>1
  <2>1. Held(old_procs)' = Sampled /\ Sampled' = {} /\ TimeInv
    BY <1>1, <1>3, Parts DEF Held, Occupied, Sampled
  <2>2. ASSUME NEW r \in Sampled, Lasting(r)' PROVE Lasting(r)
    BY <1>1, <2>2, Parts DEF Lasting
  <2>3. \A r \in Sampled : Lasting(r)' => rec'[r].time <= time'[rec'[r].task]
    BY <1>1, <2>1, <2>2 DEF TimeInv, InOrder
  <2> QED BY <1>1, <1>3, <2>1, <2>3 DEF TimeInv
<1> QED BY <1>4, <1>5, <1>6, <1>7, <1>8, <1>9, <1>10 DEF IInv

\* calloc gives an array of NULLs, and the clock of the sample is read.
LEMMA ReadStartInv == IInv /\ ReadStart => IInv'
<1> SUFFICES ASSUME IInv, ReadStart PROVE IInv'
  OBVIOUS
<1> DEFINE K == INIT_PROCS * (IF options.threads THEN THREAD_MULT ELSE 1)
<1>1. /\ pc = "read" /\ (old_procs # <<>> /\ options.delay > 0 => clock > old_cpu)
      /\ UNCHANGED <<system, options, iterations, old_procs, old_cpu, pool, rec, proc, cur_proc, lost>>
      /\ \/ pc' = "died" /\ UNCHANGED <<new_procs, proc_num, new_cpu, dir>>
         \/ /\ pc' \in {"readdir", "segv"} /\ new_procs' = [i \in 1..K |-> NULL]
            /\ proc_num' = 0 /\ new_cpu' = clock /\ dir' = [pid |-> 0, tid |-> 0]
  BY DEF ReadStart, cpu_times
<1> USE DEF system, arrays, pool, reading, Stopped, Reads
<1>2. K \in Nat /\ K > 0
  <2>1. INIT_PROCS \in Nat /\ INIT_PROCS > 0 /\ THREAD_MULT \in Nat /\ THREAD_MULT > 0
    BY BoundsAssumption DEF BoundsAssumption
  <2>2. INIT_PROCS * THREAD_MULT \in Nat /\ INIT_PROCS * THREAD_MULT > 0
    BY <2>1
  <2> QED BY <2>1, <2>2
<1> HIDE DEF K
<1>3. proc = NULL /\ Sampled = {} /\ InTime' = {}
  BY <1>1, Parts DEF PlaceInv, InHand, Sampled, InTime, Timed
<1>4. CASE pc' = "died" /\ UNCHANGED <<new_procs, proc_num, new_cpu, dir>>
  <2>1. TypeOK' /\ ClockInv'
    BY <1>1, <1>4, Parts DEF TypeOK, ClockInv
  <2>2. PlaceInv' /\ OwnInv' /\ SortInv'
    BY <1>4 DEF PlaceInv, InHand, OwnInv, SortInv
  <2>3. ArrayInv'
    BY <1>1, <1>4, Parts DEF ArrayInv, Occupied, Distinct
  <2>4. CpuInv'
    BY <1>4 DEF CpuInv, DivideNeedsNoDelay
  <2>5. Held(new_procs)' = Held(new_procs)
    BY <1>4 DEF Held, Occupied
  <2>6. FilesInv'
    BY <1>1, <1>4, <2>5, FilesKept, Parts DEF FilesInv
  <2> QED BY <1>4, <2>1, <2>2, <2>3, <2>4, <2>6 DEF IInv
<1>5. CASE /\ pc' \in {"readdir", "segv"} /\ new_procs' = [i \in 1..K |-> NULL]
           /\ proc_num' = 0 /\ new_cpu' = clock /\ dir' = [pid |-> 0, tid |-> 0]
  <2>1. /\ new_procs' \in Seq(Recs \cup {NULL}) /\ Len(new_procs') = K /\ new_procs' # <<>>
        /\ \A i \in DOMAIN new_procs' : new_procs'[i] = NULL
    BY <1>2, <1>5
  <2>2. Occupied(new_procs)' = {} /\ Held(new_procs)' = {} /\ Sampled' = {}
    BY <2>1 DEF Occupied, Held, Sampled
  <2>3. TypeOK'
    <3>1. 0 \in 0..Len(new_procs')
      BY <1>2, <2>1
    <3>2. clock \in 0..clock
      BY Parts, BoundsAssumption DEF TypeOK, BoundsAssumption
    <3> QED BY <1>1, <1>5, <2>1, <3>1, <3>2, Parts DEF TypeOK
  <2>4. ClockInv'
    BY <1>1, Parts DEF ClockInv
  <2>5. PlaceInv'
    BY <1>1, <1>3, <1>5, <2>1 DEF PlaceInv, InHand
  <2>6. ArrayInv'
    <3>1. 1..proc_num' = {}
      BY <1>5
    <3> QED BY <1>1, <2>2, <3>1, Parts DEF ArrayInv, Occupied, Distinct
  <2>7. OwnInv'
    <3>1. Listed' = Listed /\ Held(old_procs)' = Held(old_procs) /\ Hand' = Hand
      BY <1>1 DEF Listed, Held, Occupied, Hand
    <3> QED BY <1>1, <1>3, <2>2, <3>1, Parts DEF OwnInv, Apart
  <2>8. CpuInv'
    <3>1. clock \in Nat /\ old_cpu \in Nat
      BY Parts, BoundsAssumption DEF TypeOK, BoundsAssumption
    <3> QED BY <1>1, <1>5, <3>1 DEF CpuInv, DivideNeedsNoDelay
  <2>9. FilesInv' /\ SortInv'
    BY <1>5, <2>2 DEF FilesInv, SortInv
  <2>10. TimeInv'
    BY <1>1, <1>3, <2>2, TimeKept, Parts
  <2> QED BY <2>3, <2>4, <2>5, <2>6, <2>7, <2>8, <2>9, <2>10 DEF IInv
<1> QED BY <1>1, <1>4, <1>5

\* qsort orders the array and keeps its records; the division fails only without a delay.
LEMMA PrintProcsInv == IInv /\ PrintProcs => IInv'
<1> SUFFICES ASSUME IInv, PrintProcs PROVE IInv'
  OBVIOUS
<1>1. /\ pc = "print" /\ pc' = (IF new_cpu = old_cpu THEN "fpe" ELSE "free")
      /\ new_procs' \in qsort
      /\ UNCHANGED <<system, options, iterations, old_procs, proc_num, old_cpu, new_cpu, pool>>
      /\ UNCHANGED <<rec, reading, lost>>
  BY DEF PrintProcs
<1> USE DEF system, arrays, pool, reading, Stopped, Reads
<1>2. proc = NULL /\ old_procs # <<>>
  BY <1>1, Parts DEF PlaceInv, InHand
<1>3. /\ new_procs' \in Seq(Recs \cup {NULL}) /\ Len(new_procs') = Len(new_procs)
      /\ Held(new_procs)' = Held(new_procs) /\ Occupied(new_procs)' = 1..proc_num
      /\ Distinct(new_procs)'
      /\ \A i, j \in DOMAIN new_procs' : i < j => NotAfter(new_procs'[i], new_procs'[j])
  <2>1. /\ new_procs \in Seq(Recs \cup {NULL}) /\ proc_num \in 0..Len(new_procs)
        /\ Occupied(new_procs) = 1..proc_num /\ Distinct(new_procs)
    BY Parts DEF TypeOK, ArrayInv
  <2>2. /\ Held(new_procs') = Held(new_procs) /\ Occupied(new_procs') = 1..proc_num
        /\ Distinct(new_procs') /\ new_procs' \in Seq(Recs \cup {NULL})
        /\ Len(new_procs') = Len(new_procs)
        /\ \A i, j \in DOMAIN new_procs' : i < j => NotAfter(new_procs'[i], new_procs'[j])
    BY <1>1, <2>1, SortLemma
  <2> QED BY <2>2 DEF Held, Occupied, Distinct
<1>4. Sampled' = Sampled /\ InTime' = {}
  BY <1>1, <1>3 DEF Sampled, InTime, Timed
<1>5. TypeOK' /\ ClockInv'
  BY <1>1, <1>3, Parts DEF TypeOK, ClockInv
<1>6. PlaceInv'
  BY <1>1, <1>2, Parts DEF PlaceInv, InHand
<1>7. ArrayInv'
  BY <1>1, <1>3, Parts DEF ArrayInv, Occupied, Distinct
<1>8. OwnInv'
  <2>1. Listed' = Listed /\ Held(old_procs)' = Held(old_procs) /\ Hand' = Hand
    BY <1>1 DEF Listed, Held, Occupied, Hand
  <2> QED BY <1>1, <1>4, <2>1, Parts DEF OwnInv, Apart
<1>9. CpuInv'
  <2>1. old_cpu \in Nat /\ new_cpu \in Nat /\ options.delay \in Nat
    BY Parts, BoundsAssumption, OptionsAssumption DEF TypeOK, BoundsAssumption, OptionsAssumption
  <2> QED BY <1>1, <1>2, <2>1, Parts DEF CpuInv, DivideNeedsNoDelay
<1>10. FilesInv'
  BY <1>1, <1>3, FilesKept, Parts DEF FilesInv
<1>11. TimeInv'
  BY <1>1, <1>4, TimeKept, Parts
<1>12. SortInv'
  BY <1>1, <1>3, OrderSame DEF SortInv
<1> QED BY <1>5, <1>6, <1>7, <1>8, <1>9, <1>10, <1>11, <1>12 DEF IInv

\* The records of the old array go to the free list, and both counters follow.
LEMMA FreeOldProcsInv == IInv /\ FreeOldProcs => IInv'
<1> SUFFICES ASSUME IInv, FreeOldProcs PROVE IInv'
  OBVIOUS
<1>1. /\ pc = "free" /\ pc' = "loop" /\ old_procs' = <<>>
      /\ free_procs' = Pushed(old_procs, free_procs)
      /\ num_used_procs' = num_used_procs - Cardinality(Occupied(old_procs))
      /\ num_free_procs' = num_free_procs + Cardinality(Occupied(old_procs))
      /\ UNCHANGED <<system, options, iterations, new_procs, proc_num, old_cpu, new_cpu, mallocs>>
      /\ UNCHANGED <<rec, reading, lost>>
  BY DEF FreeOldProcs
<1> USE DEF system, arrays, pool, reading, Stopped, Reads
<1>2. proc = NULL /\ Hand = {} /\ Hand' = {}
  BY <1>1, Parts DEF PlaceInv, InHand, Hand
<1>3. PICK n \in 0..Len(old_procs) : Occupied(old_procs) = 1..n
  BY Parts DEF ArrayInv
<1>4. /\ old_procs \in Seq(Recs \cup {NULL}) /\ free_procs \in Seq(Recs) /\ n \in Nat
      /\ Distinct(old_procs) /\ Distinct(free_procs)
      /\ Listed = Held(free_procs) /\ Occupied(free_procs) = 1..Len(free_procs)
  BY <1>3, ListedHeld, Parts DEF TypeOK, ArrayInv, Listed
<1>5. /\ Apart(Listed, Held(old_procs), Sampled, {}, lost)
      /\ Listed \cup Held(old_procs) \cup Sampled \cup lost = 1..mallocs
      /\ num_free_procs = Len(free_procs) /\ num_used_procs = mallocs - Len(free_procs)
      /\ options.threads => lost = {}
  BY <1>1, <1>2, Parts DEF OwnInv
<1>6. /\ free_procs' \in Seq(Recs) /\ Len(free_procs') = Len(free_procs) + n
      /\ Held(free_procs') = Held(old_procs) \cup Listed /\ Distinct(free_procs')
      /\ Cardinality(Occupied(old_procs)) = n
  <2>1. Held(old_procs) \cap Held(free_procs) = {}
    BY <1>4, <1>5 DEF Apart
  <2> QED BY <1>1, <1>3, <1>4, <2>1, PushedLemma
<1>7. Listed' = Held(old_procs) \cup Listed
  <2>1. {free_procs'[i] : i \in DOMAIN free_procs'} = Held(free_procs')
    BY <1>6, ListedHeld
  <2> QED BY <1>6, <2>1 DEF Listed
<1>8. Held(old_procs)' = {} /\ Held(new_procs)' = Held(new_procs) /\ Sampled' = Sampled
      /\ InTime' = {} /\ Occupied(old_procs)' = {}
  BY <1>1 DEF Held, Occupied, Sampled, InTime, Timed
\* The old records are among those in use.
<1>9. Len(free_procs) + n <= mallocs
  <2>1. IsFiniteSet(Listed) /\ Cardinality(Listed) = Len(free_procs) /\ Len(free_procs) \in Nat
    BY <1>4, HeldCount
  <2>2. IsFiniteSet(Held(old_procs)) /\ Cardinality(Held(old_procs)) = n
    BY <1>3, <1>4, HeldCount
  <2>3. Listed \cap Held(old_procs) = {}
    BY <1>5 DEF Apart
  <2>4. Cardinality(Listed \cup Held(old_procs)) = Len(free_procs) + n
    <3>1. Cardinality(Listed \cup Held(old_procs))
             = Cardinality(Listed) + Cardinality(Held(old_procs))
               - Cardinality(Listed \cap Held(old_procs))
      BY <2>1, <2>2, FS_Union
    <3>2. Cardinality(Listed \cap Held(old_procs)) = 0
      BY <2>3, FS_EmptySet
    <3> QED BY <1>4, <2>1, <2>2, <3>1, <3>2
  <2>5. mallocs \in Nat
    BY Parts, BoundsAssumption DEF TypeOK, BoundsAssumption
  <2>6. IsFiniteSet(1..mallocs) /\ Cardinality(1..mallocs) = mallocs
    BY <2>5, FS_Interval
  <2>7. Listed \cup Held(old_procs) \in SUBSET (1..mallocs)
    BY <1>5
  <2> QED BY <2>4, <2>6, <2>7, FS_Subset
<1>10. num_used_procs' \in Nat /\ num_free_procs' \in Nat
       /\ num_free_procs' = Len(free_procs') /\ num_used_procs' = mallocs - Len(free_procs')
  <2>1. mallocs \in Nat /\ Len(free_procs) \in Nat
    BY <1>4, Parts, BoundsAssumption DEF TypeOK, BoundsAssumption
  <2> QED BY <1>1, <1>4, <1>5, <1>6, <1>9, <2>1
<1>11. TypeOK' /\ ClockInv'
  <2>1. old_procs' \in Seq(Recs \cup {NULL})
    BY <1>1
  <2>2. TypeOK'
    BY <1>1, <1>6, <1>10, <2>1, Parts DEF TypeOK
  <2> QED BY <1>1, <2>2, Parts DEF ClockInv
<1>12. PlaceInv'
  BY <1>1, <1>2, Parts DEF PlaceInv, InHand
<1>13. ArrayInv'
  <2>1. Occupied(old_procs)' = 1..0 /\ 0 \in 0..Len(old_procs')
    BY <1>1, <1>8
  <2>2. Distinct(free_procs)' /\ Distinct(old_procs)'
    BY <1>6, <1>8 DEF Distinct, Occupied
  <2> QED BY <1>1, <2>1, <2>2, Parts DEF ArrayInv, Occupied, Distinct
<1>14. OwnInv'
  BY <1>1, <1>2, <1>5, <1>7, <1>8, <1>10 DEF OwnInv, Apart
<1>15. CpuInv' /\ SortInv'
  BY <1>1 DEF CpuInv, DivideNeedsNoDelay, SortInv
<1>16. FilesInv'
  BY <1>1, <1>8, FilesKept, Parts DEF FilesInv
<1>17. TimeInv'
  <2>1. ASSUME NEW r \in Sampled PROVE InOrder(r)' /\ rec'[r].task \in Tasks
    BY <1>1, <1>2, <1>8, Parts DEF TimeInv, InOrder, Lasting
  <2> QED BY <1>8, <2>1 DEF TimeInv
<1> QED BY <1>11, <1>12, <1>13, <1>14, <1>15, <1>16, <1>17 DEF IInv

\* What holds of the arrays holds after a step of read_procs that leaves them alone.
LEMMA ArraysKept ==
    ASSUME IInv, pc \in Reads \cup {"readdir"}, pc' \in Reads \cup {"readdir", "loop", "print", "died"},
           UNCHANGED <<system, options, old_procs, old_cpu, new_cpu>>
    PROVE  /\ Held(old_procs)' = Held(old_procs) /\ Sampled = Held(new_procs)
           /\ Sampled' = Held(new_procs)'
           /\ ClockInv' /\ SortInv' /\ CpuInv'
           /\ UNCHANGED <<new_procs, proc_num, free_procs>> => ArrayInv'
           /\ UNCHANGED <<new_procs, proc_num>> =>
                /\ Held(new_procs)' = Held(new_procs)
                /\ Distinct(free_procs)' => ArrayInv'
<1> USE DEF system, Reads
<1>1. /\ Held(old_procs)' = Held(old_procs) /\ Sampled = Held(new_procs)
      /\ Sampled' = Held(new_procs)'
  BY DEF Held, Occupied, Sampled
<1>2. ClockInv' /\ SortInv' /\ CpuInv'
  <2>1. ClockInv'
    BY Parts DEF ClockInv
  <2>2. SortInv'
    BY DEF SortInv
  <2>3. CpuInv'
    BY Parts DEF CpuInv, DivideNeedsNoDelay
  <2> QED BY <2>1, <2>2, <2>3
<1>3. ASSUME UNCHANGED <<new_procs, proc_num>>
      PROVE  Held(new_procs)' = Held(new_procs) /\ (Distinct(free_procs)' => ArrayInv')
  BY <1>3, Parts DEF ArrayInv, Held, Occupied, Distinct
<1>4. ASSUME UNCHANGED <<new_procs, proc_num, free_procs>> PROVE ArrayInv'
  <2>1. Distinct(free_procs)'
    BY <1>4, Parts DEF ArrayInv, Distinct, Occupied
  <2> QED BY <1>3, <1>4, <2>1
<1> QED BY <1>1, <1>2, <1>3, <1>4

\* readdir of /proc gives the number of a process that is there ...
LEMMA NextProcess ==
    ASSUME TypeOK, {t[1] : t \in {u \in alive : u[1] > dir.pid}} # {}
    PROVE  LET p == Min({t[1] : t \in {u \in alive : u[1] > dir.pid}})
           IN  p \in Nat /\ Leader(p) \in Tasks
<1> DEFINE next == {t[1] : t \in {u \in alive : u[1] > dir.pid}}
           p == Min(next)
<1>1. next \subseteq Nat
  BY TaskPair DEF TypeOK
<1>2. p \in next
  BY <1>1, MinLemma
<1> HIDE DEF p
<1>3. PICK t \in alive : p = t[1]
  BY <1>2
<1>4. p \in Nat /\ Leader(p) \in Tasks
  BY <1>1, <1>2, <1>3, TaskPair DEF TypeOK
<1> QED BY <1>4 DEF p

\* ... and the same for the threads of the process.
LEMMA NextThread ==
    ASSUME TypeOK, {t[2] : t \in {u \in alive : u[1] = dir.pid /\ u[2] > dir.tid}} # {}
    PROVE  LET m == Min({t[2] : t \in {u \in alive : u[1] = dir.pid /\ u[2] > dir.tid}})
           IN  m \in Nat /\ <<dir.pid, m>> \in Tasks
<1> DEFINE next == {t[2] : t \in {u \in alive : u[1] = dir.pid /\ u[2] > dir.tid}}
           m == Min(next)
<1>1. next \subseteq Nat
  BY TaskPair DEF TypeOK
<1>2. m \in next
  BY <1>1, MinLemma
<1> HIDE DEF m
<1>3. PICK u \in alive : u[1] = dir.pid /\ u[2] = m
  BY <1>2
<1>4. u \in Tasks
  BY DEF TypeOK
<1>5. u = <<u[1], u[2]>>
  BY <1>4, TaskPair
<1>6. m \in Nat /\ <<dir.pid, m>> \in Tasks
  BY <1>1, <1>2, <1>3, <1>4, <1>5
<1> QED BY <1>6 DEF m

\* The next process: its record, or its files for its threads.
LEMMA ReaddirInv == IInv /\ Readdir => IInv'
<1> SUFFICES ASSUME IInv, Readdir PROVE IInv'
  OBVIOUS
<1> USE DEF system, arrays, pool, reading, Stopped, Reads
<1> DEFINE next == {t[1] : t \in {u \in alive : u[1] > dir.pid}}
<1>1. /\ pc = "readdir" /\ UNCHANGED <<system, options, iterations, arrays, cur_proc, lost>>
      /\ IF next = {}
         THEN /\ pc' = IF old_procs = <<>> THEN "loop" ELSE "print"
              /\ UNCHANGED <<pool, rec, proc, dir>>
         ELSE /\ dir' = [pid |-> Min(next), tid |-> 0]
              /\ IF options.threads THEN pc' = "cmdline" /\ UNCHANGED <<pool, rec, proc>>
                 ELSE alloc_proc(Leader(Min(next)), "stat")
  BY DEF Readdir
<1>2. proc = NULL /\ new_procs # <<>> /\ Hand = {}
  BY <1>1, Parts DEF PlaceInv, InHand, Hand
<1>3. \A r \in Held(new_procs) : r \in Recs /\ r # proc
  BY <1>2, Parts
<1>4. CASE next = {}
  <2>1. /\ pc' = (IF old_procs = <<>> THEN "loop" ELSE "print")
        /\ UNCHANGED <<pool, rec, proc, dir>> /\ pc' \in {"loop", "print"}
    BY <1>1, <1>4
  <2>2. /\ Held(old_procs)' = Held(old_procs) /\ Sampled = Held(new_procs) /\ Sampled' = Sampled
        /\ ClockInv' /\ SortInv' /\ CpuInv' /\ ArrayInv'
        /\ Held(new_procs)' = Held(new_procs)
    BY <1>1, <2>1, ArraysKept
  <2>3. TypeOK'
    BY <1>1, <2>1, Parts DEF TypeOK
  <2>4. PlaceInv'
    BY <1>1, <1>2, <2>1, Parts DEF PlaceInv, InHand
  <2>5. OwnInv'
    <3>1. Listed' = Listed /\ Hand' = Hand
      BY <2>1 DEF Listed, Hand
    <3> QED BY <1>1, <2>1, <2>2, <3>1, Parts DEF OwnInv, Apart
  <2>6. FilesInv'
    BY <1>1, <2>1, <2>2, FilesKept, Parts DEF FilesInv
  <2>7. TimeInv'
    <3>1. InTime' = {}
      BY <2>1 DEF InTime, Timed
    <3> QED BY <1>1, <2>1, <2>2, <3>1, TimeKept, Parts
  <2> QED BY <2>2, <2>3, <2>4, <2>5, <2>6, <2>7 DEF IInv
<1>5. CASE next # {}
  <2> DEFINE p == Min(next)
  <2>1. p \in Nat /\ Leader(p) \in Tasks
    BY <1>5, NextProcess, Parts
  <2> HIDE DEF p
  <2>2. /\ dir' = [pid |-> p, tid |-> 0]
        /\ IF options.threads THEN pc' = "cmdline" /\ UNCHANGED <<pool, rec, proc>>
           ELSE alloc_proc(Leader(p), "stat")
    BY <1>1, <1>5 DEF p
  <2>3. dir' \in [pid : Nat, tid : Nat] /\ dir'.pid = p
    BY <2>1, <2>2
  <2>4. CASE options.threads
    <3>1. pc' = "cmdline" /\ UNCHANGED <<pool, rec, proc>>
      BY <2>2, <2>4
    <3>2. /\ Held(old_procs)' = Held(old_procs) /\ Sampled = Held(new_procs) /\ Sampled' = Sampled
          /\ ClockInv' /\ SortInv' /\ CpuInv' /\ ArrayInv'
          /\ Held(new_procs)' = Held(new_procs)
      BY <1>1, <3>1, ArraysKept
    <3>3. TypeOK'
      BY <1>1, <2>3, <3>1, Parts DEF TypeOK
    <3>4. PlaceInv'
      BY <1>1, <1>2, <2>1, <2>3, <2>4, <3>1 DEF PlaceInv, InHand
    <3>5. OwnInv'
      <4>1. Listed' = Listed /\ Hand' = Hand
        BY <3>1 DEF Listed, Hand
      <4> QED BY <1>1, <3>1, <3>2, <4>1, Parts DEF OwnInv, Apart
    <3>6. FilesInv'
      <4>1. \A r \in Held(new_procs)' : OwnFiles(r)'
        BY <1>1, <3>1, <3>2, FilesKept, Parts
      <4> QED BY <1>1, <2>4, <3>1, <4>1 DEF FilesInv
    <3>7. TimeInv'
      <4>1. InTime' = {}
        BY <1>2, <3>1 DEF InTime, Hand
      <4> QED BY <1>1, <3>1, <3>2, <4>1, TimeKept, Parts
    <3> QED BY <3>2, <3>3, <3>4, <3>5, <3>6, <3>7 DEF IInv
  <2>5. CASE ~options.threads /\ Dies
    <3> USE DEF Dies
    <3>1. ClockInv' /\ SortInv' /\ CpuInv' /\ ArrayInv' /\ Held(new_procs)' = Held(new_procs)
      BY <1>1, <2>5, ArraysKept
    <3>2. TypeOK'
      BY <1>1, <2>3, <2>5, Parts DEF TypeOK
    <3>3. PlaceInv' /\ OwnInv'
      BY <2>5 DEF PlaceInv, InHand, OwnInv
    <3>4. FilesInv'
      BY <1>1, <2>5, <3>1, FilesKept, Parts DEF FilesInv
    <3> QED BY <2>5, <3>1, <3>2, <3>3, <3>4 DEF IInv
  <2>6. CASE ~options.threads /\ Allocated(Leader(p), "stat")
    <3> USE DEF Allocated
    <3>1. /\ Held(old_procs)' = Held(old_procs) /\ Sampled = Held(new_procs) /\ Sampled' = Sampled
          /\ ClockInv' /\ SortInv' /\ CpuInv' /\ ArrayInv'
          /\ Held(new_procs)' = Held(new_procs)
      <4>1. Distinct(free_procs)'
        BY <2>6 DEF Distinct, Occupied
      <4> QED BY <1>1, <2>6, <4>1, ArraysKept
    <3>2. TypeOK'
      BY <1>1, <2>3, <2>6, Parts DEF TypeOK
    <3>3. PlaceInv'
      BY <1>1, <1>2, <2>1, <2>3, <2>6 DEF PlaceInv, InHand
    <3>4. OwnInv'
      <4>1. Hand' = {proc'}
        BY <2>6, Parts DEF Hand
      <4> QED BY <1>1, <2>6, <3>1, <4>1 DEF OwnInv
    <3>5. \A r \in Held(old_procs) \cup Sampled : rec'[r] = rec[r] /\ r # proc
      BY <1>1, <1>2, <2>6, Parts DEF Apart
    <3>6. FilesInv'
      <4>1. \A r \in Held(new_procs)' : OwnFiles(r)'
        BY <1>1, <3>1, <3>5, FilesKept, Parts
      <4> QED BY <1>1, <2>6, <4>1 DEF FilesInv
    <3>7. TimeInv'
      <4>1. InTime' = {}
        BY <2>6 DEF InTime, Timed
      <4> QED BY <1>1, <3>1, <3>5, <4>1, TimeKept, Parts
    <3> QED BY <3>1, <3>2, <3>3, <3>4, <3>6, <3>7 DEF IInv
  <2>7. CASE ~options.threads
    <3>1. Dies \/ Allocated(Leader(p), "stat")
      <4>1. alloc_proc(Leader(p), "stat")
        BY <2>2, <2>7
      <4> QED BY <1>1, <1>2, <2>1, <4>1, AllocLemma, Parts
    <3> QED BY <2>5, <2>6, <2>7, <3>1
  <2> QED BY <2>4, <2>7
<1> QED BY <1>4, <1>5

\* What is in hand, when it is written, stays in one place.
LEMMA HandKept ==
    ASSUME IInv, pc \in Reads, pc' \in Reads, UNCHANGED <<system, options, arrays, pool, proc, lost>>,
           \A r \in Recs \ {proc} : rec'[r] = rec[r]
    PROVE  /\ ClockInv' /\ SortInv' /\ CpuInv' /\ ArrayInv' /\ OwnInv'
           /\ \A r \in Held(new_procs)' : OwnFiles(r)'
           /\ (\A r \in InTime' : InOrder(r)') => TimeInv'
<1> USE DEF system, arrays, pool, Reads, Stopped
<1>1. /\ Held(old_procs)' = Held(old_procs) /\ Sampled = Held(new_procs) /\ Sampled' = Sampled
      /\ ClockInv' /\ SortInv' /\ CpuInv' /\ ArrayInv'
      /\ Held(new_procs)' = Held(new_procs)
  BY ArraysKept
<1>2. OwnInv'
  <2>1. Listed' = Listed /\ Hand' = Hand
    BY DEF Listed, Hand
  <2> QED BY <1>1, <2>1, Parts DEF OwnInv, Apart
<1>3. \A r \in Held(old_procs) \cup Sampled : rec'[r] = rec[r] /\ r # proc
  BY Parts
<1>4. \A r \in Held(new_procs)' : OwnFiles(r)'
  BY <1>1, <1>3, FilesKept, Parts
<1>5. ASSUME \A r \in InTime' : InOrder(r)' PROVE TimeInv'
  BY <1>1, <1>3, <1>5, TimeKept, Parts
<1> QED BY <1>1, <1>2, <1>4, <1>5

\* A time that is read now, of a task that has been there all the time, is not before
\* the one of the last sample.
LEMMA FreshTime ==
    ASSUME IInv, pc \in Reads, UNCHANGED <<system, options, old_procs>>,
           NEW t \in Tasks, NEW p \in Recs, p = proc, rec'[p].task = t,
           t \in alive => rec'[p].time = time[t], Lasting(p)' => t \in alive,
           \A r \in Recs \ {p} : rec'[r] = rec[r]
    PROVE  InOrder(p)'
<1> USE DEF system, Stopped, Reads
<1> SUFFICES ASSUME Lasting(p)'
             PROVE  /\ rec'[p].time <= time[t]
                    /\ \A o \in Held(old_procs) : rec'[o].task = t => rec'[o].time <= rec'[p].time
  BY DEF InOrder, Held, Occupied
<1>1. start[t] = 0 /\ t \in alive
  BY DEF Lasting
<1>2. rec'[p].time = time[t] /\ time[t] \in Nat
  BY <1>1, Parts, BoundsAssumption DEF TypeOK, BoundsAssumption
<1>3. ASSUME NEW o \in Held(old_procs), rec'[o].task = t PROVE rec'[o].time <= time[t]
  <2>1. o # proc /\ o \in Recs /\ rec'[o] = rec[o]
    BY Parts
  <2>2. Lasting(o)
    BY <1>1, <1>3, <2>1 DEF Lasting
  <2> QED BY <1>3, <2>1, <2>2, Parts DEF TimeInv
<1> QED BY <1>2, <1>3

\* The time in hand stays in order as the other fields are read.
LEMMA TimeInHand ==
    ASSUME IInv, pc \in Timed, pc' \in Timed, UNCHANGED <<system, options, old_procs, proc>>,
           ~options.threads => rec'[proc].task = rec[proc].task /\ rec'[proc].time = rec[proc].time,
           pc' = "tasks" /\ ~options.threads => pc = "tasks" \/ rec[proc].task \in alive,
           \A r \in Recs \ {proc} : rec'[r] = rec[r]
    PROVE  \A r \in InTime' : InOrder(r)'
<1> USE DEF system, Stopped, Reads, Timed
<1> SUFFICES ASSUME NEW r \in InTime' PROVE InOrder(r)'
  OBVIOUS
<1>1. r = proc /\ r \in InTime /\ proc # NULL
  BY DEF InTime, Hand
<1>2. ~options.threads
  BY <1>1, Parts DEF PlaceInv, InHand
<1>3. InOrder(r)
  BY <1>1, Parts DEF TimeInv
<1>4. Lasting(r)' => Lasting(r)
  BY <1>1, <1>2 DEF Lasting
<1>5. Held(old_procs)' = Held(old_procs) /\ \A o \in Held(old_procs) : rec'[o] = rec[o]
  BY Parts DEF Held, Occupied
<1> QED BY <1>1, <1>2, <1>3, <1>4, <1>5 DEF InOrder

\* The times of a process: of the task that is there, or what the record held before.
LEMMA ReadStatInv == IInv /\ ReadStat => IInv'
<1> SUFFICES ASSUME IInv, ReadStat PROVE IInv'
  OBVIOUS
<1> USE DEF system, arrays, pool, reading, Stopped, Reads
<1>1. /\ pc = "stat" /\ pc' = "cmdline"
      /\ UNCHANGED <<system, options, iterations, arrays, pool, reading, lost>>
  BY DEF ReadStat
<1>2. PICK t \in Tasks : t = Leader(dir.pid)
  BY <1>1, Parts DEF PlaceInv
<1>3. /\ ~options.threads /\ proc \in Recs /\ rec[proc].task = t
      /\ new_procs # <<>> /\ rec \in [Recs -> Record]
  BY <1>1, <1>2, Parts DEF PlaceInv, InHand, TypeOK
<1>4. PICK x \in read_stat(t, rec[proc]) : rec' = [rec EXCEPT ![proc] = x]
  BY <1>3 DEF ReadStat
<1>5. /\ x \in Record /\ x.task = t /\ (t \in alive => x.stat = This(t) /\ x.time = time[t])
  BY <1>2, <1>3, <1>4, StatLemma, Parts
<1>6. rec' \in [Recs -> Record] /\ rec'[proc] = x /\ \A r \in Recs \ {proc} : rec'[r] = rec[r]
  BY <1>2, <1>3, <1>4, <1>5
<1>7. TypeOK'
  BY <1>1, <1>6, Parts DEF TypeOK
<1>8. PlaceInv'
  BY <1>1, <1>2, <1>3, <1>5, <1>6 DEF PlaceInv, InHand
<1>9. FilesInv'
  <2>1. Sure(t)' => rec'[proc].stat = First(t)
    BY <1>1, <1>5, <1>6 DEF Sure, This, First
  <2>2. \A r \in Held(new_procs)' : OwnFiles(r)'
    BY <1>1, <1>6, HandKept
  <2> QED BY <1>1, <1>2, <1>3, <2>1, <2>2 DEF FilesInv
<1>10. TimeInv'
  <2>1. ASSUME NEW r \in InTime' PROVE InOrder(r)'
    <3>1. r = proc
      BY <1>1, <2>1 DEF InTime, Hand
    <3>2. Lasting(r)' => t \in alive
      BY <1>1, <1>3, <1>5, <1>6, <3>1 DEF Lasting
    <3> QED BY <1>1, <1>3, <1>5, <1>6, <3>1, <3>2, FreshTime
  <2> QED BY <1>1, <1>6, <2>1, HandKept
<1> QED BY <1>1, <1>6, <1>7, <1>8, <1>9, <1>10, HandKept DEF IInv

\* The name of a process, into its record or for its threads.
LEMMA ReadCmdlineInv == IInv /\ ReadCmdline => IInv'
<1> SUFFICES ASSUME IInv, ReadCmdline PROVE IInv'
  OBVIOUS
<1> USE DEF system, arrays, pool, reading, Stopped, Reads
<1>1. /\ pc = "cmdline" /\ pc' = "status"
      /\ UNCHANGED <<system, options, iterations, arrays, pool, proc, dir, lost>>
  BY DEF ReadCmdline, ReadFile
<1>2. PICK t \in Tasks : t = Leader(dir.pid)
  BY <1>1, Parts DEF PlaceInv
<1>3. /\ IF t \notin alive THEN UNCHANGED <<rec, cur_proc>>
         ELSE IF options.threads
         THEN cur_proc' = [cur_proc EXCEPT !.name = This(t)] /\ UNCHANGED rec
         ELSE rec' = [rec EXCEPT ![proc].name = This(t)] /\ UNCHANGED cur_proc
  BY <1>2 DEF ReadCmdline, ReadFile
<1>4. ~options.threads => proc \in Recs /\ rec[proc].task = t
  BY <1>1, <1>2, Parts DEF PlaceInv, InHand
<1>5. rec \in [Recs -> Record] /\ cur_proc \in [name : Origin, uid : Origin] /\ This(t) \in Origin
  BY TaskValues, Parts DEF TypeOK
<1>6. /\ rec' \in [Recs -> Record] /\ cur_proc' \in [name : Origin, uid : Origin]
      /\ \A r \in Recs \ {proc} : rec'[r] = rec[r]
      /\ options.threads /\ t \in alive => cur_proc'.name = This(t)
      /\ ~options.threads =>
           /\ rec'[proc].task = t /\ rec'[proc].time = rec[proc].time /\ rec'[proc].stat = rec[proc].stat
           /\ t \in alive => rec'[proc].name = This(t)
  <2>1. CASE t \notin alive
    BY <1>3, <1>4, <1>5, <2>1
  <2>2. CASE t \in alive /\ options.threads
    BY <1>3, <1>5, <2>2
  <2>3. CASE t \in alive /\ ~options.threads
    <3> DEFINE x == [rec[proc] EXCEPT !.name = This(t)]
    <3>1. proc \in Recs /\ rec' = [rec EXCEPT ![proc] = x] /\ cur_proc' = cur_proc
      BY <1>3, <1>4, <2>3
    <3>2. /\ x \in Record /\ x.task = t /\ x.time = rec[proc].time /\ x.stat = rec[proc].stat
          /\ x.name = This(t)
      BY <1>4, <1>5, <2>3, <3>1 DEF Record
    <3> HIDE DEF x
    <3> QED BY <1>5, <2>3, <3>1, <3>2
  <2> QED BY <2>1, <2>2, <2>3
<1>7. TypeOK'
  BY <1>1, <1>6, Parts DEF TypeOK
<1>8. PlaceInv'
  BY <1>1, <1>2, <1>4, <1>6, Parts DEF PlaceInv, InHand
<1>9. FilesInv'
  <2>1. \A r \in Held(new_procs)' : OwnFiles(r)'
    BY <1>1, <1>6, HandKept
  <2>2. ASSUME Sure(t)'
        PROVE  IF options.threads THEN cur_proc'.name = First(t)
               ELSE rec'[proc].stat = First(t) /\ rec'[proc].name = First(t)
    <3>1. Sure(t) /\ t \in alive /\ This(t) = First(t)
      BY <1>1, <2>2 DEF Sure, This, First
    <3> QED BY <1>1, <1>2, <1>6, <3>1, Parts DEF FilesInv
  <2> QED BY <1>1, <1>2, <2>1, <2>2 DEF FilesInv
<1>10. TimeInv'
  BY <1>1, <1>4, <1>6, TimeInHand, HandKept DEF Timed
<1> QED BY <1>1, <1>6, <1>7, <1>8, <1>9, <1>10, HandKept DEF IInv

\* The user of a process, in the same way.
LEMMA ReadStatusInv == IInv /\ ReadStatus => IInv'
<1> SUFFICES ASSUME IInv, ReadStatus PROVE IInv'
  OBVIOUS
<1> USE DEF system, arrays, pool, reading, Stopped, Reads
<1>1. /\ pc = "status" /\ pc' = "task"
      /\ UNCHANGED <<system, options, iterations, arrays, pool, proc, dir, lost>>
  BY DEF ReadStatus, ReadFile
<1>2. PICK t \in Tasks : t = Leader(dir.pid)
  BY <1>1, Parts DEF PlaceInv
<1>3. /\ IF t \notin alive THEN UNCHANGED <<rec, cur_proc>>
         ELSE IF options.threads
         THEN cur_proc' = [cur_proc EXCEPT !.uid = This(t)] /\ UNCHANGED rec
         ELSE rec' = [rec EXCEPT ![proc].uid = This(t)] /\ UNCHANGED cur_proc
  BY <1>2 DEF ReadStatus, ReadFile
<1>4. ~options.threads => proc \in Recs /\ rec[proc].task = t
  BY <1>1, <1>2, Parts DEF PlaceInv, InHand
<1>5. rec \in [Recs -> Record] /\ cur_proc \in [name : Origin, uid : Origin] /\ This(t) \in Origin
  BY TaskValues, Parts DEF TypeOK
<1>6. /\ rec' \in [Recs -> Record] /\ cur_proc' \in [name : Origin, uid : Origin]
      /\ \A r \in Recs \ {proc} : rec'[r] = rec[r]
      /\ options.threads => cur_proc'.name = cur_proc.name /\ (t \in alive => cur_proc'.uid = This(t))
      /\ ~options.threads =>
           /\ rec'[proc].task = t /\ rec'[proc].time = rec[proc].time /\ rec'[proc].stat = rec[proc].stat
           /\ rec'[proc].name = rec[proc].name
           /\ t \in alive => rec'[proc].uid = This(t)
  <2>1. CASE t \notin alive
    BY <1>3, <1>4, <1>5, <2>1
  <2>2. CASE t \in alive /\ options.threads
    BY <1>3, <1>5, <2>2
  <2>3. CASE t \in alive /\ ~options.threads
    <3> DEFINE x == [rec[proc] EXCEPT !.uid = This(t)]
    <3>1. proc \in Recs /\ rec' = [rec EXCEPT ![proc] = x] /\ cur_proc' = cur_proc
      BY <1>3, <1>4, <2>3
    <3>2. /\ x \in Record /\ x.task = t /\ x.time = rec[proc].time /\ x.stat = rec[proc].stat
          /\ x.uid = This(t) /\ x.name = rec[proc].name
      BY <1>4, <1>5, <2>3, <3>1 DEF Record
    <3> HIDE DEF x
    <3> QED BY <1>5, <2>3, <3>1, <3>2
  <2> QED BY <2>1, <2>2, <2>3
<1>7. TypeOK'
  BY <1>1, <1>6, Parts DEF TypeOK
<1>8. PlaceInv'
  BY <1>1, <1>2, <1>4, <1>6, Parts DEF PlaceInv, InHand
<1>9. FilesInv'
  <2>1. \A r \in Held(new_procs)' : OwnFiles(r)'
    BY <1>1, <1>6, HandKept
  <2>2. ASSUME Sure(t)'
        PROVE  IF options.threads THEN cur_proc'.name = First(t) /\ cur_proc'.uid = First(t)
               ELSE /\ rec'[proc].stat = First(t) /\ rec'[proc].name = First(t)
                    /\ rec'[proc].uid = First(t)
    <3>1. Sure(t) /\ t \in alive /\ This(t) = First(t)
      BY <1>1, <2>2 DEF Sure, This, First
    <3> QED BY <1>1, <1>2, <1>6, <3>1, Parts DEF FilesInv
  <2> QED BY <1>1, <1>2, <2>1, <2>2 DEF FilesInv
<1>10. TimeInv'
  BY <1>1, <1>4, <1>6, TimeInHand, HandKept DEF Timed
<1> QED BY <1>1, <1>6, <1>7, <1>8, <1>9, <1>10, HandKept DEF IInv

\* The task directory: with it the process is still the one whose files were read, and
\* without it its record is lost.
LEMMA OpenTaskInv == IInv /\ OpenTask => IInv'
<1> SUFFICES ASSUME IInv, OpenTask PROVE IInv'
  OBVIOUS
<1> USE DEF system, arrays, pool, reading, Stopped, Reads
<1>1. pc = "task" /\ UNCHANGED <<system, options, iterations, arrays, pool, cur_proc, dir>>
  BY DEF OpenTask
<1>2. PICK t \in Tasks : t = Leader(dir.pid)
  BY <1>1, Parts DEF PlaceInv
<1>3. IF t \in alive
      THEN /\ pc' = "tasks" /\ UNCHANGED <<proc, lost>>
           /\ rec' = IF options.threads THEN rec ELSE [rec EXCEPT ![proc].num_threads = 0]
      ELSE /\ pc' = "readdir" /\ proc' = NULL
           /\ lost' = lost \cup ({proc} \ {NULL})
           /\ rec' = IF options.threads THEN rec ELSE [rec EXCEPT ![proc] = Blank]
  BY <1>2 DEF OpenTask
<1>4. /\ new_procs # <<>> /\ rec \in [Recs -> Record]
      /\ IF options.threads THEN proc = NULL ELSE proc \in Recs /\ rec[proc].task = t
  BY <1>1, <1>2, Parts DEF PlaceInv, InHand, TypeOK
<1>5. CASE t \in alive
  <2>1. /\ rec' \in [Recs -> Record] /\ \A r \in Recs \ {proc} : rec'[r] = rec[r]
        /\ ~options.threads =>
             /\ rec'[proc].task = t /\ rec'[proc].time = rec[proc].time /\ rec'[proc].stat = rec[proc].stat
             /\ rec'[proc].name = rec[proc].name /\ rec'[proc].uid = rec[proc].uid
    <3>1. CASE options.threads
      BY <1>3, <1>4, <1>5, <3>1
    <3>2. CASE ~options.threads
      <4> DEFINE x == [rec[proc] EXCEPT !.num_threads = 0]
      <4>1. proc \in Recs /\ rec' = [rec EXCEPT ![proc] = x]
        BY <1>3, <1>4, <1>5, <3>2
      <4>2. /\ x \in Record /\ x.task = t /\ x.time = rec[proc].time /\ x.stat = rec[proc].stat
            /\ x.name = rec[proc].name /\ x.uid = rec[proc].uid
        BY <1>4, <3>2 DEF Record
      <4> HIDE DEF x
      <4> QED BY <1>4, <4>1, <4>2
    <3> QED BY <3>1, <3>2
  <2>2. TypeOK'
    BY <1>1, <1>3, <1>5, <2>1, Parts DEF TypeOK
  <2>3. PlaceInv'
    BY <1>1, <1>2, <1>3, <1>4, <1>5, <2>1 DEF PlaceInv, InHand
  <2>4. FilesInv'
    <3>1. \A r \in Held(new_procs)' : OwnFiles(r)'
      BY <1>1, <1>3, <1>5, <2>1, HandKept
    <3>2. ASSUME Sure(t)'
          PROVE  IF options.threads THEN cur_proc'.name = First(t) /\ cur_proc'.uid = First(t)
                 ELSE /\ rec'[proc].stat = First(t) /\ rec'[proc].name = First(t)
                      /\ rec'[proc].uid = First(t)
      <4>1. Sure(t)
        BY <1>1, <1>5, <3>2 DEF Sure
      <4> QED BY <1>1, <1>2, <2>1, <4>1, Parts DEF FilesInv
    <3> QED BY <1>1, <1>2, <1>3, <1>5, <3>1, <3>2 DEF FilesInv
  <2>5. TimeInv'
    BY <1>1, <1>3, <1>4, <1>5, <2>1, TimeInHand, HandKept DEF Timed
  <2> QED BY <1>1, <1>3, <1>5, <2>1, <2>2, <2>3, <2>4, <2>5, HandKept DEF IInv
\* The record of a process that has ended is lost.
<1>6. CASE t \notin alive
  <2>1. /\ rec' \in [Recs -> Record] /\ \A r \in Recs \ {proc} : rec'[r] = rec[r]
        /\ pc' = "readdir" /\ proc' = NULL /\ lost' = lost \cup Hand /\ Hand \subseteq Recs
        /\ options.threads => Hand = {}
    <3>1. Blank \in Record
      <4>1. 0 \in 0..(Word - 1)
        BY BoundsAssumption DEF BoundsAssumption
      <4> QED BY <4>1 DEF Blank, Record, Origin
    <3>2. rec' = rec \/ (proc \in Recs /\ rec' = [rec EXCEPT ![proc] = Blank])
      BY <1>3, <1>4, <1>6
    <3>3. rec' \in [Recs -> Record] /\ \A r \in Recs \ {proc} : rec'[r] = rec[r]
      BY <1>4, <3>1, <3>2
    <3> QED BY <1>3, <1>4, <1>6, <3>3 DEF Hand
  <2>2. /\ Held(old_procs)' = Held(old_procs) /\ Sampled = Held(new_procs) /\ Sampled' = Sampled
        /\ ClockInv' /\ SortInv' /\ CpuInv' /\ ArrayInv'
        /\ Held(new_procs)' = Held(new_procs)
    BY <1>1, <2>1, ArraysKept
  <2>3. TypeOK'
    BY <1>1, <2>1, Parts DEF TypeOK
  <2>4. PlaceInv'
    BY <1>1, <1>4, <2>1 DEF PlaceInv, InHand
  <2>5. OwnInv'
    <3>1. Listed' = Listed /\ Hand' = {}
      BY <1>1, <2>1 DEF Listed, Hand
    <3> QED BY <1>1, <2>1, <2>2, <3>1, Parts DEF OwnInv, Apart
  <2>6. \A r \in Held(old_procs) \cup Sampled : rec'[r] = rec[r] /\ r # proc
    BY <1>1, <2>1, Parts
  <2>7. FilesInv'
    BY <1>1, <2>1, <2>2, <2>6, FilesKept, Parts DEF FilesInv
  <2>8. TimeInv'
    <3>1. InTime' = {}
      BY <2>1 DEF InTime, Timed
    <3> QED BY <1>1, <2>2, <2>6, <3>1, TimeKept, Parts
  <2> QED BY <2>2, <2>3, <2>4, <2>5, <2>7, <2>8 DEF IInv
<1> QED BY <1>5, <1>6

\* A record that is put into the array carries what is known of the one in hand.
LEMMA AddInv ==
    ASSUME IInv, pc \in {"tasks", "thread"}, NEW p \in Recs, p = proc,
           UNCHANGED <<system, options, iterations, old_procs, old_cpu, new_cpu, pool, cur_proc, dir, lost>>,
           rec' \in [Recs -> Record], \A r \in Recs \ {p} : rec'[r] = rec[r], rec'[p].task \in Tasks,
           NEW next \in {"readdir", "tasks"}, next = "tasks" => options.threads,
           add_proc(p, next), OwnFiles(p)', pc' # "died" => InOrder(p)'
    PROVE  IInv'
<1> USE DEF system, pool, Stopped, Reads
<1>1. new_procs # <<>> /\ p \notin Held(new_procs) /\ Leader(dir.pid) \in Tasks
  BY Parts DEF PlaceInv, Sampled
<1>2. \/ pc' = "died" /\ UNCHANGED <<new_procs, proc_num, proc>>
      \/ /\ pc' = next /\ proc' = NULL
         /\ new_procs' \in Seq(Recs \cup {NULL}) /\ new_procs' # <<>>
         /\ proc_num' = proc_num + 1 /\ proc_num' \in 0..Len(new_procs')
         /\ Held(new_procs') = Held(new_procs) \cup {p}
         /\ Occupied(new_procs') = 1..proc_num' /\ Distinct(new_procs')
  BY <1>1, AddLemma, Parts
<1>3. /\ Held(old_procs)' = Held(old_procs) /\ Sampled = Held(new_procs)
      /\ Sampled' = Held(new_procs)' /\ ClockInv' /\ SortInv' /\ CpuInv'
      /\ UNCHANGED <<new_procs, proc_num, free_procs>> => ArrayInv'
  BY <1>2, ArraysKept
<1>4. \A r \in Held(old_procs) \cup Sampled : rec'[r] = rec[r] /\ r # proc
  BY Parts
<1>5. CASE pc' = "died" /\ UNCHANGED <<new_procs, proc_num, proc>>
  <2>1. TypeOK'
    BY <1>5, Parts DEF TypeOK
  <2>2. PlaceInv' /\ OwnInv'
    BY <1>5 DEF PlaceInv, InHand, OwnInv
  <2>3. ArrayInv'
    BY <1>3, <1>5
  <2>4. Held(new_procs)' = Held(new_procs)
    BY <1>5 DEF Held, Occupied
  <2>5. FilesInv'
    BY <1>3, <1>4, <1>5, <2>4, FilesKept, Parts DEF FilesInv
  <2> QED BY <1>3, <1>5, <2>1, <2>2, <2>3, <2>5 DEF IInv
<1>6. CASE /\ pc' = next /\ proc' = NULL
           /\ new_procs' \in Seq(Recs \cup {NULL}) /\ new_procs' # <<>>
           /\ proc_num' = proc_num + 1 /\ proc_num' \in 0..Len(new_procs')
           /\ Held(new_procs') = Held(new_procs) \cup {p}
           /\ Occupied(new_procs') = 1..proc_num' /\ Distinct(new_procs')
  <2>1. Held(new_procs)' = Held(new_procs) \cup {p}
    BY <1>6 DEF Held, Occupied
  <2>2. TypeOK'
    BY <1>6, Parts DEF TypeOK
  <2>3. PlaceInv'
    BY <1>1, <1>6 DEF PlaceInv, InHand
  <2>4. ArrayInv'
    <3>1. Occupied(old_procs)' = Occupied(old_procs) /\ Distinct(old_procs)' /\ Distinct(free_procs)'
      BY Parts DEF ArrayInv, Occupied, Distinct
    <3>2. Occupied(new_procs)' = 1..proc_num' /\ Distinct(new_procs)'
      BY <1>6 DEF Occupied, Distinct
    <3> QED BY <3>1, <3>2, Parts DEF ArrayInv
  <2>5. OwnInv'
    <3>1. Listed' = Listed /\ Hand' = {} /\ Hand = {p} /\ Sampled' = Sampled \cup {p}
      BY <1>3, <1>6, <2>1, Parts DEF Listed, Hand
    <3> QED BY <1>3, <1>6, <3>1, Parts DEF OwnInv, Apart
  <2>6. FilesInv'
    <3>1. \A r \in Held(new_procs)' : OwnFiles(r)'
      BY <1>3, <1>4, <2>1, FilesKept, Parts
    <3>2. pc' = "tasks" => pc = "tasks" \/ pc = "thread"
      OBVIOUS
    <3>3. ASSUME pc' = "tasks", Sure(Leader(dir.pid))' PROVE Sure(Leader(dir.pid))
      BY <3>3 DEF Sure
    <3> QED BY <1>6, <3>1, <3>3, Parts DEF FilesInv
  <2>7. TimeInv'
    <3>1. InTime' = {}
      BY <1>6 DEF InTime, Hand
    <3> QED BY <1>3, <1>4, <1>6, <2>1, <3>1, TimeKept, Parts
  <2> QED BY <1>3, <2>2, <2>3, <2>4, <2>5, <2>6, <2>7 DEF IInv
<1> QED BY <1>2, <1>5, <1>6

\* One thread: its times, the name and the user of its process, and its place in the array.
LEMMA ReadThreadInv == IInv /\ ReadThread => IInv'
<1> SUFFICES ASSUME IInv, ReadThread PROVE IInv'
  OBVIOUS
<1> USE DEF system, arrays, pool, reading, Stopped, Reads
<1>1. /\ pc = "thread" /\ add_proc(proc, "tasks")
      /\ UNCHANGED <<system, options, iterations, old_procs, old_cpu, new_cpu, pool, cur_proc, dir, lost>>
  BY DEF ReadThread
<1>2. PICK t \in Tasks : t = <<dir.pid, dir.tid>>
  BY <1>1, Parts DEF PlaceInv
<1>3. PICK p \in Recs : p = proc
  BY <1>1, Parts DEF PlaceInv, InHand
<1>4. /\ options.threads /\ rec[p].task = t /\ rec \in [Recs -> Record]
      /\ cur_proc \in [name : Origin, uid : Origin]
  BY <1>1, <1>2, <1>3, Parts DEF PlaceInv, InHand, TypeOK
<1>5. PICK x \in read_stat(t, rec[p]) :
         rec' = [rec EXCEPT ![p] = [x EXCEPT !.name = cur_proc.name, !.uid = cur_proc.uid]]
  BY <1>3, <1>4 DEF ReadThread
<1>6. x \in Record /\ x.task = t /\ (t \in alive => x.time = time[t])
  BY <1>4, <1>5, StatLemma, Parts
<1> DEFINE y == [x EXCEPT !.name = cur_proc.name, !.uid = cur_proc.uid]
<1>7. /\ y \in Record /\ y.task = t /\ y.name = cur_proc.name /\ y.uid = cur_proc.uid
      /\ y.time = x.time
  BY <1>4, <1>6 DEF Record
<1> HIDE DEF y
<1>8. rec' \in [Recs -> Record] /\ rec'[p] = y /\ \A r \in Recs \ {p} : rec'[r] = rec[r]
  BY <1>4, <1>5, <1>7 DEF y
<1>9. OwnFiles(p)'
  <2>1. t[1] = dir.pid /\ Leader(dir.pid) \in Tasks
    BY <1>2, <1>1, Parts DEF PlaceInv
  <2>2. start[Leader(dir.pid)] = 0 =>
           cur_proc.name = First(Leader(dir.pid)) /\ cur_proc.uid = First(Leader(dir.pid))
    BY <1>1, <1>4, Parts DEF FilesInv, Sure
  <2> QED BY <1>1, <1>4, <1>7, <1>8, <2>1, <2>2 DEF OwnFiles
<1>10. InOrder(p)'
  <2>1. Lasting(p)' => t \in alive
    BY <1>1, <1>4, <1>7, <1>8 DEF Lasting
  <2> QED BY <1>1, <1>3, <1>6, <1>7, <1>8, <2>1, FreshTime
<1> QED BY <1>1, <1>3, <1>4, <1>7, <1>8, <1>9, <1>10, AddInv

\* The next thread: counted, or given a record of its own; after the last the process is added.
LEMMA ReadTasksInv == IInv /\ ReadTasks => IInv'
<1> SUFFICES ASSUME IInv, ReadTasks PROVE IInv'
  OBVIOUS
<1> USE DEF system, arrays, pool, reading, Stopped, Reads
<1> DEFINE next == {t[2] : t \in {u \in alive : u[1] = dir.pid /\ u[2] > dir.tid}}
<1>1. /\ pc = "tasks"
      /\ IF next = {}
         THEN /\ IF options.threads THEN pc' = "readdir" /\ UNCHANGED <<new_procs, proc_num, proc>>
                 ELSE add_proc(proc, "readdir")
              /\ UNCHANGED <<pool, rec, dir>>
         ELSE /\ dir' = [dir EXCEPT !.tid = Min(next)]
              /\ IF options.threads THEN alloc_proc(<<dir.pid, Min(next)>>, "thread")
                 ELSE /\ rec' = [rec EXCEPT ![proc].num_threads = @ + 1]
                      /\ UNCHANGED <<pc, pool, proc>>
              /\ UNCHANGED <<new_procs, proc_num>>
      /\ UNCHANGED <<system, options, iterations, old_procs, old_cpu, new_cpu, cur_proc, lost>>
  BY DEF ReadTasks
<1>2. PICK t \in Tasks : t = Leader(dir.pid)
  BY <1>1, Parts DEF PlaceInv
<1>3. /\ new_procs # <<>> /\ rec \in [Recs -> Record]
      /\ IF options.threads THEN proc = NULL ELSE proc \in Recs /\ rec[proc].task = t
  BY <1>1, <1>2, Parts DEF PlaceInv, InHand, TypeOK
<1>4. CASE next = {} /\ options.threads
  <2>1. pc' = "readdir" /\ UNCHANGED <<new_procs, proc_num, proc, pool, rec, dir>>
    BY <1>1, <1>4
  <2>2. /\ Held(old_procs)' = Held(old_procs) /\ Sampled = Held(new_procs) /\ Sampled' = Sampled
        /\ ClockInv' /\ SortInv' /\ CpuInv' /\ ArrayInv'
        /\ Held(new_procs)' = Held(new_procs)
    BY <1>1, <2>1, ArraysKept
  <2>3. TypeOK'
    BY <1>1, <2>1, Parts DEF TypeOK
  <2>4. PlaceInv'
    BY <1>1, <1>3, <1>4, <2>1 DEF PlaceInv, InHand
  <2>5. OwnInv'
    <3>1. Listed' = Listed /\ Hand' = Hand
      BY <2>1 DEF Listed, Hand
    <3> QED BY <1>1, <2>1, <2>2, <3>1, Parts DEF OwnInv, Apart
  <2>6. FilesInv'
    BY <1>1, <2>1, <2>2, FilesKept, Parts DEF FilesInv
  <2>7. TimeInv'
    <3>1. InTime' = {}
      BY <2>1 DEF InTime, Timed
    <3> QED BY <1>1, <1>3, <1>4, <2>1, <2>2, <3>1, TimeKept, Parts
  <2> QED BY <2>2, <2>3, <2>4, <2>5, <2>6, <2>7 DEF IInv
<1>5. CASE next = {} /\ ~options.threads
  <2>1. add_proc(proc, "readdir") /\ UNCHANGED <<pool, rec, dir>>
    BY <1>1, <1>5
  <2>2. PICK p \in Recs : p = proc
    BY <1>3, <1>5
  <2>3. OwnFiles(p)'
    <3>1. start[t] = 0 => /\ rec[p].stat = First(t) /\ rec[p].name = First(t)
                          /\ rec[p].uid = First(t)
      BY <1>1, <1>2, <1>5, <2>2, Parts DEF FilesInv, Sure
    <3>2. Leader(rec[p].task[1]) = t
      BY <1>2, <1>3, <1>5, <2>2 DEF Leader
    <3> QED BY <1>1, <1>3, <1>5, <2>1, <2>2, <3>1, <3>2 DEF OwnFiles
  <2>4. InOrder(p)'
    <3>1. InOrder(p) /\ (Lasting(p)' => Lasting(p))
      BY <1>1, <1>3, <1>5, <2>1, <2>2, Parts DEF TimeInv, InTime, Timed, Hand, Lasting
    <3> QED BY <1>1, <2>1, <3>1 DEF InOrder, Held, Occupied
  <2> QED BY <1>1, <1>3, <1>5, <2>1, <2>2, <2>3, <2>4, AddInv
<1>6. CASE next # {}
  <2> DEFINE m == Min(next)
  <2>1. m \in Nat /\ <<dir.pid, m>> \in Tasks
    BY <1>6, NextThread, Parts
  <2> HIDE DEF m
  <2>2. /\ dir' = [dir EXCEPT !.tid = m] /\ UNCHANGED <<new_procs, proc_num>>
        /\ IF options.threads THEN alloc_proc(<<dir.pid, m>>, "thread")
           ELSE /\ rec' = [rec EXCEPT ![proc].num_threads = @ + 1]
                /\ UNCHANGED <<pc, pool, proc>>
    BY <1>1, <1>6 DEF m
  <2>3. dir' \in [pid : Nat, tid : Nat] /\ dir'.pid = dir.pid /\ dir'.tid = m
    BY <2>1, <2>2, Parts DEF TypeOK
  <2>4. CASE ~options.threads
    <3>1. PICK p \in Recs : p = proc
      BY <1>3, <2>4
    <3> DEFINE x == [rec[p] EXCEPT !.num_threads = rec[p].num_threads + 1]
    <3>2. rec' = [rec EXCEPT ![p] = x] /\ UNCHANGED <<pc, pool, proc>>
      BY <1>3, <2>2, <2>4, <3>1
    <3>3. /\ x \in Record /\ x.task = t /\ x.time = rec[p].time /\ x.stat = rec[p].stat
          /\ x.name = rec[p].name /\ x.uid = rec[p].uid
      <4>1. rec[p] \in Record
        BY <1>3
      <4>2. PICK k \in Nat : k = rec[p].num_threads + 1
        BY <4>1 DEF Record
      <4>3. x = [rec[p] EXCEPT !.num_threads = k]
        BY <4>2
      <4> HIDE DEF x
      <4> QED BY <1>3, <2>4, <3>1, <4>1, <4>2, <4>3 DEF Record
    <3> HIDE DEF x
    <3>4. /\ rec' \in [Recs -> Record] /\ \A r \in Recs \ {p} : rec'[r] = rec[r]
          /\ rec'[p].task = t /\ rec'[p].time = rec[p].time /\ rec'[p].stat = rec[p].stat
          /\ rec'[p].name = rec[p].name /\ rec'[p].uid = rec[p].uid
      BY <1>3, <3>2, <3>3
    <3>5. TypeOK'
      BY <1>1, <2>2, <2>3, <3>2, <3>4, Parts DEF TypeOK
    <3>6. PlaceInv'
      BY <1>1, <1>2, <1>3, <2>2, <2>3, <2>4, <3>1, <3>2, <3>4 DEF PlaceInv, InHand
    <3>7. FilesInv'
      <4>1. \A r \in Held(new_procs)' : OwnFiles(r)'
        BY <1>1, <2>2, <3>1, <3>2, <3>4, HandKept
      <4>2. Sure(t)' => Sure(t)
        BY <1>1, <3>2 DEF Sure
      <4>3. Sure(t) => /\ rec'[p].stat = First(t) /\ rec'[p].name = First(t)
                       /\ rec'[p].uid = First(t)
        BY <1>1, <1>2, <2>4, <3>1, <3>4, Parts DEF FilesInv
      <4> QED BY <1>1, <1>2, <2>3, <2>4, <3>1, <3>2, <4>1, <4>2, <4>3 DEF FilesInv
    <3>8. TimeInv'
      BY <1>1, <1>3, <2>2, <2>4, <3>1, <3>2, <3>4, TimeInHand, HandKept DEF Timed
    <3> QED BY <1>1, <2>2, <3>1, <3>2, <3>4, <3>5, <3>6, <3>7, <3>8, HandKept DEF IInv
  <2>5. CASE options.threads /\ Dies
    <3> USE DEF Dies
    <3>1. ClockInv' /\ SortInv' /\ CpuInv' /\ ArrayInv' /\ Held(new_procs)' = Held(new_procs)
      BY <1>1, <2>2, <2>5, ArraysKept
    <3>2. TypeOK'
      BY <1>1, <2>2, <2>3, <2>5, Parts DEF TypeOK
    <3>3. PlaceInv' /\ OwnInv'
      BY <2>5 DEF PlaceInv, InHand, OwnInv
    <3>4. FilesInv'
      BY <1>1, <2>5, <3>1, FilesKept, Parts DEF FilesInv
    <3> QED BY <2>5, <3>1, <3>2, <3>3, <3>4 DEF IInv
  <2>6. CASE options.threads /\ Allocated(<<dir.pid, m>>, "thread")
    <3> USE DEF Allocated
    <3>1. /\ Held(old_procs)' = Held(old_procs) /\ Sampled = Held(new_procs) /\ Sampled' = Sampled
          /\ ClockInv' /\ SortInv' /\ CpuInv' /\ ArrayInv'
          /\ Held(new_procs)' = Held(new_procs)
      <4>1. Distinct(free_procs)'
        BY <2>6 DEF Distinct, Occupied
      <4> QED BY <1>1, <2>2, <2>6, <4>1, ArraysKept
    <3>2. TypeOK'
      BY <1>1, <2>2, <2>3, <2>6, Parts DEF TypeOK
    <3>3. PlaceInv'
      BY <1>1, <1>2, <1>3, <2>1, <2>2, <2>3, <2>6 DEF PlaceInv, InHand
    <3>4. OwnInv'
      <4>1. Hand' = {proc'}
        BY <2>6, Parts DEF Hand
      <4>2. lost' = {} /\ lost = {}
        BY <1>1, <2>6, Parts DEF OwnInv
      <4> QED BY <1>1, <2>6, <3>1, <4>1, <4>2 DEF OwnInv
    <3>5. \A r \in Held(old_procs) \cup Sampled : rec'[r] = rec[r] /\ r # proc
      BY <1>1, <1>3, <2>6, Parts DEF Apart
    <3>6. FilesInv'
      <4>1. \A r \in Held(new_procs)' : OwnFiles(r)'
        BY <1>1, <3>1, <3>5, FilesKept, Parts
      <4>2. Sure(t)' => cur_proc.name = First(t) /\ cur_proc.uid = First(t)
        BY <1>1, <1>2, <2>6, Parts DEF FilesInv, Sure
      <4> QED BY <1>1, <1>2, <2>3, <2>6, <4>1, <4>2 DEF FilesInv
    <3>7. TimeInv'
      <4>1. InTime' = {}
        BY <2>6 DEF InTime, Timed
      <4> QED BY <1>1, <3>1, <3>5, <4>1, TimeKept, Parts
    <3> QED BY <3>1, <3>2, <3>3, <3>4, <3>6, <3>7 DEF IInv
  <2>7. CASE options.threads
    <3>1. Dies \/ Allocated(<<dir.pid, m>>, "thread")
      <4>1. alloc_proc(<<dir.pid, m>>, "thread")
        BY <2>2, <2>7
      <4> QED BY <1>1, <1>3, <2>1, <2>7, <4>1, AllocLemma, Parts
    <3> QED BY <2>5, <2>6, <2>7, <3>1
  <2> QED BY <2>4, <2>7
<1> QED BY <1>4, <1>5, <1>6

\* The start of the program
LEMMA InitInv == Init => IInv
<1> SUFFICES ASSUME Init PROVE IInv
  OBVIOUS
<1> USE BoundsAssumption, OptionsAssumption DEF BoundsAssumption, OptionsAssumption, Init
<1>1. TypeOK
  <2>1. Blank \in Record /\ Unknown \in Origin
    <3>1. 0 \in 0..(Word - 1)
      OBVIOUS
    <3> QED BY <3>1 DEF Blank, Record, Origin
  <2>2. options \in Options /\ iterations \in -1..options.iterations
    OBVIOUS
  <2>3. <<>> \in Seq(Recs \cup {NULL}) /\ <<>> \in Seq(Recs)
    OBVIOUS
  <2> QED BY <2>1, <2>2, <2>3 DEF TypeOK, NULL
<1>2. /\ Occupied(old_procs) = {} /\ Held(old_procs) = {} /\ Occupied(new_procs) = {}
      /\ Held(new_procs) = {} /\ Occupied(free_procs) = {} /\ Listed = {} /\ Hand = {} /\ Sampled = {}
      /\ InTime = {}
  BY DEF Occupied, Held, Listed, Hand, Sampled, InTime, Timed
<1>3. ClockInv
  BY DEF ClockInv
<1>4. PlaceInv
  BY DEF PlaceInv, InHand, Reads, Stopped
<1>5. ArrayInv
  <2>1. 1..0 = {} /\ 0 \in 0..Len(old_procs)
    OBVIOUS
  <2> QED BY <1>2, <2>1 DEF ArrayInv, Distinct
<1>6. OwnInv
  <2>1. /\ lost = {} /\ 1..mallocs = {} /\ Len(free_procs) = 0
        /\ num_free_procs = 0 /\ num_used_procs = mallocs - 0
    OBVIOUS
  <2>2. Apart(Listed, Held(old_procs), Sampled, Hand, lost)
    BY <1>2, <2>1 DEF Apart
  <2>3. Listed \cup Held(old_procs) \cup Sampled \cup Hand \cup lost = 1..mallocs
    BY <1>2, <2>1
  <2> QED BY <2>1, <2>2, <2>3 DEF OwnInv
<1>7. CpuInv /\ SortInv
  BY DEF CpuInv, DivideNeedsNoDelay, SortInv, Reads
<1>8. FilesInv /\ TimeInv
  BY <1>2 DEF FilesInv, TimeInv, Reads
<1> QED BY <1>1, <1>3, <1>4, <1>5, <1>6, <1>7, <1>8 DEF IInv

\* Every step of the system and of top
LEMMA StepInv == IInv /\ [Next]_vars => IInv'
<1> SUFFICES ASSUME IInv, [Next]_vars PROVE IInv'
  OBVIOUS
<1>1. CASE UNCHANGED vars
  <2> USE <1>1 DEF vars, system, arrays, pool, reading
  <2>1. /\ Held(old_procs)' = Held(old_procs) /\ Held(new_procs)' = Held(new_procs)
        /\ Occupied(old_procs)' = Occupied(old_procs) /\ Occupied(new_procs)' = Occupied(new_procs)
        /\ Listed' = Listed /\ Hand' = Hand /\ Sampled' = Sampled /\ InTime' = InTime
    BY DEF Held, Occupied, Listed, Hand, Sampled, InTime
  <2>2. TypeOK' /\ ClockInv' /\ CpuInv'
    BY Parts DEF TypeOK, ClockInv, CpuInv, DivideNeedsNoDelay
  <2>3. PlaceInv'
    BY Parts DEF PlaceInv, InHand
  <2>4. ArrayInv'
    BY Parts DEF ArrayInv, Occupied, Distinct
  <2>5. OwnInv'
    BY <2>1, Parts DEF OwnInv, Apart
  <2>6. FilesInv'
    BY <2>1, FilesKept, Parts DEF FilesInv, Sure
  <2>7. SortInv'
    BY OrderSame, Parts DEF SortInv
  <2>8. pc \notin Stopped => TimeInv'
    BY <2>1, Parts DEF TimeInv, InOrder, Lasting
  <2> QED BY <2>2, <2>3, <2>4, <2>5, <2>6, <2>7, <2>8 DEF IInv
<1>2. CASE Next
  BY <1>2, SystemInv, MainInv, LoopInv, ReadStartInv, ReaddirInv, ReadStatInv, ReadCmdlineInv,
     ReadStatusInv, OpenTaskInv, ReadTasksInv, ReadThreadInv, PrintProcsInv, FreeOldProcsInv
     DEF Next, SystemStep
<1> QED BY <1>1, <1>2

\* The inductive invariant holds.
LEMMA Invariance == Spec => []IInv
BY InitInv, StepInv, PTL DEF Spec
-----------------------------------------------------------------------------
(* The theorems                                                            *)

\* Every variable keeps its type: the arrays and the list hold records, no counter goes
\* below zero, and no array is written past its end.
THEOREM TypeCorrect == Spec => []TypeOK
<1>1. IInv => TypeOK
  BY DEF IInv
<1> QED BY <1>1, Invariance, PTL

\* Every record malloc gave is in one place, and the counters tell how many are where.
THEOREM RecordsOwned == Spec => []RecordsOwnedOnce
<1>1. IInv => RecordsOwnedOnce
  <2> SUFFICES ASSUME IInv, pc \notin Stopped PROVE RecordsOwnedOnce
    BY DEF RecordsOwnedOnce
  <2> DEFINE places == <<Listed, Held(old_procs), Sampled, {proc} \ {NULL}, lost>>
  <2>1. /\ Apart(Listed, Held(old_procs), Sampled, Hand, lost)
        /\ Listed \cup Held(old_procs) \cup Sampled \cup Hand \cup lost = 1..mallocs
        /\ num_free_procs = Len(free_procs) /\ num_used_procs = mallocs - Len(free_procs)
        /\ options.threads => lost = {}
    BY Parts DEF OwnInv
  <2>2. /\ DOMAIN places = 1..5
        /\ places[1] = Listed /\ places[2] = Held(old_procs) /\ places[3] = Sampled
        /\ places[4] = Hand /\ places[5] = lost
    BY DEF Hand
  <2> HIDE DEF places
  <2>3. \A i, j \in DOMAIN places : i # j => places[i] \cap places[j] = {}
    <3> SUFFICES ASSUME NEW i \in 1..5, NEW j \in 1..5, i # j PROVE places[i] \cap places[j] = {}
      BY <2>2
    <3>1. i \in {1, 2, 3, 4, 5} /\ j \in {1, 2, 3, 4, 5}
      OBVIOUS
    <3> QED BY <2>1, <2>2, <3>1 DEF Apart
  <2>4. UNION {places[i] : i \in DOMAIN places} = 1..mallocs
    <3>1. \A i \in DOMAIN places : places[i] \subseteq 1..mallocs
      <4> SUFFICES ASSUME NEW i \in {1, 2, 3, 4, 5} PROVE places[i] \subseteq 1..mallocs
        BY <2>2
      <4> QED BY <2>1, <2>2
    <3>2. ASSUME NEW x \in 1..mallocs PROVE \E i \in DOMAIN places : x \in places[i]
      <4>1. x \in places[1] \/ x \in places[2] \/ x \in places[3] \/ x \in places[4] \/ x \in places[5]
        BY <2>1, <2>2
      <4>2. 1 \in 1..5 /\ 2 \in 1..5 /\ 3 \in 1..5 /\ 4 \in 1..5 /\ 5 \in 1..5
        OBVIOUS
      <4> QED BY <2>2, <4>1, <4>2
    <3> QED BY <3>1, <3>2
  <2>5. Cardinality(Listed) = Len(free_procs)
    <3>1. /\ free_procs \in Seq(Recs) /\ Distinct(free_procs) /\ Len(free_procs) \in Nat
          /\ Occupied(free_procs) = 1..Len(free_procs) /\ Listed = Held(free_procs)
      BY ListedHeld, Parts DEF TypeOK, ArrayInv, Listed
    <3> QED BY <3>1, HeldCount
  <2>6. \A a \in {old_procs, new_procs} : Cardinality(Held(a)) = Cardinality(Occupied(a))
    <3>1. PICK n \in Nat : Occupied(old_procs) = 1..n
      BY Parts DEF ArrayInv, TypeOK
    <3>2. proc_num \in Nat /\ Occupied(new_procs) = 1..proc_num
      BY Parts DEF ArrayInv, TypeOK
    <3>3. Distinct(old_procs) /\ Distinct(new_procs)
      BY Parts DEF ArrayInv
    <3>4. Cardinality(Held(old_procs)) = n /\ Cardinality(Occupied(old_procs)) = n
      BY <3>1, <3>3, HeldCount
    <3>5. Cardinality(Held(new_procs)) = proc_num /\ Cardinality(Occupied(new_procs)) = proc_num
      BY <3>2, <3>3, HeldCount
    <3> QED BY <3>4, <3>5
  <2> QED BY <2>1, <2>3, <2>4, <2>5, <2>6, Zenon DEF RecordsOwnedOnce, places
<1> QED BY <1>1, Invariance, PTL

\* A line of several processes needs a number that was taken again.
THEOREM MixedLines == Spec => []MixedNeedsReuse
<1>1. IInv => MixedNeedsReuse
  <2> SUFFICES ASSUME IInv, NEW r \in Held(new_procs)
               PROVE  LET leader == Leader(rec[r].task[1])
                          whole  == /\ rec[r].name = rec[r].uid
                                    /\ <<rec[r].name[1], rec[r].name[2]>> = leader
                                    /\ ~options.threads => rec[r].stat = rec[r].name
                      IN  whole \/ start[leader] > 0
    BY DEF MixedNeedsReuse
  <2> DEFINE leader == Leader(rec[r].task[1])
  <2>1. OwnFiles(r)
    BY Parts DEF FilesInv
  <2>2. leader \in Tasks /\ start \in [Tasks -> 0..MaxChanges]
    BY <2>1, Parts DEF OwnFiles, TypeOK
  <2>3. start[leader] = 0 \/ start[leader] > 0
    BY <2>2, BoundsAssumption DEF BoundsAssumption
  <2>4. start[leader] = 0 =>
          /\ rec[r].name = First(leader) /\ rec[r].uid = First(leader)
          /\ ~options.threads => rec[r].stat = First(leader)
    BY <2>1 DEF OwnFiles
  <2> QED BY <2>3, <2>4 DEF First, Leader
<1> QED BY <1>1, Invariance, PTL

\* A share wraps below zero only for a task that ended.
THEOREM WrappedShares == Spec => []WrappedNeedsEnd
<1>1. IInv => WrappedNeedsEnd
  <2> SUFFICES ASSUME IInv, pc = "free", NEW r \in Held(new_procs)
               PROVE  2 * delta_time(r) >= Word =>
                          \/ start[rec[r].task] > 0
                          \/ options.threads /\ rec[r].task \notin alive
    BY DEF WrappedNeedsEnd
  <2>1. r \in Sampled /\ r \in Recs /\ TimeInv /\ rec[r].task \in Tasks
    BY Parts DEF TimeInv, Sampled, Stopped
  <2>2. start[rec[r].task] = 0 \/ start[rec[r].task] > 0
    <3>1. start[rec[r].task] \in 0..MaxChanges
      BY <2>1, Parts DEF TypeOK
    <3> QED BY <3>1, BoundsAssumption DEF BoundsAssumption
  <2> SUFFICES ASSUME start[rec[r].task] = 0, options.threads => rec[r].task \in alive
               PROVE  ~ (2 * delta_time(r) >= Word)
    BY <2>2
  <2> DEFINE found == {i \in Occupied(old_procs) : rec[old_procs[i]].task = rec[r].task}
  <2>3. proc = NULL /\ InOrder(r) /\ Lasting(r)
    BY <2>1, Parts DEF PlaceInv, InHand, Stopped, Reads, TimeInv, Lasting
  <2>4. CASE found = {}
    <3>1. delta_time(r) = 0
      BY <2>4 DEF delta_time, find_old_proc
    <3> QED BY <3>1, BoundsAssumption DEF BoundsAssumption
  <2>5. CASE found # {}
    <3>1. Min(found) \in found
      <4>1. found \subseteq Nat
        BY Parts DEF Occupied, TypeOK
      <4> QED BY <2>5, <4>1, MinLemma
    <3>2. PICK o \in Held(old_procs) : o = find_old_proc(rec[r].task) /\ rec[o].task = rec[r].task
      BY <2>5, <3>1 DEF find_old_proc, Held
    <3> HIDE DEF found
    <3>3. o \in Recs /\ o # NULL
      BY Parts
    <3>4. delta_time(r) = (rec[r].time - rec[o].time) % Word
      BY <3>2, <3>3 DEF delta_time
    <3>5. rec[o].time <= rec[r].time /\ rec[r].time <= time[rec[r].task]
      BY <2>3, <3>2 DEF InOrder
    <3>6. /\ rec[o].time \in Nat /\ rec[r].time \in Nat /\ time[rec[r].task] \in 0..MaxTicks
          /\ Word \in Nat /\ Word > 2 * MaxTicks /\ MaxTicks \in Nat
      <4>1. rec[o] \in Record /\ rec[r] \in Record /\ time[rec[r].task] \in 0..MaxTicks
        BY <2>1, <3>3, Parts DEF TypeOK
      <4>2. rec[o].time \in 0..(Word - 1) /\ rec[r].time \in 0..(Word - 1)
        BY <4>1 DEF Record
      <4> QED BY <4>1, <4>2, BoundsAssumption DEF BoundsAssumption
    <3> DEFINE d == rec[r].time - rec[o].time
    <3>7. d \in 0..MaxTicks
      BY <3>5, <3>6
    <3> HIDE DEF d
    <3>8. d % Word = d
      BY <3>6, <3>7
    <3> QED BY <3>4, <3>6, <3>7, <3>8 DEF d
  <2> QED BY <2>4, <2>5
<1> QED BY <1>1, Invariance, PTL

\* The division by the time between the samples
THEOREM DivideSafe == Spec => []DivideNeedsNoDelay
<1>1. IInv => DivideNeedsNoDelay
  BY DEF IInv, CpuInv
<1> QED BY <1>1, Invariance, PTL

\* The lines shown are as many as asked for, or as there are, and none left out is greater.
THEOREM Largest == Spec => []LargestShown
<1>1. IInv => LargestShown
  <2> SUFFICES ASSUME IInv, pc = "free"
               PROVE  /\ Cardinality(Shown) = IF options.max_procs = 0 THEN proc_num
                                              ELSE Min({proc_num, options.max_procs})
                      /\ \A i \in Shown, j \in Occupied(new_procs) :
                            i < j \/ j \notin Shown => Key(new_procs[i]) >= Key(new_procs[j])
    BY DEF LargestShown
  <2> DEFINE n == IF options.max_procs = 0 THEN proc_num ELSE Min({proc_num, options.max_procs})
  <2>1. /\ proc_num \in Nat /\ options.max_procs \in Nat
        /\ new_procs \in Seq(Recs \cup {NULL}) /\ proc_num <= Len(new_procs)
        /\ Occupied(new_procs) = 1..proc_num
    BY Parts, OptionsAssumption DEF TypeOK, ArrayInv, OptionsAssumption
  <2>2. /\ n \in Nat /\ n <= proc_num /\ (options.max_procs # 0 => n <= options.max_procs)
        /\ n = proc_num \/ (options.max_procs # 0 /\ n = options.max_procs)
    <3>1. CASE options.max_procs = 0
      BY <2>1, <3>1
    <3>2. CASE options.max_procs # 0
      <4>1. /\ Min({proc_num, options.max_procs}) \in {proc_num, options.max_procs}
            /\ \A x \in {proc_num, options.max_procs} : Min({proc_num, options.max_procs}) <= x
        BY <2>1, MinLemma
      <4> QED BY <2>1, <3>2, <4>1
    <3> QED BY <3>1, <3>2
  <2> HIDE DEF n
  <2>3. \A i \in DOMAIN new_procs : new_procs[i] # NULL <=> i \in 1..proc_num
    BY <2>1 DEF Occupied
  <2>4. DOMAIN new_procs = 1..Len(new_procs) /\ Len(new_procs) \in Nat
    BY <2>1
  <2>5. Shown = 1..n
    <3>1. ASSUME NEW i \in Shown PROVE i \in 1..n
      <4>1. i \in 1..Len(new_procs) /\ new_procs[i] # NULL
            /\ (options.max_procs # 0 => i <= options.max_procs)
        BY <2>4 DEF Shown
      <4> QED BY <2>1, <2>2, <2>3, <2>4, <4>1
    <3>2. ASSUME NEW i \in 1..n PROVE i \in Shown
      <4>1. i \in DOMAIN new_procs /\ \A j \in 1..i : j \in DOMAIN new_procs /\ j \in 1..proc_num
        BY <2>1, <2>2, <2>4
      <4>2. options.max_procs # 0 => i <= options.max_procs
        BY <2>1, <2>2
      <4> QED BY <2>3, <4>1, <4>2 DEF Shown
    <3> QED BY <3>1, <3>2
  <2>6. Cardinality(Shown) = n
    BY <2>2, <2>5, FS_Interval
  <2>7. ASSUME NEW i \in Shown, NEW j \in Occupied(new_procs), i < j \/ j \notin Shown
        PROVE  Key(new_procs[i]) >= Key(new_procs[j])
    <3>1. i \in DOMAIN new_procs /\ j \in DOMAIN new_procs /\ i < j /\ new_procs[j] # NULL
      BY <2>1, <2>2, <2>3, <2>4, <2>5, <2>7
    <3>2. NotAfter(new_procs[i], new_procs[j])
      BY <3>1, Parts DEF SortInv
    <3> QED BY <3>1, <3>2 DEF NotAfter
  <2> QED BY <2>6, <2>7 DEF n
<1> QED BY <1>1, Invariance, PTL

\* No step writes a record that is in an array: what is compared and shown stays what
\* was read, and alloc_proc never gives such a record to read_procs.
HeldUnwritten == [][\A r \in Held(old_procs) \cup Sampled : rec'[r] = rec[r]]_vars

\* Only what is in hand is written.
THEOREM HeldKept == Spec => HeldUnwritten
<1> DEFINE Kept == \A r \in Held(old_procs) \cup Sampled : rec'[r] = rec[r]
<1>1. IInv /\ [Next]_vars => [Kept]_vars
  <2> SUFFICES ASSUME IInv, Next PROVE Kept
    OBVIOUS
  <2>1. CASE UNCHANGED rec
    BY <2>1
  <2>2. ASSUME pc \notin Stopped, \A r \in Recs \ {proc} : rec'[r] = rec[r] PROVE Kept
    BY <2>2, Parts
  <2>3. CASE SystemStep
    BY <2>1, <2>3, SystemLemma, Parts
  <2>4. CASE Main \/ Loop \/ ReadStart \/ PrintProcs \/ FreeOldProcs
    BY <2>1, <2>4 DEF Main, Loop, ReadStart, PrintProcs, FreeOldProcs
  <2>5. CASE ReadStat \/ ReadCmdline \/ ReadStatus \/ OpenTask \/ ReadThread
    <3>1. pc \notin Stopped
      BY <2>5 DEF ReadStat, ReadCmdline, ReadStatus, OpenTask, ReadThread, Stopped
    <3>2. \A r \in Recs \ {proc} : rec'[r] = rec[r]
      <4>1. rec \in [Recs -> Record]
        BY Parts DEF TypeOK
      <4> QED BY <2>5, <4>1 DEF ReadStat, ReadCmdline, ReadStatus, ReadFile, OpenTask, ReadThread
    <3> QED BY <2>2, <3>1, <3>2
  <2>6. ASSUME pc \in Reads \cup {"readdir"}, proc = NULL, NEW t \in Tasks, NEW next, alloc_proc(t, next)
        PROVE  Kept
    <3>1. pc \notin Stopped
      BY <2>6 DEF Reads, Stopped
    <3>2. Dies \/ Allocated(t, next)
      BY <2>6, <3>1, AllocLemma, Parts
    <3> QED BY <2>1, <3>2, Parts DEF Dies, Allocated, Apart
  <2>7. CASE Readdir
    <3> DEFINE p == Min({t[1] : t \in {u \in alive : u[1] > dir.pid}})
    <3>1. /\ pc = "readdir"
          /\ UNCHANGED rec \/ ({t[1] : t \in {u \in alive : u[1] > dir.pid}} # {}
                                /\ alloc_proc(Leader(p), "stat"))
      BY <2>7 DEF Readdir, pool
    <3>2. proc = NULL
      BY <3>1, Parts DEF PlaceInv, InHand, Reads, Stopped
    <3> QED BY <2>1, <2>6, <3>1, <3>2, NextProcess, Parts
  <2>8. CASE ReadTasks
    <3> DEFINE m == Min({t[2] : t \in {u \in alive : u[1] = dir.pid /\ u[2] > dir.tid}})
    <3>1. pc = "tasks" /\ rec \in [Recs -> Record]
      BY <2>8, Parts DEF ReadTasks, TypeOK
    <3>2. \/ UNCHANGED rec
          \/ rec' = [rec EXCEPT ![proc].num_threads = @ + 1]
          \/ /\ options.threads
             /\ {t[2] : t \in {u \in alive : u[1] = dir.pid /\ u[2] > dir.tid}} # {}
             /\ alloc_proc(<<dir.pid, m>>, "thread")
      BY <2>8 DEF ReadTasks
    <3>3. CASE rec' = [rec EXCEPT ![proc].num_threads = @ + 1]
      BY <2>2, <3>1, <3>3 DEF Stopped
    <3>4. options.threads => proc = NULL
      BY <3>1, Parts DEF PlaceInv, InHand, Reads, Stopped
    <3> QED BY <2>1, <2>6, <3>1, <3>2, <3>3, <3>4, NextThread, Parts DEF Reads
  <2> QED BY <2>3, <2>4, <2>5, <2>7, <2>8 DEF Next, SystemStep
<1> QED BY <1>1, Invariance, PTL DEF Spec, HeldUnwritten
=============================================================================
