------------------------ MODULE CpuUsageTimer_proof ------------------------
(***************************************************************************)
(* Removing the timer-driven usage modules is safe unless del_timer meets  *)
(* a running callback, and their usage is a percentage unless it compares  *)
(* two cpus: for any number of cpus and any length of the run.             *)
(***************************************************************************)
EXTENDS CpuUsageTimer, FiniteSetTheorems, WellFoundedInduction, TLAPS

Control ==
    /\ version \in 1..3
    /\ mod \in {"absent", "live", "flush", "wait", "kfree", "unload", "gone"}
    /\ armed \in BOOLEAN /\ cb \in {"idle", "run", "arm"}
    /\ pending \in BOOLEAN /\ working \in BOOLEAN
    /\ barrier \in {"none", "pending", "running"}
    /\ raced \in BOOLEAN /\ fault \in BOOLEAN

\* Nothing runs before init, and the samples of version 2 are no work.
Quiet ==
    /\ mod = "absent" => ~armed /\ cb = "idle" /\ ~pending /\ ~working
    /\ version = 2 => ~pending /\ ~working /\ mod \notin {"flush", "wait", "kfree"}

\* del_timer ends the callbacks, unless one runs.
TimerEnds == ~raced /\ mod \notin {"absent", "live"} => ~armed /\ cb = "idle"

\* flush_work waits for the run that is pending, or else for the one under way; as
\* nobody queues the work again there is none when it returns.
WorkEnds ==
    ~raced =>
        /\ mod = "wait" =>
             CASE barrier = "pending" -> pending
               [] barrier = "running" -> ~pending /\ working
               [] OTHER -> ~pending /\ ~working
        /\ mod \in {"kfree", "unload", "gone"} => ~pending /\ ~working

Freed == prev_mem = "freed" => mod \in {"unload", "gone"}

IInv == Control /\ Quiet /\ TimerEnds /\ WorkEnds /\ Freed /\ FaultNeedsRunningCallback

\* The invariant holds before the module is loaded.
LEMMA InitIInv == Init => IInv
  BY DEF Init, IInv, Control, Quiet, TimerEnds, WorkEnds, Freed, FaultNeedsRunningCallback

\* Every step of the timer, the work, the functions of the module and the system keeps it.
LEMMA StepIInv == IInv /\ [Next]_vars => IInv'
<1> SUFFICES ASSUME IInv, [Next]_vars PROVE IInv'
  OBVIOUS
<1> USE DEF IInv, Control, Quiet, TimerEnds, WorkEnds, Freed, FaultNeedsRunningCallback
<1>1. CASE UNCHANGED vars
  BY <1>1 DEF vars, timer, work
<1>2. ASSUME NEW c \in Cpus, Tick(c) \/ Plug(c) PROVE IInv'
  BY <1>2 DEF Tick, Plug, System, timer, work
<1>3. CASE ~fault /\ ModuleInit
  BY <1>3 DEF ModuleInit, work
<1>4. CASE ~fault /\ TimerExpire
  BY <1>4 DEF TimerExpire, work
<1>5. CASE ~fault /\ CbRun
  <2>1. mod' = mod /\ version' = version /\ armed' = armed /\ working' = working
        /\ barrier' = barrier /\ raced' = raced /\ prev_mem' = prev_mem
        /\ cb = "run" /\ cb' = "arm" /\ fault' = (mod = "gone")
    BY <1>5 DEF CbRun
  <2>2. (version = 2 /\ pending' = pending) \/ (version # 2 /\ pending' = TRUE)
    BY <1>5 DEF CbRun
  <2>3. raced \/ mod = "live"
    BY <2>1
  <2>4. fault' \in BOOLEAN /\ (fault' => raced')
    BY <2>1, <2>3
  <2>5. pending' \in BOOLEAN /\ (version = 2 => ~pending')
    <3>1. CASE version = 2 /\ pending' = pending
      BY <3>1
    <3>2. CASE version # 2 /\ pending' = TRUE
      BY <3>2, Zenon
    <3> QED BY <3>1, <3>2, <2>2
  <2> QED BY <2>1, <2>3, <2>4, <2>5
<1>6. CASE ~fault /\ CbArm
  BY <1>6 DEF CbArm, work
<1>7. CASE ~fault /\ WorkStart
  BY <1>7 DEF WorkStart, timer
<1>8. CASE ~fault /\ WorkEnd
  <2>1. mod' = mod /\ version' = version /\ armed' = armed /\ cb' = cb /\ pending' = pending
        /\ raced' = raced /\ prev_mem' = prev_mem /\ working /\ working' = FALSE
        /\ barrier' = IF barrier = "running" THEN "none" ELSE barrier
    BY <1>8 DEF WorkEnd, timer
  <2>2. fault' = (mod = "gone") \/ fault' = (mod = "gone" \/ prev_mem = "freed")
    BY <1>8 DEF WorkEnd, NoSample
  <2>3. mod = "gone" \/ prev_mem = "freed" => raced
    BY <2>1
  <2>4. fault' \in BOOLEAN /\ (fault' => raced')
    BY <2>1, <2>2, <2>3
  <2> QED BY <2>1, <2>4
<1>9. CASE ~fault /\ ExitDelTimer
  BY <1>9 DEF ExitDelTimer, work
<1>10. CASE ~fault /\ ExitFlush
  BY <1>10 DEF ExitFlush, timer
<1>11. CASE ~fault /\ ExitWait
  BY <1>11 DEF ExitWait, timer, work
<1>12. CASE ~fault /\ ExitKfree
  BY <1>12 DEF ExitKfree, timer, work
<1>13. CASE ~fault /\ ExitUnload
  BY <1>13 DEF ExitUnload, timer, work
<1> QED
  BY <1>1, <1>2, <1>3, <1>4, <1>5, <1>6, <1>7, <1>8, <1>9, <1>10, <1>11, <1>12, <1>13 DEF Next

\* The exit functions of cpu_usage.c, cpu_usage2.c and per_cpu_usage.c leave nothing that
\* runs the module's text or uses its arrays, except a callback that ran in del_timer.
THEOREM RemovalSafe == Spec => []FaultNeedsRunningCallback
<1>1. IInv => FaultNeedsRunningCallback
  BY DEF IInv
<1> QED
  BY InitIInv, StepIInv, <1>1, PTL DEF Spec

\* With a callback that did not race with del_timer, the work is done when prev_idle and
\* prev_total are freed and when the text goes.
THEOREM FlushIsEnough == Spec => [](~raced /\ mod \in {"kfree", "unload", "gone"} => ~pending /\ ~working)
<1>1. IInv => (~raced /\ mod \in {"kfree", "unload", "gone"} => ~pending /\ ~working)
  BY DEF IInv, WorkEnds
<1> QED
  BY InitIInv, StepIInv, <1>1, PTL DEF Spec

\* The callback arms the timer until del_timer, and without init's timer_setup there
\* is neither; the array is there from init to kfree.
SamplingInv ==
    /\ set_up \in BOOLEAN
    /\ mod = "absent" => ~set_up /\ prev_mem = "none"
    /\ mod = "live" /\ set_up => armed \/ cb # "idle"
    /\ ~set_up => ~armed /\ cb = "idle" /\ ~pending /\ ~working
    /\ ~set_up /\ mod # "absent" => version = 3
    /\ mod \in {"unload", "gone"} \/ version # 3 => prev_mem # "live"

LEMMA SamplingStep == IInv /\ SamplingInv /\ [Next]_vars => SamplingInv'
<1> SUFFICES ASSUME IInv, SamplingInv, [Next]_vars PROVE SamplingInv'
  OBVIOUS
<1> USE DEF SamplingInv, timer, work
<1>1. CASE UNCHANGED vars
  BY <1>1 DEF vars
<1>2. ASSUME NEW c \in Cpus, Tick(c) \/ Plug(c) PROVE SamplingInv'
  BY <1>2 DEF Tick, Plug, System
<1>3. CASE ModuleInit
  <2>1. /\ mod = "absent" /\ mod' = "live"
        /\ UNCHANGED <<version, cb, pending, working>>
    BY <1>3 DEF ModuleInit
  <2>2. ~set_up /\ ~armed /\ cb = "idle" /\ ~pending /\ ~working /\ prev_mem = "none"
    BY <2>1 DEF IInv, Quiet
  <2>3. \/ set_up' = TRUE /\ armed' = TRUE /\ (version # 3 => prev_mem' = "none")
        \/ version = 3 /\ UNCHANGED <<set_up, armed, prev_mem>>
    BY <1>3, Zenon DEF ModuleInit
  <2>4. CASE set_up' = TRUE /\ armed' = TRUE /\ (version # 3 => prev_mem' = "none")
    BY <2>1, <2>4
  <2>5. CASE version = 3 /\ UNCHANGED <<set_up, armed, prev_mem>>
    BY <2>1, <2>2, <2>5
  <2> QED BY <2>3, <2>4, <2>5
<1>4. CASE TimerExpire
  BY <1>4 DEF TimerExpire
<1>5. CASE CbRun \/ CbArm
  <2>1. cb # "idle" /\ set_up /\ UNCHANGED <<version, mod, set_up, working, prev_mem>>
    BY <1>5 DEF CbRun, CbArm
  <2>2. armed' \/ cb' # "idle"
    BY <1>5 DEF CbRun, CbArm
  <2> QED BY <2>1, <2>2
<1>6. CASE WorkStart \/ WorkEnd
  <2>1. set_up /\ UNCHANGED <<version, mod, set_up, armed, cb, prev_mem>>
    BY <1>6 DEF WorkStart, WorkEnd
  <2> QED BY <2>1
<1>7. CASE ExitDelTimer
  <2>1. mod = "live" /\ mod' \in {"unload", "flush"} /\ (mod' = "unload" => version = 2)
    BY <1>7 DEF ExitDelTimer
  <2>2. ~armed' /\ UNCHANGED <<version, set_up, cb, pending, working, prev_mem>>
    BY <1>7 DEF ExitDelTimer
  <2> QED BY <2>1, <2>2
<1>8. CASE ExitFlush \/ ExitWait \/ ExitKfree \/ ExitUnload
  <2>1. /\ mod # "absent" /\ mod' \notin {"absent", "live"}
        /\ UNCHANGED <<version, set_up, armed, cb, pending, working>>
    BY <1>8 DEF ExitFlush, ExitWait, ExitKfree, ExitUnload
  <2>2. mod' \in {"unload", "gone"} \/ version # 3 => prev_mem' # "live"
    BY <1>8 DEF ExitFlush, ExitWait, ExitKfree, ExitUnload
  <2> QED BY <2>1, <2>2
<1> QED BY <1>1, <1>2, <1>3, <1>4, <1>5, <1>6, <1>7, <1>8 DEF Next

LEMMA Sampling == Spec => [](IInv /\ SamplingInv)
<1>1. Init => SamplingInv
  BY DEF Init, SamplingInv
<1> QED BY <1>1, InitIInv, StepIInv, SamplingStep, PTL DEF Spec

\* A module that is there has its timer on, or its callback on the way, exactly if init
\* came to timer_setup; one of version 3 whose allocation failed never samples.
TimerKeepsItself ==
    mod = "live" =>
        /\ set_up <=> armed \/ cb # "idle"
        /\ ~set_up => version = 3 /\ ~pending /\ ~working

\* What KeepsSampling needs besides fairness, and why it has to leave out the failed init.
THEOREM SamplingGoesOn == Spec => []TimerKeepsItself
<1>1. SamplingInv => TimerKeepsItself
  BY DEF SamplingInv, TimerKeepsItself
<1> QED BY <1>1, Sampling, PTL

\* A module that is gone has freed its array; unless its callback was running in
\* del_timer nothing of it is armed, queued or running.
UnloadLeavesNothing ==
    mod = "gone" =>
        /\ prev_mem # "live"
        /\ ~raced => ~armed /\ cb = "idle" /\ ~pending /\ ~working

\* The exit functions undo what init did, whatever the callback and the work were doing.
THEOREM UnloadIsComplete == Spec => []UnloadLeavesNothing
<1>1. IInv /\ SamplingInv => UnloadLeavesNothing
  BY DEF IInv, TimerEnds, WorkEnds, SamplingInv, UnloadLeavesNothing
<1> QED BY <1>1, Sampling, PTL

-----------------------------------------------------------------------------
(* The usage: sums over the cpus, lines of the online ones, clocks         *)

\* A set of natural numbers that is not empty has a least element.
LEMMA MinLemma ==
    ASSUME NEW S, S \subseteq Nat, S # {}
    PROVE  Min(S) \in S /\ \A x \in S : Min(S) <= x
<1>1. PICK m \in S : \A y \in S : ~ (<<y, m>> \in OpToRel(<, Nat))
  BY WFMin, NatLessThanWellFounded
<1>2. ASSUME NEW y \in S PROVE m <= y
  <2>1. m \in Nat /\ y \in Nat
    OBVIOUS
  <2>2. <<y, m>> \in Nat \X Nat => (y < m => <<y, m>> \in OpToRel(<, Nat))
    BY DEF OpToRel
  <2>3. ~ (y < m)
    BY <1>1, <2>1, <2>2
  <2> QED BY <2>1, <2>3
<1> QED BY <1>2 DEF Min

\* The cpu that the fold behind Sum takes out of s
Pick(s) == CHOOSE x \in s : TRUE

\* One step of the fold that adds up f over a set of cpus
Body(f, F) ==
    [s \in SUBSET Cpus |-> IF s = {} THEN 0 ELSE f[Pick(s)] + F[s \ {Pick(s)}]]

\* Sets of cpus and their sizes
LEMMA CpusFinite == IsFiniteSet(Cpus) /\ Cardinality(Cpus) = NCpus /\ NCpus \in Nat
  BY FS_Interval, CpusAssumption DEF Cpus

\* A set of cpus is finite.
LEMMA SomeCpus ==
    ASSUME NEW s \in SUBSET Cpus
    PROVE  IsFiniteSet(s) /\ Cardinality(s) \in Nat /\ Cardinality(s) <= NCpus
  BY CpusFinite, FS_Subset, FS_CardinalityType

\* The cpu the fold takes next, and those that are left
LEMMA PickOne ==
    ASSUME NEW s \in SUBSET Cpus, s # {}
    PROVE  /\ Pick(s) \in s /\ Pick(s) \in Cpus /\ s \ {Pick(s)} \in SUBSET Cpus
           /\ Cardinality(s \ {Pick(s)}) = Cardinality(s) - 1
<1>1. Pick(s) \in s
  BY DEF Pick
<1>2. Cardinality(s \ {Pick(s)}) = Cardinality(s) - 1
  BY <1>1, SomeCpus, FS_RemoveElement
<1> QED BY <1>1, <1>2

\* The recursion of the fold has a solution, on larger and larger sets of cpus.
LEMMA FoldExists ==
    ASSUME NEW f \in [Cpus -> Int]
    PROVE  \E F \in [SUBSET Cpus -> Int] : F = Body(f, F)
<1> DEFINE Upto(n, g) == \A s \in SUBSET Cpus : Cardinality(s) <= n => g[s] = Body(f, g)[s]
           Bad == {n \in Nat : ~ \E g \in [SUBSET Cpus -> Int] : Upto(n, g)}
<1>1. ASSUME NEW g \in [SUBSET Cpus -> Int] PROVE Body(f, g) \in [SUBSET Cpus -> Int]
  <2>1. ASSUME NEW s \in SUBSET Cpus
        PROVE  (IF s = {} THEN 0 ELSE f[Pick(s)] + g[s \ {Pick(s)}]) \in Int
    <3>1. s # {} => f[Pick(s)] \in Int /\ g[s \ {Pick(s)}] \in Int
      BY PickOne
    <3> QED BY <3>1
  <2> QED BY <2>1 DEF Body
<1>2. Bad = {}
  <2> SUFFICES ASSUME Bad # {} PROVE FALSE
    OBVIOUS
  <2>1. Min(Bad) \in Bad /\ \A x \in Bad : Min(Bad) <= x
    BY MinLemma
  <2> DEFINE m == Min(Bad)
  <2>2. m # 0
    <3> DEFINE g == [s \in SUBSET Cpus |-> 0]
    <3>1. ASSUME NEW s \in SUBSET Cpus, Cardinality(s) <= 0 PROVE g[s] = Body(f, g)[s]
      <4>1. s = {}
        <5>1. Cardinality(s) = 0 /\ IsFiniteSet(s)
          BY <3>1, SomeCpus
        <5> QED BY <5>1, FS_EmptySet
      <4> QED BY <4>1 DEF Body
    <3>2. g \in [SUBSET Cpus -> Int] /\ Upto(0, g)
      BY <3>1
    <3>3. 0 \notin Bad
      BY <3>2
    <3> QED BY <2>1, <3>3
  <2>3. m - 1 \in Nat /\ m - 1 \notin Bad
    <3> HIDE DEF Bad
    <3>1. m \in Nat
      BY <2>1 DEF Bad
    <3> QED BY <2>1, <2>2, <3>1
  <2>4. PICK g \in [SUBSET Cpus -> Int] : Upto(m - 1, g)
    BY <2>3
  <2> DEFINE h == Body(f, g)
  <2>5. h \in [SUBSET Cpus -> Int]
    BY <1>1
  <2>6. ASSUME NEW s \in SUBSET Cpus, Cardinality(s) <= m PROVE h[s] = Body(f, h)[s]
    <3>1. CASE s = {}
      BY <3>1 DEF Body
    <3>2. CASE s # {}
      <4> DEFINE t == s \ {Pick(s)}
      <4>1. t \in SUBSET Cpus /\ Cardinality(t) <= m - 1
        <5>1. Cardinality(t) = Cardinality(s) - 1 /\ t \in SUBSET Cpus
          BY <3>2, PickOne
        <5>2. Cardinality(s) \in Nat
          BY SomeCpus
        <5>3. m \in Nat
          BY <2>1
        <5> HIDE DEF m, t
        <5> QED BY <2>6, <5>1, <5>2, <5>3
      <4>2. g[t] = h[t]
        BY <2>4, <4>1
      <4>3. h[s] = f[Pick(s)] + g[t]
        BY <3>2 DEF Body
      <4>4. Body(f, h)[s] = f[Pick(s)] + h[t]
        <5> HIDE DEF h
        <5> QED BY <3>2 DEF Body
      <4> QED BY <4>2, <4>3, <4>4
    <3> QED BY <3>1, <3>2
  <2>7. Upto(m, h)
    BY <2>6
  <2> QED BY <2>1, <2>5, <2>7
<1>3. NCpus \notin Bad /\ NCpus \in Nat
  BY <1>2, CpusAssumption
<1>4. PICK g \in [SUBSET Cpus -> Int] : Upto(NCpus, g)
  BY <1>3
<1>5. \A s \in SUBSET Cpus : g[s] = Body(f, g)[s]
  BY <1>4, SomeCpus
<1>6. g = Body(f, g)
  <2> DEFINE h == Body(f, g)
  <2>1. h \in [SUBSET Cpus -> Int] /\ \A s \in SUBSET Cpus : g[s] = h[s]
    BY <1>1, <1>5
  <2>2. g = h
    <3> HIDE DEF h
    <3> QED BY <2>1
  <2> QED BY <2>2
<1> QED BY <1>6

\* Sum(f) is the value at Cpus of a function that adds up f over every set of cpus.
LEMMA SumFold ==
    ASSUME NEW f \in [Cpus -> Int]
    PROVE  \E F \in [SUBSET Cpus -> Int] : F = Body(f, F) /\ Sum(f) = F[Cpus]
<1> DEFINE acc == CHOOSE G : G = Body(f, G)
<1>1. acc = Body(f, acc)
  BY FoldExists
<1>2. Sum(f) = acc[Cpus]
  BY DEF Sum, MapThenSumSet, MapThenFoldSet, Body, Pick
<1> HIDE DEF acc
<1> DEFINE Bad == {n \in Nat : \E s \in SUBSET Cpus : Cardinality(s) = n /\ acc[s] \notin Int}
<1>3. Bad = {}
  <2> SUFFICES ASSUME Bad # {} PROVE FALSE
    OBVIOUS
  <2>1. Min(Bad) \in Bad /\ \A x \in Bad : Min(Bad) <= x
    BY MinLemma
  <2>2. PICK s \in SUBSET Cpus : Cardinality(s) = Min(Bad) /\ acc[s] \notin Int
    BY <2>1
  <2>3. acc[s] = IF s = {} THEN 0 ELSE f[Pick(s)] + acc[s \ {Pick(s)}]
    BY <1>1 DEF Body
  <2>4. s # {} /\ acc[s \ {Pick(s)}] \notin Int
    BY <2>2, <2>3, PickOne
  <2> DEFINE t == s \ {Pick(s)}
  <2>5. t \in SUBSET Cpus /\ Cardinality(t) = Cardinality(s) - 1
    BY <2>4, PickOne
  <2>6. Cardinality(t) \in Nat /\ Cardinality(s) \in Nat
    BY <2>5, SomeCpus
  <2>7. Cardinality(t) \in Bad
    BY <2>4, <2>5, <2>6
  <2> HIDE DEF Bad, t
  <2> QED BY <2>1, <2>2, <2>5, <2>6, <2>7
<1>4. acc \in [SUBSET Cpus -> Int]
  <2>1. \A s \in SUBSET Cpus : acc[s] \in Int
    BY <1>3, SomeCpus
  <2>2. DOMAIN acc = SUBSET Cpus /\ acc = [s \in DOMAIN acc |-> acc[s]]
    BY <1>1 DEF Body
  <2> QED BY <2>1, <2>2
<1> QED BY <1>1, <1>2, <1>4

\* Before the first tick
LEMMA SumZero == Sum([c \in Cpus |-> 0]) = 0
<1> DEFINE f == [c \in Cpus |-> 0]
<1>1. PICK F \in [SUBSET Cpus -> Int] : F = Body(f, F) /\ Sum(f) = F[Cpus]
  <2>1. f \in [Cpus -> Int]
    OBVIOUS
  <2> HIDE DEF f
  <2> QED BY <2>1, SumFold
<1> DEFINE Bad == {n \in Nat : \E s \in SUBSET Cpus : Cardinality(s) = n /\ F[s] # 0}
<1>2. Bad = {}
  <2> SUFFICES ASSUME Bad # {} PROVE FALSE
    OBVIOUS
  <2>1. Min(Bad) \in Bad /\ \A x \in Bad : Min(Bad) <= x
    BY MinLemma
  <2>2. PICK s \in SUBSET Cpus : Cardinality(s) = Min(Bad) /\ F[s] # 0
    BY <2>1
  <2> DEFINE t == s \ {Pick(s)}
  <2>3. F[s] = IF s = {} THEN 0 ELSE f[Pick(s)] + F[t]
    BY <1>1 DEF Body
  <2>4. s # {} /\ F[t] # 0
    BY <2>2, <2>3, PickOne
  <2>5. t \in SUBSET Cpus /\ Cardinality(t) = Cardinality(s) - 1
    BY <2>4, PickOne
  <2>6. Cardinality(t) \in Nat /\ Cardinality(s) \in Nat
    BY <2>5, SomeCpus
  <2>7. Cardinality(t) \in Bad
    BY <2>4, <2>5, <2>6
  <2> HIDE DEF Bad, t
  <2> QED BY <2>1, <2>2, <2>5, <2>6, <2>7
<1>3. F[Cpus] = 0
  BY <1>2, SomeCpus
<1> QED BY <1>1, <1>3

\* At most b for each cpu
LEMMA SumBound ==
    ASSUME NEW b \in Nat, NEW f \in [Cpus -> 0..b]
    PROVE  Sum(f) \in 0..(NCpus * b)
<1>1. PICK F \in [SUBSET Cpus -> Int] : F = Body(f, F) /\ Sum(f) = F[Cpus]
  <2>1. f \in [Cpus -> Int]
    OBVIOUS
  <2> QED BY <2>1, SumFold
<1> DEFINE Fine(s) == F[s] >= 0 /\ F[s] <= Cardinality(s) * b
           Bad == {n \in Nat : \E s \in SUBSET Cpus : Cardinality(s) = n /\ ~ Fine(s)}
<1>2. Bad = {}
  <2> SUFFICES ASSUME Bad # {} PROVE FALSE
    OBVIOUS
  <2>1. Min(Bad) \in Bad /\ \A x \in Bad : Min(Bad) <= x
    BY MinLemma
  <2>2. PICK s \in SUBSET Cpus : Cardinality(s) = Min(Bad) /\ ~ Fine(s)
    BY <2>1
  <2> DEFINE t == s \ {Pick(s)}
  <2>3. F[s] = IF s = {} THEN 0 ELSE f[Pick(s)] + F[t]
    BY <1>1 DEF Body
  <2>4. s # {}
    <3>1. ASSUME s = {} PROVE Fine(s)
      BY <2>3, <3>1, FS_EmptySet
    <3> QED BY <2>2, <3>1
  <2>5. t \in SUBSET Cpus /\ Cardinality(t) = Cardinality(s) - 1
    BY <2>4, PickOne
  <2>6. Cardinality(t) \in Nat /\ Cardinality(s) \in Nat
    BY <2>5, SomeCpus
  <2>7. ~ Fine(t)
    <3> SUFFICES ASSUME Fine(t) PROVE Fine(s)
      BY <2>2
    <3>1. f[Pick(s)] \in 0..b /\ F[t] \in Int /\ F[s] = f[Pick(s)] + F[t]
      BY <2>3, <2>4, <2>5, PickOne
    <3>2. Cardinality(s) * b = Cardinality(t) * b + b
      <4> HIDE DEF t
      <4>1. Cardinality(s) = Cardinality(t) + 1
        BY <2>5, <2>6
      <4>2. \A k \in Nat : (k + 1) * b = k * b + b
        OBVIOUS
      <4> QED BY <4>1, <4>2, <2>6
    <3>3. Cardinality(t) * b \in Int
      <4> HIDE DEF t
      <4> QED BY <2>6
    <3> HIDE DEF t
    <3> QED BY <3>1, <3>2, <3>3
  <2>8. Cardinality(t) \in Bad
    <3> HIDE DEF Fine, t
    <3> QED BY <2>5, <2>6, <2>7
  <2> HIDE DEF Bad, t
  <2> QED BY <2>1, <2>2, <2>5, <2>6, <2>8
<1>3. Fine(Cpus)
  <2>1. Cardinality(Cpus) \in Nat /\ Cpus \in SUBSET Cpus
    BY CpusFinite
  <2> HIDE DEF Fine
  <2> QED BY <1>2, <2>1
<1>4. NCpus * b \in Int /\ Cardinality(Cpus) = NCpus
  BY CpusFinite
<1> QED BY <1>1, <1>3, <1>4

\* One tick more of one cpu
LEMMA SumTick ==
    ASSUME NEW f \in [Cpus -> Int], NEW c \in Cpus
    PROVE  Sum([f EXCEPT ![c] = @ + 1]) = Sum(f) + 1
<1> DEFINE g == [f EXCEPT ![c] = @ + 1]
<1>1. g \in [Cpus -> Int]
  OBVIOUS
<1>2. PICK F \in [SUBSET Cpus -> Int] : F = Body(f, F) /\ Sum(f) = F[Cpus]
  BY SumFold
<1>3. PICK G \in [SUBSET Cpus -> Int] : G = Body(g, G) /\ Sum(g) = G[Cpus]
  BY <1>1, SumFold
<1> DEFINE Fine(s) == G[s] = F[s] + (IF c \in s THEN 1 ELSE 0)
           Bad == {n \in Nat : \E s \in SUBSET Cpus : Cardinality(s) = n /\ ~ Fine(s)}
<1>4. Bad = {}
  <2> SUFFICES ASSUME Bad # {} PROVE FALSE
    OBVIOUS
  <2>1. Min(Bad) \in Bad /\ \A x \in Bad : Min(Bad) <= x
    BY MinLemma
  <2>2. PICK s \in SUBSET Cpus : Cardinality(s) = Min(Bad) /\ ~ Fine(s)
    BY <2>1
  <2> DEFINE t == s \ {Pick(s)}
  <2>3. /\ F[s] = IF s = {} THEN 0 ELSE f[Pick(s)] + F[t]
        /\ G[s] = IF s = {} THEN 0 ELSE g[Pick(s)] + G[t]
    <3> HIDE DEF g
    <3> QED BY <1>2, <1>3 DEF Body
  <2>4. s # {}
    BY <2>2, <2>3
  <2>5. t \in SUBSET Cpus /\ Cardinality(t) = Cardinality(s) - 1
    BY <2>4, PickOne
  <2>6. Cardinality(t) \in Nat /\ Cardinality(s) \in Nat
    BY <2>5, SomeCpus
  <2>7. ~ Fine(t)
    <3> SUFFICES ASSUME Fine(t) PROVE Fine(s)
      BY <2>2
    <3>1. F[s] = f[Pick(s)] + F[t] /\ G[s] = g[Pick(s)] + G[t] /\ F[t] \in Int /\ G[t] \in Int
      BY <2>3, <2>4, <2>5
    <3>2. Pick(s) \in Cpus /\ Pick(s) \in s
      BY <2>4, PickOne
    <3>3. CASE Pick(s) = c
      <4>1. c \notin t /\ c \in s /\ g[Pick(s)] = f[Pick(s)] + 1 /\ f[Pick(s)] \in Int
        BY <3>2, <3>3
      <4> HIDE DEF t, g
      <4> QED BY <3>1, <4>1
    <3>4. CASE Pick(s) # c
      <4>1. (c \in t <=> c \in s) /\ g[Pick(s)] = f[Pick(s)] /\ f[Pick(s)] \in Int
        BY <3>2, <3>4
      <4> HIDE DEF t, g
      <4> QED BY <3>1, <4>1
    <3> QED BY <3>3, <3>4
  <2>8. Cardinality(t) \in Bad
    <3> HIDE DEF Fine, t
    <3> QED BY <2>5, <2>6, <2>7
  <2> HIDE DEF Bad, t
  <2> QED BY <2>1, <2>2, <2>5, <2>6, <2>8
<1>5. Fine(Cpus)
  <2>1. Cardinality(Cpus) \in Nat /\ Cpus \in SUBSET Cpus
    BY CpusFinite
  <2> HIDE DEF Fine
  <2> QED BY <1>4, <2>1
<1>6. Sum(g) = Sum(f) + 1
  <2> HIDE DEF g
  <2>1. Cpus \in SUBSET Cpus
    OBVIOUS
  <2> QED BY <1>2, <1>3, <1>5, <2>1
<1> QED BY <1>6

\* The k-th line of /proc/stat is that of the online cpu with k - 1 others before it.
LEMMA LineOnline ==
    ASSUME online \subseteq Cpus, NEW k \in 1..Cardinality(online)
    PROVE  Line(k) \in online /\ Line(k) \in Cpus
<1> DEFINE Before(n) == {d \in online : d < n}
           Enough == {n \in Nat : Cardinality(Before(n)) >= k}
<1>0. ASSUME NEW d \in online PROVE d \in Cpus /\ d \in Nat /\ d >= 1 /\ d <= NCpus
  BY CpusFinite DEF Cpus
<1>1. ASSUME NEW n PROVE IsFiniteSet(Before(n)) /\ Cardinality(Before(n)) \in Nat
  BY SomeCpus
<1>2. NCpus + 1 \in Enough
  <2>1. Before(NCpus + 1) = online
    BY <1>0, CpusFinite
  <2>2. Cardinality(online) \in Nat
    BY SomeCpus
  <2> QED BY <2>1, <2>2, CpusFinite
<1>3. Min(Enough) \in Enough /\ \A x \in Enough : Min(Enough) <= x
  BY <1>2, MinLemma
<1> DEFINE n == Min(Enough)
<1>4. n \in Nat /\ Cardinality(Before(n)) >= k
  BY <1>3
<1> HIDE DEF n
<1>5. Cardinality(online) \in Nat /\ k \in Nat /\ k >= 1
  BY SomeCpus
<1>6. n # 0
  <2>1. Before(0) = {}
    BY <1>0
  <2> QED BY <2>1, <1>4, <1>5, FS_EmptySet
<1>7. n - 1 \in Nat /\ Cardinality(Before(n - 1)) < k
  <2>1. n - 1 \in Nat /\ n - 1 < n
    BY <1>4, <1>6
  <2>2. n - 1 \notin Enough
    <3>1. n - 1 \in Enough => n <= n - 1
      BY <1>3 DEF n
    <3> QED BY <2>1, <1>4, <3>1
  <2> QED BY <2>1, <2>2, <1>1, <1>5
<1>8. n - 1 \in online /\ Cardinality(Before(n - 1)) = k - 1
  <2>1. CASE n - 1 \in online
    <3>1. Before(n) = Before(n - 1) \cup {n - 1} /\ n - 1 \notin Before(n - 1)
      BY <2>1, <1>0, <1>4, <1>7
    <3>2. Cardinality(Before(n)) = Cardinality(Before(n - 1)) + 1
      <4>1. IsFiniteSet(Before(n - 1))
        BY <1>1
      <4> HIDE DEF Before
      <4> QED BY <3>1, <4>1, FS_AddElement
    <3> HIDE DEF Before
    <3> QED BY <2>1, <3>2, <1>1, <1>4, <1>5, <1>7
  <2>2. CASE n - 1 \notin online
    <3>1. Before(n) = Before(n - 1)
      BY <2>2, <1>0, <1>4, <1>7
    <3> HIDE DEF Before
    <3> QED BY <3>1, <1>1, <1>4, <1>5, <1>7
  <2> QED BY <2>1, <2>2
<1>9. Line(k) \in online
  BY <1>8 DEF Line
<1> QED BY <1>9
-----------------------------------------------------------------------------
\* The first line of /proc/stat, and that of cpu c
Clock == [idle |-> Sum(idle), total |-> Sum(total)]
ClockOf(c) == [idle |-> idle[c], total |-> total[c]]

\* The idle ticks since p are no more than all ticks since p.
Ahead(v, p) == p.idle <= v.idle /\ v.idle - p.idle <= v.total - p.total

\* What prev holds was read from a clock that has gone on since, and which one is in who.
PrevInv ==
    /\ \A c \in Cpus : idle[c] <= total[c]
    /\ version # 3 => who[1] \in {0, 1} /\ Ahead(Clock, prev[1])
    /\ version = 3 => \A k \in Cpus :
         IF who[k] = 0 THEN prev[k] = [idle |-> 0, total |-> 0] ELSE Ahead(ClockOf(who[k]), prev[k])

\* Inductive: a sample relates prev to the clocks, a tick moves only the clocks.
UsageInv == TypeOK /\ PrevInv /\ OffNeedsMixed

\* A difference that is not negative is the same in unsigned arithmetic.
LEMMA Remainder == \A x \in 0..(Word - 1) : x % Word = x
  BY WordAssumption

\* What a line of /proc/stat, or the sum of all, can be
LEMMA ValueType ==
    ASSUME UsageInv, NEW k \in Slots
    PROVE  /\ k \in Cpus /\ Owner(k) \in Cpus
           /\ Value(k) = IF version = 3 THEN ClockOf(Owner(k)) ELSE Clock
           /\ Value(k).idle \in 0..(Word - 1) /\ Value(k).total \in 0..(Word - 1)
           /\ Value(k).idle <= Value(k).total
<1>0. Word \in Nat /\ MaxTicks \in Nat /\ NCpus \in Nat /\ 1 \in Cpus
      /\ NCpus * MaxTicks \in Nat /\ NCpus * MaxTicks < Word /\ MaxTicks <= NCpus * MaxTicks
  <2>1. Word \in Nat /\ MaxTicks \in Nat /\ NCpus \in Nat /\ NCpus >= 1 /\ Word > 2 * NCpus * MaxTicks
    BY WordAssumption, CpusAssumption
  <2>2. 1 \in Cpus
    BY <2>1 DEF Cpus
  <2>3. NCpus * MaxTicks \in Nat
    BY <2>1
  <2>4. 2 * NCpus * MaxTicks = 2 * (NCpus * MaxTicks)
    BY <2>1
  <2>5. MaxTicks <= NCpus * MaxTicks
    <3>1. \A n \in Nat, t \in Nat : n >= 1 => n * t = t + (n - 1) * t /\ (n - 1) * t \in Nat
      OBVIOUS
    <3>2. NCpus * MaxTicks = MaxTicks + (NCpus - 1) * MaxTicks /\ (NCpus - 1) * MaxTicks \in Nat
      BY <3>1, <2>1
    <3> QED BY <3>2, <2>1, <2>3
  <2> QED BY <2>1, <2>2, <2>3, <2>4, <2>5
<1>1. CASE version = 3
  <2>1. k \in 1..Cardinality(online) /\ online \subseteq Cpus
    BY <1>1 DEF Slots, UsageInv, TypeOK
  <2>2. Cardinality(online) \in Nat /\ Cardinality(online) <= NCpus
    BY <2>1, SomeCpus
  <2>3. k \in Cpus
    BY <2>1, <2>2, <1>0 DEF Cpus
  <2>4. Owner(k) \in Cpus /\ Owner(k) = Line(k)
    BY <2>1, <1>1, LineOnline DEF Owner
  <2>5. Value(k) = ClockOf(Owner(k))
    BY <1>1, <2>4 DEF Value, ClockOf
  <2>6. idle[Owner(k)] \in 0..MaxTicks /\ total[Owner(k)] \in 0..MaxTicks
        /\ idle[Owner(k)] <= total[Owner(k)]
    BY <2>4 DEF UsageInv, TypeOK, PrevInv
  <2> QED BY <1>0, <1>1, <2>3, <2>4, <2>5, <2>6 DEF ClockOf
<1>2. CASE version # 3
  <2>1. k = 1 /\ Owner(k) = 1 /\ Value(k) = Clock
    BY <1>2 DEF Slots, Owner, Value, Clock
  <2>2. Sum(idle) \in 0..(NCpus * MaxTicks) /\ Sum(total) \in 0..(NCpus * MaxTicks)
    BY <1>0, SumBound DEF UsageInv, TypeOK
  <2>3. Sum(idle) <= Sum(total)
    <3>1. Ahead(Clock, prev[1])
      BY <1>2 DEF UsageInv, PrevInv
    <3>2. prev[1].idle \in Int /\ prev[1].total \in Int /\ prev[1].idle <= prev[1].total
      BY <1>0 DEF UsageInv, TypeOK
    <3> QED BY <3>1, <3>2, <2>2, <1>0 DEF Ahead, Clock
  <2> QED BY <1>0, <1>2, <2>1, <2>2, <2>3 DEF Clock
<1> QED BY <1>1, <1>2

\* A sample keeps what is remembered true, and shows no usage outside 0..100 unless it
\* compares two cpus.
LEMMA SampleKeeps ==
    ASSUME UsageInv, Sample, UNCHANGED <<version, system>>
    PROVE  /\ prev' \in [Cpus -> [idle : 0..(Word - 1), total : 0..(Word - 1)]]
           /\ \A k \in Cpus : (prev[k].idle <= prev[k].total)'
           /\ who' \in [Cpus -> Cpus \cup {0}] /\ off' \subseteq Cpus /\ mixed' \subseteq Cpus
           /\ PrevInv' /\ OffNeedsMixed'
<1> DEFINE Figures == [idle : 0..(Word - 1), total : 0..(Word - 1)]
<1>0. 1 \in Cpus /\ Word \in Nat
  BY CpusFinite, CpusAssumption, WordAssumption DEF Cpus
<1>1. version' = version /\ online' = online /\ idle' = idle /\ total' = total
  BY DEF system
<1>2. ASSUME NEW k \in Slots
      PROVE k \in Cpus /\ Owner(k) \in Cpus /\ Value(k) \in Figures /\ Value(k).idle <= Value(k).total
  <2>1. Value(k) = [idle |-> Value(k).idle, total |-> Value(k).total]
    BY DEF Value
  <2> QED BY <2>1, ValueType
<1>3. ASSUME NEW k \in Cpus
      PROVE prev[k] \in Figures /\ prev[k].idle <= prev[k].total /\ who[k] \in Cpus \cup {0}
  BY DEF UsageInv, TypeOK
<1>4. ASSUME NEW k \in Cpus
      PROVE  /\ prev'[k] = IF k \in Slots THEN Value(k) ELSE prev[k]
             /\ who'[k] = IF k \in Slots THEN Owner(k) ELSE who[k]
  BY DEF Sample
<1>5. prev' \in [Cpus -> Figures]
  BY <1>2, <1>3 DEF Sample
<1>6. \A k \in Cpus : prev'[k].idle <= prev'[k].total
  BY <1>2, <1>3, <1>4
<1>7. who' \in [Cpus -> Cpus \cup {0}]
  BY <1>2, <1>3 DEF Sample
<1>8. off' \subseteq Cpus /\ mixed' \subseteq Cpus
  BY <1>2 DEF Sample
<1>9. PrevInv'
  <2>1. \A c \in Cpus : idle'[c] <= total'[c]
    BY <1>1 DEF UsageInv, PrevInv
  <2>2. CASE version # 3
    <3>1. 1 \in Slots /\ Owner(1) = 1 /\ Value(1) = Clock
      BY <2>2 DEF Slots, Owner, Value, Clock
    <3>2. who'[1] = 1 /\ prev'[1] = Clock
      BY <3>1, <1>0, <1>4
    <3>3. Clock' = Clock
      BY <1>1 DEF Clock, Sum, MapThenSumSet, MapThenFoldSet
    <3>4. Clock.idle \in Int /\ Clock.total \in Int
      BY <3>1, <1>2
    <3>5. Ahead(Clock', prev'[1])
      BY <3>2, <3>3, <3>4 DEF Ahead
    <3> QED BY <2>1, <2>2, <3>2, <3>5, <1>1 DEF PrevInv
  <2>3. CASE version = 3
    <3>1. ASSUME NEW k \in Cpus
          PROVE  IF who'[k] = 0 THEN prev'[k] = [idle |-> 0, total |-> 0]
                 ELSE Ahead([idle |-> idle'[who'[k]], total |-> total'[who'[k]]], prev'[k])
      <4>1. CASE k \in Slots
        <5>1. who'[k] = Owner(k) /\ prev'[k] = ClockOf(Owner(k))
          BY <1>4, <4>1, <2>3, ValueType
        <5>2. who'[k] # 0
          BY <5>1, <4>1, <1>2, CpusFinite DEF Cpus
        <5>3. [idle |-> idle'[who'[k]], total |-> total'[who'[k]]] = prev'[k]
          BY <5>1, <1>1 DEF ClockOf
        <5>4. prev'[k].idle \in Int /\ prev'[k].total \in Int
          BY <1>0, <1>5
        <5> QED BY <5>2, <5>3, <5>4 DEF Ahead
      <4>2. CASE k \notin Slots
        BY <4>2, <1>4, <1>1, <2>3 DEF UsageInv, PrevInv, ClockOf
      <4> QED BY <4>1, <4>2
    <3> QED BY <2>1, <2>3, <3>1, <1>1 DEF PrevInv, ClockOf
  <2> QED BY <2>2, <2>3
<1>10. ASSUME NEW k \in off' PROVE k \in mixed'
  <2>1. k \in Slots /\ Diff(k).total # 0 /\ Diff(k).idle > Diff(k).total
    BY <1>10 DEF Sample
  <2>2. k \in Cpus
    BY <2>1, <1>2
  <2>3. ~ Ahead(Value(k), prev[k])
    <3> SUFFICES ASSUME Ahead(Value(k), prev[k]) PROVE FALSE
      OBVIOUS
    <3>1. prev[k].idle \in 0..(Word - 1) /\ prev[k].total \in 0..(Word - 1)
      BY <2>2, <1>3
    <3>2. Value(k).idle \in 0..(Word - 1) /\ Value(k).total \in 0..(Word - 1)
      BY <2>1, ValueType
    <3>3. Value(k).idle - prev[k].idle \in 0..(Word - 1) /\ Value(k).total - prev[k].total \in 0..(Word - 1)
      BY <3>1, <3>2, <1>0 DEF Ahead
    <3>4. Diff(k).idle = Value(k).idle - prev[k].idle /\ Diff(k).total = Value(k).total - prev[k].total
      BY <3>3, Remainder DEF Diff
    <3> QED BY <2>1, <3>3, <3>4, <1>0 DEF Ahead
  <2>4. version = 3
    BY <2>1, <2>3, ValueType DEF Slots, UsageInv, PrevInv
  <2>5. who[k] # 0
    <3> SUFFICES ASSUME who[k] = 0 PROVE FALSE
      OBVIOUS
    <3>1. prev[k] = [idle |-> 0, total |-> 0]
      BY <2>2, <2>4 DEF UsageInv, PrevInv
    <3>2. Value(k).idle \in 0..(Word - 1) /\ Value(k).total \in 0..(Word - 1) /\ Value(k).idle <= Value(k).total
      BY <2>1, ValueType
    <3> QED BY <2>3, <3>1, <3>2, <1>0 DEF Ahead
  <2>6. who[k] # Owner(k)
    BY <2>1, <2>2, <2>3, <2>4, <2>5, ValueType DEF UsageInv, PrevInv
  <2> QED BY <2>1, <2>5, <2>6 DEF Sample
<1>11. mixed' # {} => version' = 3
  <2> SUFFICES ASSUME version # 3 PROVE mixed' = {}
    BY <1>1
  <2>1. Slots = {1} /\ Owner(1) = 1 /\ who[1] \in {0, 1}
    BY DEF Slots, Owner, UsageInv, PrevInv
  <2> QED BY <2>1 DEF Sample
<1>12. OffNeedsMixed'
  BY <1>10, <1>11 DEF OffNeedsMixed
<1> QED BY <1>5, <1>6, <1>7, <1>8, <1>9, <1>12

\* Both clocks and figures start at zero.
LEMMA InitUsage == Init => UsageInv
<1> SUFFICES ASSUME Init PROVE UsageInv
  OBVIOUS
<1>0. Word \in Nat /\ 0 \in 0..(Word - 1) /\ MaxTicks \in Nat /\ 1 \in Cpus /\ NCpus * MaxTicks \in Nat
  <2>1. Word \in Nat /\ MaxTicks \in Nat /\ NCpus \in Nat /\ NCpus >= 1 /\ Word > 2 * NCpus * MaxTicks
    BY WordAssumption, CpusAssumption
  <2>2. NCpus * MaxTicks \in Nat /\ 2 * NCpus * MaxTicks = 2 * (NCpus * MaxTicks)
    BY <2>1
  <2> QED BY <2>1, <2>2 DEF Cpus
<1>1. TypeOK
  <2>1. 0 \in 0..MaxTicks /\ [idle |-> 0, total |-> 0] \in [idle : 0..(Word - 1), total : 0..(Word - 1)]
    BY <1>0
  <2>2. /\ total \in [Cpus -> 0..MaxTicks] /\ idle \in [Cpus -> 0..MaxTicks]
        /\ prev \in [Cpus -> [idle : 0..(Word - 1), total : 0..(Word - 1)]]
        /\ \A k \in Cpus : prev[k].idle <= prev[k].total
    BY <2>1 DEF Init
  <2>3. who \in [Cpus -> Cpus \cup {0}] /\ off = {} /\ mixed = {} /\ online = Cpus
    BY DEF Init
  <2> HIDE DEF Cpus
  <2>4. off \subseteq Cpus /\ mixed \subseteq Cpus /\ online \subseteq Cpus
    BY <2>3
  <2> QED BY <2>2, <2>3, <2>4 DEF Init, TypeOK
<1>2. Clock = [idle |-> 0, total |-> 0]
  BY SumZero DEF Clock, Init
<1>3. PrevInv
  BY <1>0, <1>2 DEF PrevInv, Init, Ahead
<1>4. OffNeedsMixed
  BY DEF OffNeedsMixed, Init
<1> QED BY <1>1, <1>3, <1>4 DEF UsageInv

\* A tick of a cpu, idle or not, keeps every clock ahead of what was read from it.
LEMMA TickKeeps ==
    ASSUME UsageInv, NEW c \in Cpus, Tick(c)
    PROVE  PrevInv'
<1>1. /\ total[c] < MaxTicks /\ total' = [total EXCEPT ![c] = @ + 1]
      /\ idle' = [idle EXCEPT ![c] = @ + 1] \/ idle' = idle
      /\ version' = version /\ prev' = prev /\ who' = who
  BY DEF Tick, System, figures
<1>2. idle \in [Cpus -> Int] /\ total \in [Cpus -> Int]
  BY WordAssumption DEF UsageInv, TypeOK
<1>3. \A d \in Cpus : idle'[d] <= total'[d]
  BY <1>1, <1>2 DEF UsageInv, PrevInv
<1>4. \A d \in Cpus : total'[d] \in Int /\ idle'[d] \in Int /\ idle'[d] >= idle[d]
                      /\ total'[d] - total[d] >= idle'[d] - idle[d]
  BY <1>1, <1>2
<1>5. ASSUME NEW k \in Cpus
      PROVE prev[k].idle \in Int /\ prev[k].total \in Int /\ who[k] \in Cpus \cup {0}
  BY WordAssumption DEF UsageInv, TypeOK
<1>6. CASE version # 3
  <2>0. 1 \in Cpus
    BY CpusAssumption DEF Cpus
  <2>1. /\ Sum(idle) \in Int /\ Sum(total) \in Int
        /\ Sum(total') = Sum(total) + 1
        /\ Sum(idle') = Sum(idle) + 1 \/ Sum(idle') = Sum(idle)
    <3>1. Sum(idle) \in Int /\ Sum(total) \in Int
      <4>1. PICK F \in [SUBSET Cpus -> Int] : Sum(idle) = F[Cpus]
        BY <1>2, SumFold
      <4>2. PICK G \in [SUBSET Cpus -> Int] : Sum(total) = G[Cpus]
        BY <1>2, SumFold
      <4> QED BY <4>1, <4>2
    <3>2. Sum(total') = Sum(total) + 1
      BY <1>1, <1>2, SumTick
    <3>3. Sum(idle') = Sum(idle) + 1 \/ Sum(idle') = Sum(idle)
      BY <1>1, <1>2, SumTick
    <3> QED BY <3>1, <3>2, <3>3
  <2>2. Clock' = [idle |-> Sum(idle'), total |-> Sum(total')]
    BY DEF Clock, Sum, MapThenSumSet, MapThenFoldSet
  <2>3. Ahead(Clock, prev[1]) /\ who[1] \in {0, 1}
    BY <1>6 DEF UsageInv, PrevInv
  <2>4. Ahead(Clock', prev[1])
    BY <2>0, <2>1, <2>2, <2>3, <1>5 DEF Ahead, Clock
  <2>5. Ahead(Clock, prev[1])'
    BY <2>4, <1>1 DEF Ahead
  <2> QED BY <1>1, <1>3, <1>6, <2>3, <2>5 DEF PrevInv
<1>7. CASE version = 3
  <2>1. ASSUME NEW k \in Cpus
        PROVE  IF who[k] = 0 THEN prev[k] = [idle |-> 0, total |-> 0]
               ELSE Ahead([idle |-> idle'[who[k]], total |-> total'[who[k]]], prev[k])
    <3>1. CASE who[k] = 0
      BY <3>1, <1>7 DEF UsageInv, PrevInv
    <3>2. CASE who[k] # 0
      <4>1. who[k] \in Cpus /\ Ahead(ClockOf(who[k]), prev[k])
        BY <3>2, <1>5, <1>7 DEF UsageInv, PrevInv
      <4>2. idle[who[k]] \in Int /\ total[who[k]] \in Int
        BY <4>1, <1>2
      <4>3. idle'[who[k]] \in Int /\ total'[who[k]] \in Int /\ idle'[who[k]] >= idle[who[k]]
            /\ total'[who[k]] - total[who[k]] >= idle'[who[k]] - idle[who[k]]
        BY <4>1, <1>4
      <4> QED BY <3>2, <4>1, <4>2, <4>3, <1>5 DEF Ahead, ClockOf
    <3> QED BY <3>1, <3>2
  <2> QED BY <2>1, <1>1, <1>3, <1>7 DEF PrevInv, ClockOf
<1> QED BY <1>6, <1>7

\* Whatever leaves the clocks and the figures alone keeps what they say.
LEMMA FiguresKept ==
    ASSUME UsageInv, UNCHANGED <<version, idle, total, figures>>
    PROVE  PrevInv' /\ OffNeedsMixed'
<1>1. version' = version /\ idle' = idle /\ total' = total /\ prev' = prev /\ who' = who
      /\ off' = off /\ mixed' = mixed
  BY DEF figures
<1>2. Clock' = Clock
  BY <1>1 DEF Clock, Sum, MapThenSumSet, MapThenFoldSet
<1> QED BY <1>1, <1>2 DEF UsageInv, PrevInv, OffNeedsMixed, Ahead, ClockOf

\* Samples, ticks, and the steps that do neither
LEMMA StepUsage == UsageInv /\ [Next]_vars => UsageInv'
<1> SUFFICES ASSUME UsageInv, [Next]_vars PROVE UsageInv'
  OBVIOUS
<1> USE DEF UsageInv
<1>1. CASE UNCHANGED vars
  BY <1>1, FiguresKept DEF vars, system, figures, timer, work, TypeOK
<1>2. ASSUME NEW c \in Cpus, Tick(c) PROVE UsageInv'
  <2>1. PrevInv'
    BY <1>2, TickKeeps
  <2>2. OffNeedsMixed'
    BY <1>2 DEF OffNeedsMixed, Tick, System, figures
  <2>3. total' \in [Cpus -> 0..MaxTicks] /\ idle' \in [Cpus -> 0..MaxTicks]
    <3>1. total[c] + 1 \in 0..MaxTicks /\ idle[c] + 1 \in 0..MaxTicks
      BY <1>2, WordAssumption DEF Tick, TypeOK, PrevInv
    <3> QED BY <3>1, <1>2 DEF Tick, TypeOK
  <2>4. TypeOK'
    BY <1>2, <2>3 DEF TypeOK, Tick, System, timer, work, figures
  <2> QED BY <2>1, <2>2, <2>4
<1>3. ASSUME NEW c \in Cpus, Plug(c) PROVE UsageInv'
  BY <1>3, FiguresKept DEF Plug, System, timer, work, figures, TypeOK
<1>4. CASE ~fault /\ ModuleInit
  BY <1>4, FiguresKept DEF ModuleInit, TypeOK, system, work, figures
<1>5. CASE ~fault /\ TimerExpire
  BY <1>5, FiguresKept DEF TimerExpire, TypeOK, system, work, figures
<1>6. CASE ~fault /\ CbRun
  <2>1. UNCHANGED <<version, system, mod, set_up, armed, working, barrier, prev_mem, raced>>
        /\ cb' = "arm" /\ fault' = (mod = "gone")
    BY <1>6 DEF CbRun
  <2>2. CASE version = 2
    <3>1. Sample /\ pending' = pending
      BY <1>6, <2>2 DEF CbRun
    <3> QED BY <2>1, <3>1, SampleKeeps DEF TypeOK, system
  <2>3. CASE version # 2
    <3>1. UNCHANGED figures /\ pending' = TRUE
      BY <1>6, <2>3 DEF CbRun
    <3> QED BY <2>1, <3>1, FiguresKept DEF TypeOK, system, figures
  <2> QED BY <2>2, <2>3
<1>7. CASE ~fault /\ CbArm
  BY <1>7, FiguresKept DEF CbArm, TypeOK, system, work, figures
<1>8. CASE ~fault /\ WorkStart
  BY <1>8, FiguresKept DEF WorkStart, TypeOK, system, timer, figures
<1>9. CASE ~fault /\ WorkEnd
  <2>1. UNCHANGED <<version, system, mod, set_up, timer, pending, prev_mem, raced>>
        /\ working' = FALSE /\ barrier' = IF barrier = "running" THEN "none" ELSE barrier
    BY <1>9 DEF WorkEnd
  <2>2. CASE NoSample
    BY <2>1, <2>2, FiguresKept DEF NoSample, TypeOK, system, timer, figures
  <2>3. CASE fault' = (mod = "gone" \/ prev_mem = "freed") /\ Sample
    BY <2>1, <2>3, SampleKeeps DEF TypeOK, system, timer
  <2> QED BY <2>2, <2>3, <1>9 DEF WorkEnd
<1>10. CASE ~fault /\ ExitDelTimer
  BY <1>10, FiguresKept DEF ExitDelTimer, TypeOK, system, work, figures
<1>11. CASE ~fault /\ ExitFlush
  BY <1>11, FiguresKept DEF ExitFlush, TypeOK, system, timer, figures
<1>12. CASE ~fault /\ ExitWait
  BY <1>12, FiguresKept DEF ExitWait, TypeOK, system, timer, work, figures
<1>13. CASE ~fault /\ ExitKfree
  BY <1>13, FiguresKept DEF ExitKfree, TypeOK, system, timer, work, figures
<1>14. CASE ~fault /\ ExitUnload
  BY <1>14, FiguresKept DEF ExitUnload, TypeOK, system, timer, work, figures
<1> QED
  BY <1>1, <1>2, <1>3, <1>4, <1>5, <1>6, <1>7, <1>8, <1>9, <1>10, <1>11, <1>12, <1>13, <1>14 DEF Next

\* The figures, the clocks and the control of all three versions stay in their types:
\* among them, prev_total is never below prev_idle.
THEOREM TypeCorrect == Spec => []TypeOK
<1>1. UsageInv => TypeOK
  BY DEF UsageInv
<1> QED
  BY InitUsage, StepUsage, <1>1, PTL DEF Spec

\* A usage outside 0..100 compares the times of two cpus, which only version 3 does:
\* for any number of cpus, any times and any order of going off- and online.
THEOREM UsageIsPercentage == Spec => []OffNeedsMixed
<1>1. UsageInv => OffNeedsMixed
  BY DEF UsageInv
<1> QED
  BY InitUsage, StepUsage, <1>1, PTL DEF Spec

\* The times an entry remembers move forward only, as long as it is for one cpu.
Advance(k) ==
    who[k] \in {0, who'[k]} => prev[k].idle <= prev'[k].idle /\ prev[k].total <= prev'[k].total
SamplesAdvance == [][\A k \in Cpus : Advance(k)]_vars

\* A sample never replaces the times of a cpu by earlier ones of the same cpu, with the
\* callbacks, the works and the changes of the online cpus in any order.
THEOREM SamplesMoveForward == Spec => SamplesAdvance
<1> DEFINE Step == \A k \in Cpus : Advance(k)
<1>1. ASSUME UsageInv, Sample, UNCHANGED <<version, system>>, NEW k \in Cpus PROVE Advance(k)
  <2>1. /\ prev'[k] = IF k \in Slots THEN Value(k) ELSE prev[k]
        /\ who'[k] = IF k \in Slots THEN Owner(k) ELSE who[k]
    BY <1>1 DEF Sample
  <2>2. prev[k].idle \in Nat /\ prev[k].total \in Nat
    BY <1>1, WordAssumption DEF UsageInv, TypeOK
  <2>3. CASE k \notin Slots
    BY <2>1, <2>2, <2>3 DEF Advance
  <2>4. CASE k \in Slots
    <3>1. /\ Value(k) = IF version = 3 THEN ClockOf(Owner(k)) ELSE Clock
          /\ Value(k).idle \in Nat /\ Value(k).total \in Nat
      BY <1>1, <2>4, ValueType, WordAssumption
    <3>2. CASE who[k] = 0 /\ version = 3
      <4>1. prev[k].idle = 0 /\ prev[k].total = 0
        BY <1>1, <3>2 DEF UsageInv, PrevInv
      <4> QED BY <2>1, <2>4, <3>1, <4>1 DEF Advance
    <3>3. CASE who[k] # 0 /\ version = 3
      <4> SUFFICES ASSUME who[k] = Owner(k) PROVE Advance(k)
        BY <2>1, <2>4, <3>3 DEF Advance
      <4>1. Ahead(Value(k), prev[k])
        BY <1>1, <3>1, <3>3 DEF UsageInv, PrevInv
      <4> QED BY <2>1, <2>2, <2>4, <3>1, <4>1 DEF Advance, Ahead
    <3>4. CASE version # 3
      <4>1. k = 1 /\ Ahead(Value(k), prev[k])
        BY <1>1, <2>4, <3>1, <3>4 DEF Slots, UsageInv, PrevInv
      <4> QED BY <2>1, <2>2, <2>4, <3>1, <4>1 DEF Advance, Ahead
    <3> QED BY <3>2, <3>3, <3>4
  <2> QED BY <2>3, <2>4
<1>2. ASSUME UsageInv, UNCHANGED figures PROVE Step
  <2>1. \A k \in Cpus : prev[k].idle \in Nat /\ prev[k].total \in Nat
    BY <1>2, WordAssumption DEF UsageInv, TypeOK
  <2> QED BY <1>2, <2>1 DEF Advance, figures
<1>3. ASSUME Next PROVE UNCHANGED figures \/ (Sample /\ UNCHANGED <<version, system>>)
  <2>1. ASSUME NEW c \in Cpus, Tick(c) \/ Plug(c) PROVE UNCHANGED figures
    BY <2>1 DEF Tick, Plug, System
  <2>2. CASE CbRun
    BY <2>2 DEF CbRun
  <2>3. CASE WorkEnd
    BY <2>3 DEF WorkEnd, NoSample
  <2>4. CASE ModuleInit \/ TimerExpire \/ CbArm \/ WorkStart
    BY <2>4 DEF ModuleInit, TimerExpire, CbArm, WorkStart
  <2>5. CASE ExitDelTimer \/ ExitFlush \/ ExitWait \/ ExitKfree \/ ExitUnload
    BY <2>5 DEF ExitDelTimer, ExitFlush, ExitWait, ExitKfree, ExitUnload
  <2> QED BY <1>3, <2>1, <2>2, <2>3, <2>4, <2>5 DEF Next
<1>4. UsageInv /\ [Next]_vars => [Step]_vars
  BY <1>1, <1>2, <1>3
<1>5. [](UsageInv) /\ [][Next]_vars => [][Step]_vars
  BY <1>4, PTL
<1>6. Spec => []UsageInv
  BY InitUsage, StepUsage, PTL DEF Spec
<1> QED
  BY <1>5, <1>6, PTL DEF Spec, SamplesAdvance
=============================================================================
