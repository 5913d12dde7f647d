----------------------- MODULE LivepatchShadow_proof -----------------------
(***************************************************************************)
(* Theorems about LivepatchShadow, for every set of addresses, bound of    *)
(* the counters and history of the two livepatches.                        *)
(***************************************************************************)
EXTENDS LivepatchShadow, TLAPS

\* Which dummies the works and the exit function hold, in each of their places.
WalkInv ==
    /\ alloc = "list_add" <=> new # None
    /\ new \notin dummy_list
    /\ cleanup = "free" <=> victim # None
    /\ cleanup = "free" => victim \in dummy_list
    /\ todo \subseteq dummy_list \ {victim}
    /\ ~Locked => todo = {}
    /\ mod \in {"cancel_cleanup", "residual", "gone"} => alloc = "off"
    /\ mod \in {"residual", "gone"} => cleanup = "off"
    /\ mod = "gone" => dummy_list = {}

\* The counted checks that a counter shows.
Counted(d) == IF SV_COUNTER[d] = None THEN 0 ELSE SV_COUNTER[d]

\* What the shadow variables know of an address with a dummy, and of one without.
LeakInv ==
    /\ saved \subseteq Dummies \cap SV_LEAK
    /\ SV_LEAK \ Dummies \subseteq behind.leak

CounterInv ==
    /\ \A d \in Dummies \ behind.counter : checks[d] = Counted(d)
    /\ \A d \in Addr \ Dummies : SV_COUNTER[d] # None => d \in behind.counter

ShadowInv == LeakInv /\ CounterInv

-----------------------------------------------------------------------------
(* Types                                                                   *)

\* The bounded increment of a counter.
LEMMA UpType == ASSUME NEW n \in Count PROVE Up(n) \in Count
BY ConstantsAssumption DEF ConstantsAssumption, Count, Up

\* What the effects of the three functions keep of the types.
LEMMA AllocType ==
    ASSUME TypeOK, NEW task, NEW d \in Addr, dummy_alloc(task, d)
    PROVE  /\ SV_LEAK' \subseteq Addr /\ saved' \subseteq Addr
           /\ SV_COUNTER' \in [Addr -> Count \cup {None}]
           /\ behind' \in [{"leak", "counter"} -> SUBSET Addr]
           /\ checks' \in [Addr -> Count]
<1>1. 0 \in Count
  BY ConstantsAssumption DEF ConstantsAssumption, Count
<1>2. SV_COUNTER' = SV_COUNTER /\ behind' = behind
  BY DEF dummy_alloc
<1>3. checks' = [checks EXCEPT ![d] = 0]
  BY DEF dummy_alloc
<1>4. SV_LEAK' \subseteq Addr /\ saved' \subseteq Addr
  BY DEF dummy_alloc, TypeOK
<1> QED
  BY <1>1, <1>2, <1>3, <1>4 DEF TypeOK

LEMMA CheckType ==
    ASSUME TypeOK, NEW task, NEW d \in Addr, dummy_check(task, d)
    PROVE  /\ SV_COUNTER' \in [Addr -> Count \cup {None}]
           /\ checks' \in [Addr -> Count]
<1>1. SV_COUNTER[d] # None => SV_COUNTER[d] \in Count
  BY DEF TypeOK
<1>2. 1 \in Count
  BY ConstantsAssumption DEF ConstantsAssumption, Count
<1>3. Up(checks[d]) \in Count
  BY UpType DEF TypeOK
<1>4. SV_COUNTER[d] # None => Up(SV_COUNTER[d]) \in Count
  BY <1>1, UpType
<1> QED
  BY <1>2, <1>3, <1>4 DEF dummy_check, TypeOK

LEMMA FreeType ==
    ASSUME TypeOK, NEW task, NEW d \in Addr, dummy_free(task, d)
    PROVE  /\ SV_LEAK' \subseteq Addr /\ saved' \subseteq Addr
           /\ SV_COUNTER' \in [Addr -> Count \cup {None}]
           /\ behind' \in [{"leak", "counter"} -> SUBSET Addr]
           /\ checks' \in [Addr -> Count]
<1>1. SV_LEAK' \subseteq Addr /\ saved' \subseteq Addr
  BY DEF dummy_free, TypeOK
<1>2. SV_COUNTER' \in [Addr -> Count \cup {None}]
  BY DEF dummy_free, TypeOK
<1>3. behind.leak \subseteq Addr /\ behind.counter \subseteq Addr
  BY DEF TypeOK
<1>4. behind' \in [{"leak", "counter"} -> SUBSET Addr]
  <2>1. PICK l \in SUBSET Addr, c \in SUBSET Addr : behind' = [leak |-> l, counter |-> c]
    <3> DEFINE l == IF Version(task) = "original" THEN behind.leak \cup (SV_LEAK \cap {d})
                                                  ELSE behind.leak \ {d}
    <3> DEFINE c == IF Version(task) = "fix2" THEN behind.counter \ {d}
                    ELSE behind.counter \cup {a \in {d} : SV_COUNTER[a] # None}
    <3>1. behind' = [leak |-> l, counter |-> c]
      BY DEF dummy_free
    <3>2. l \in SUBSET Addr /\ c \in SUBSET Addr
      BY <1>3
    <3> QED BY <3>1, <3>2
  <2> QED BY <2>1
<1>5. checks' = checks
  BY DEF dummy_free
<1> QED
  BY <1>1, <1>2, <1>4, <1>5 DEF TypeOK

\* A kworker that starts a work is switched or not.
LEMMA EnterType ==
    ASSUME TypeOK, NEW task \in Task, Enter(task)
    PROVE  switched' \subseteq Task /\ patch' = patch /\ top' = top
<1>1. CASE Transition
  BY <1>1 DEF Enter, TypeOK
<1>2. CASE ~Transition
  BY <1>2 DEF Enter, TypeOK
<1> QED BY <1>1, <1>2

LEMMA TypeStep == TypeOK /\ WalkInv /\ [Next]_vars => TypeOK'
<1> SUFFICES ASSUME TypeOK, WalkInv, [Next]_vars PROVE TypeOK'
  OBVIOUS
<1> USE DEF works, klp, shadow
<1>1. ASSUME NEW f \in Fix, Enable(f) PROVE TypeOK'
  BY <1>1 DEF Enable, TypeOK
<1>2. ASSUME NEW f \in Fix, Disable(f) PROVE TypeOK'
  BY <1>2 DEF Disable, TypeOK
<1>3. ASSUME NEW f \in Fix, Reverse(f) PROVE TypeOK'
  BY <1>3 DEF Reverse, TypeOK
<1>4. ASSUME NEW f \in Fix, Complete(f) PROVE TypeOK'
  BY <1>4 DEF Complete, TypeOK
<1>5. ASSUME NEW task \in Task, Switch(task) PROVE TypeOK'
  BY <1>5 DEF Switch, TypeOK
<1>6. CASE Fix1Exit
  BY <1>6 DEF Fix1Exit, TypeOK
<1>7. CASE Fix2Exit
  <2>1. SV_COUNTER' \in [Addr -> Count \cup {None}] /\ checks' \in [Addr -> Count]
    BY <1>7, ConstantsAssumption DEF ConstantsAssumption, Count, Fix2Exit
  <2>2. behind' \in [{"leak", "counter"} -> SUBSET Addr]
    BY <1>7 DEF Fix2Exit, TypeOK
  <2> QED BY <2>1, <2>2, <1>7 DEF Fix2Exit, TypeOK
<1>8. CASE AllocStart
  <2>1. switched' \subseteq Task /\ patch' = patch /\ top' = top
    BY <1>8, EnterType DEF AllocStart, Task
  <2> QED BY <2>1, <1>8 DEF AllocStart, TypeOK
<1>9. CASE AllocDummy
  <2>1. ASSUME NEW d \in Addr, dummy_alloc("alloc_worker", d), new' = d, alloc' = "list_add"
        PROVE  TypeOK'
    BY <2>1, <1>9, AllocType DEF AllocDummy, TypeOK
  <2>2. CASE alloc' = "off" /\ UNCHANGED <<new, shadow>>
    BY <2>2, <1>9 DEF AllocDummy, TypeOK
  <2> QED BY <2>1, <2>2, <1>9 DEF AllocDummy
<1>10. CASE AllocListAdd
  <2>1. dummy_list' \subseteq Addr
    BY <1>10 DEF AllocListAdd, WalkInv, TypeOK
  <2> QED BY <2>1, <1>10 DEF AllocListAdd, TypeOK
<1>11. CASE CleanupStart
  <2>1. switched' \subseteq Task /\ patch' = patch /\ top' = top
    BY <1>11, EnterType DEF CleanupStart, Task
  <2> QED BY <2>1, <1>11 DEF CleanupStart, TypeOK
<1>12. ASSUME NEW d \in Addr, CleanupCheck(d) PROVE TypeOK'
  <2>1. /\ SV_COUNTER' \in [Addr -> Count \cup {None}] /\ checks' \in [Addr -> Count]
        /\ UNCHANGED <<SV_LEAK, saved, behind>>
    BY <1>12, CheckType DEF CleanupCheck, dummy_check
  <2> QED BY <2>1, <1>12 DEF CleanupCheck, TypeOK
<1>13. CASE CleanupFree
  <2>1. victim \in Addr
    BY <1>13 DEF CleanupFree, WalkInv, TypeOK
  <2>2. dummy_free("cleanup_worker", victim)
    BY <1>13 DEF CleanupFree
  <2> QED BY <2>1, <2>2, FreeType, <1>13 DEF CleanupFree, TypeOK
<1>14. CASE CleanupEnd
  BY <1>14 DEF CleanupEnd, TypeOK
<1>15. ASSUME NEW d \in Addr, ExitFree(d) PROVE TypeOK'
  BY <1>15, FreeType DEF ExitFree, TypeOK
<1>16. CASE ModInit
  BY <1>16 DEF ModInit, TypeOK
<1>17. CASE ModExit
  BY <1>17 DEF ModExit, TypeOK
<1>18. CASE ExitCancelCleanup
  BY <1>18 DEF ExitCancelCleanup, TypeOK
<1>19. CASE ExitWalk
  <2>1. switched' \subseteq Task /\ patch' = patch /\ top' = top
    BY <1>19, EnterType DEF ExitWalk, Task
  <2> QED BY <2>1, <1>19 DEF ExitWalk, TypeOK
<1>20. CASE ExitEnd
  BY <1>20 DEF ExitEnd, TypeOK
<1>21. CASE UNCHANGED vars
  BY <1>21 DEF vars, TypeOK
<1> QED
  BY <1>1, <1>2, <1>3, <1>4, <1>5, <1>6, <1>7, <1>8, <1>9, <1>10, <1>11, <1>12,
     <1>13, <1>14, <1>15, <1>16, <1>17, <1>18, <1>19, <1>20, <1>21
  DEF Next, KlpNext, ModNext

-----------------------------------------------------------------------------
(* The list and the works                                                  *)

\* The steps of the livepatch core leave the works alone.
LEMMA KlpKeepsWorks == KlpNext => UNCHANGED works
BY DEF KlpNext, Enable, Disable, Reverse, Complete, Switch, Fix1Exit, Fix2Exit

LEMMA WalkStep == TypeOK /\ WalkInv /\ [Next]_vars => WalkInv'
<1> SUFFICES ASSUME TypeOK, WalkInv, [Next]_vars PROVE WalkInv'
  OBVIOUS
<1> USE ConstantsAssumption DEF ConstantsAssumption, works, klp, shadow, Locked
<1>1. CASE UNCHANGED works
  BY <1>1 DEF WalkInv
<1>2. CASE AllocStart
  BY <1>2 DEF AllocStart, WalkInv
<1>3. CASE AllocDummy
  <2>1. ASSUME NEW d \in Addr, dummy_alloc("alloc_worker", d), new' = d, alloc' = "list_add"
        PROVE  WalkInv'
    <3>1. d \notin dummy_list /\ d # None
      BY <2>1 DEF dummy_alloc, Dummies
    <3> QED BY <3>1, <2>1, <1>3 DEF AllocDummy, WalkInv
  <2>2. CASE alloc' = "off" /\ UNCHANGED <<new, shadow>>
    BY <2>2, <1>3 DEF AllocDummy, WalkInv
  <2> QED BY <2>1, <2>2, <1>3 DEF AllocDummy
<1>4. CASE AllocListAdd
  BY <1>4 DEF AllocListAdd, WalkInv, TypeOK
<1>5. CASE CleanupStart
  BY <1>5 DEF CleanupStart, WalkInv, TypeOK
<1>6. ASSUME NEW d \in Addr, CleanupCheck(d) PROVE WalkInv'
  BY <1>6 DEF CleanupCheck, WalkInv
<1>7. CASE CleanupFree
  BY <1>7 DEF CleanupFree, WalkInv, TypeOK
<1>8. CASE CleanupEnd
  BY <1>8 DEF CleanupEnd, WalkInv
<1>9. ASSUME NEW d \in Addr, ExitFree(d) PROVE WalkInv'
  BY <1>9 DEF ExitFree, WalkInv
<1>10. CASE ModInit
  BY <1>10 DEF ModInit, WalkInv
<1>11. CASE ModExit
  BY <1>11 DEF ModExit, WalkInv
<1>12. CASE ExitCancelCleanup
  BY <1>12 DEF ExitCancelCleanup, AllocCancelled, WalkInv
<1>13. CASE ExitWalk
  BY <1>13 DEF ExitWalk, WalkInv
<1>14. CASE ExitEnd
  BY <1>14 DEF ExitEnd, WalkInv
<1> QED
  BY <1>1, <1>2, <1>3, <1>4, <1>5, <1>6, <1>7, <1>8, <1>9, <1>10, <1>11, <1>12,
     <1>13, <1>14, KlpKeepsWorks
  DEF Next, ModNext, vars

\* The types and the places of the works support each other.
LEMMA TypeAndWalk == Spec => [](TypeOK /\ WalkInv)
<1>1. Init => TypeOK
  BY ConstantsAssumption DEF ConstantsAssumption, Init, TypeOK, Count, Fix
<1>2. Init => WalkInv
  BY DEF Init, WalkInv
<1> QED
  BY <1>1, <1>2, TypeStep, WalkStep, PTL DEF Spec

\* TypeOK: every variable keeps its type, the bounded counters included, through
\* all steps of the works, the exit functions and the livepatch core.
THEOREM TypeCorrect == Spec => []TypeOK
BY TypeAndWalk, PTL

\* WalkMeetsLiveDummies: for every set of addresses, neither walk of the cleanup
\* work holds a dummy that has been freed; the walk of the exit function starts
\* after both works are over.
THEOREM NoDummyIsVisitedFreed == Spec => []WalkMeetsLiveDummies
<1>1. WalkInv => WalkMeetsLiveDummies
  BY DEF WalkInv, WalkMeetsLiveDummies
<1> QED BY <1>1, TypeAndWalk, PTL

\* ExitLeavesNothing: when the exit function has returned, no work is scheduled
\* or running, and no dummy is left.
THEOREM ExitIsComplete == Spec => []ExitLeavesNothing
<1>1. WalkInv => ExitLeavesNothing
  BY DEF WalkInv, ExitLeavesNothing, Dummies
<1> QED BY <1>1, TypeAndWalk, PTL

-----------------------------------------------------------------------------
(* The shadow variables                                                    *)

\* A new dummy starts uncounted; an old counter at its address is known to have
\* been left behind.
LEMMA AllocShadow ==
    ASSUME TypeOK, ShadowInv, NEW task, NEW d \in Addr, dummy_alloc(task, d),
           Dummies' = Dummies \cup {d}
    PROVE  ShadowInv'
<1>1. LeakInv'
  BY DEF ShadowInv, LeakInv, dummy_alloc
<1>2. d \notin Dummies /\ SV_COUNTER' = SV_COUNTER /\ behind' = behind
      /\ checks' = [checks EXCEPT ![d] = 0]
  BY DEF dummy_alloc
<1>3. CounterInv'
  BY <1>2 DEF ShadowInv, CounterInv, Counted, TypeOK
<1> QED BY <1>1, <1>3 DEF ShadowInv

\* A counted check moves the counter and its history together.
LEMMA CheckShadow ==
    ASSUME TypeOK, ShadowInv, NEW task, NEW d \in Addr, d \in Dummies,
           dummy_check(task, d), Dummies' = Dummies
    PROVE  ShadowInv'
<1>1. SV_LEAK' = SV_LEAK /\ saved' = saved /\ behind' = behind
  BY DEF dummy_check
<1>2. LeakInv'
  BY <1>1 DEF ShadowInv, LeakInv
<1>3. Up(0) = 1
  BY ConstantsAssumption DEF ConstantsAssumption, Up
<1>4. CASE SV_COUNTER' = SV_COUNTER /\ checks' = checks
  <2>1. \A e \in Dummies' \ behind'.counter : checks'[e] = Counted(e)'
    BY <1>1, <1>4 DEF ShadowInv, CounterInv, Counted
  <2>2. \A e \in Addr \ Dummies' : SV_COUNTER'[e] # None => e \in behind'.counter
    BY <1>1, <1>4 DEF ShadowInv, CounterInv
  <2>3. CounterInv'
    BY <2>1, <2>2 DEF CounterInv
  <2> QED BY <1>2, <2>3 DEF ShadowInv
<1>5. CASE /\ SV_COUNTER' = [SV_COUNTER EXCEPT ![d] = IF @ = None THEN 1 ELSE Up(@)]
           /\ checks' = [checks EXCEPT ![d] = Up(@)]
  <2>1. SV_COUNTER'[d] # None
    <3>1. SV_COUNTER[d] # None => SV_COUNTER[d] \in Count
      BY DEF TypeOK
    <3>2. SV_COUNTER'[d] \in Count
      <4>1. 1 \in Count
        BY ConstantsAssumption DEF ConstantsAssumption, Count
      <4>2. SV_COUNTER[d] # None => Up(SV_COUNTER[d]) \in Count
        BY <3>1, UpType
      <4> QED BY <1>5, <4>1, <4>2 DEF TypeOK
    <3>3. None \notin Count
      BY ConstantsAssumption DEF ConstantsAssumption, Count
    <3> QED BY <3>2, <3>3
  <2>2. d \notin behind.counter => checks'[d] = Counted(d)'
    BY <1>3, <1>5, <2>1 DEF ShadowInv, CounterInv, Counted, TypeOK
  <2>3. \A e \in Addr \ {d} : SV_COUNTER'[e] = SV_COUNTER[e] /\ checks'[e] = checks[e]
    BY <1>5 DEF TypeOK
  <2>4. Dummies \subseteq Addr
    BY DEF Dummies, TypeOK
  <2>5. ASSUME NEW e \in Dummies \ behind.counter PROVE checks'[e] = Counted(e)'
    BY <2>2, <2>3, <2>4, <2>5 DEF ShadowInv, CounterInv, Counted
  <2>6. ASSUME NEW e \in Addr \ Dummies, SV_COUNTER'[e] # None PROVE e \in behind.counter
    BY <2>3, <2>6 DEF ShadowInv, CounterInv
  <2>7. CounterInv'
    BY <1>1, <2>5, <2>6 DEF CounterInv
  <2> QED BY <1>2, <2>7 DEF ShadowInv
<1> QED BY <1>2, <1>4, <1>5 DEF ShadowInv, dummy_check

\* Each version of dummy_free either detaches a shadow variable or is recorded to
\* have left it behind.
LEMMA FreeShadow ==
    ASSUME TypeOK, ShadowInv, NEW task, NEW d \in Addr, d \in Dummies,
           dummy_free(task, d), Dummies' = Dummies \ {d}
    PROVE  ShadowInv'
<1>1. Version(task) \in {"fix1", "fix2", "original"}
  BY DEF Version, Other, TypeOK, Fix
<1>2. /\ saved' = saved \ {d} /\ checks' = checks
      /\ Version(task) = "original" => /\ SV_LEAK' = SV_LEAK
                                      /\ behind'.leak = behind.leak \cup (SV_LEAK \cap {d})
      /\ Version(task) # "original" => /\ SV_LEAK' = SV_LEAK \ {d}
                                      /\ behind'.leak = behind.leak \ {d}
  BY <1>1 DEF dummy_free, Detached
<1>3. /\ Version(task) = "fix2" => /\ SV_COUNTER' = [SV_COUNTER EXCEPT ![d] = None]
                                   /\ behind'.counter = behind.counter \ {d}
      /\ Version(task) # "fix2" =>
             /\ SV_COUNTER' = SV_COUNTER
             /\ behind'.counter = behind.counter \cup {a \in {d} : SV_COUNTER[a] # None}
  BY <1>1 DEF dummy_free, Detached
<1>4. LeakInv'
  <2>1. CASE Version(task) = "original"
    BY <1>2, <2>1 DEF ShadowInv, LeakInv
  <2>2. CASE Version(task) # "original"
    BY <1>2, <2>2 DEF ShadowInv, LeakInv
  <2> QED BY <2>1, <2>2
<1>5. CounterInv'
  <2>1. CASE Version(task) = "fix2"
    BY <1>2, <1>3, <2>1 DEF ShadowInv, CounterInv, Counted, Dummies, TypeOK
  <2>2. CASE Version(task) # "fix2"
    BY <1>2, <1>3, <2>2 DEF ShadowInv, CounterInv, Counted
  <2> QED BY <2>1, <2>2
<1> QED BY <1>4, <1>5 DEF ShadowInv

LEMMA ShadowStep == TypeOK /\ WalkInv /\ ShadowInv /\ [Next]_vars => ShadowInv'
<1> SUFFICES ASSUME TypeOK, WalkInv, ShadowInv, [Next]_vars PROVE ShadowInv'
  OBVIOUS
<1> USE ConstantsAssumption DEF ConstantsAssumption, works, klp, shadow
<1>1. CASE UNCHANGED shadow /\ Dummies' = Dummies
  BY <1>1 DEF ShadowInv, LeakInv, CounterInv, Counted
<1>2. CASE Fix1Exit
  <2>1. Dummies' = Dummies
    BY <1>2 DEF Fix1Exit, Dummies
  <2>2. behind'.leak = {} /\ behind'.counter = behind.counter
    BY <1>2 DEF Fix1Exit, TypeOK
  <2> QED BY <1>2, <2>1, <2>2 DEF Fix1Exit, ShadowInv, LeakInv, CounterInv, Counted
<1>3. CASE Fix2Exit
  <2>1. Dummies' = Dummies
    BY <1>3 DEF Fix2Exit, Dummies
  <2>2. behind'.counter = {} /\ behind'.leak = behind.leak
    BY <1>3 DEF Fix2Exit, TypeOK
  <2>3. Dummies \subseteq Addr
    BY DEF Dummies, TypeOK
  <2> QED BY <1>3, <2>1, <2>2, <2>3 DEF Fix2Exit, ShadowInv, LeakInv, CounterInv, Counted
<1>4. CASE AllocDummy
  <2>1. ASSUME NEW d \in Addr, dummy_alloc("alloc_worker", d), new' = d
        PROVE  ShadowInv'
    <3>1. new = None /\ dummy_list' = dummy_list
      BY <1>4 DEF AllocDummy, WalkInv
    <3>2. Dummies' = Dummies \cup {d}
      BY <2>1, <3>1 DEF Dummies
    <3> QED BY <2>1, <3>2, AllocShadow
  <2>2. CASE UNCHANGED <<new, shadow>>
    <3>1. Dummies' = Dummies
      BY <1>4, <2>2 DEF AllocDummy, Dummies
    <3> QED BY <1>1, <2>2, <3>1
  <2> QED BY <1>4, <2>1, <2>2 DEF AllocDummy
<1>5. CASE AllocListAdd
  <2>1. Dummies' = Dummies
    BY <1>5 DEF AllocListAdd, Dummies, WalkInv
  <2> QED BY <1>1, <1>5, <2>1 DEF AllocListAdd
<1>6. ASSUME NEW d \in Addr, CleanupCheck(d) PROVE ShadowInv'
  <2>1. d \in Dummies /\ Dummies' = Dummies
    BY <1>6 DEF CleanupCheck, WalkInv, Dummies
  <2> QED BY <1>6, <2>1, CheckShadow DEF CleanupCheck
<1>7. CASE CleanupFree
  <2>1. victim \in Addr /\ victim \in Dummies /\ Dummies' = Dummies \ {victim}
    BY <1>7 DEF CleanupFree, WalkInv, Dummies, TypeOK
  <2>2. dummy_free("cleanup_worker", victim)
    BY <1>7 DEF CleanupFree
  <2> QED BY <2>1, <2>2, FreeShadow
<1>8. ASSUME NEW d \in Addr, ExitFree(d) PROVE ShadowInv'
  <2>1. d \in Dummies /\ Dummies' = Dummies \ {d}
    BY <1>8 DEF ExitFree, WalkInv, Dummies
  <2> QED BY <1>8, <2>1, FreeShadow DEF ExitFree
<1>9. CASE \/ AllocStart \/ CleanupStart \/ CleanupEnd \/ ModInit \/ ModExit
           \/ ExitCancelCleanup \/ ExitWalk \/ ExitEnd \/ UNCHANGED vars
  <2>1. UNCHANGED shadow /\ UNCHANGED <<new, dummy_list>>
    BY <1>9 DEF AllocStart, CleanupStart, CleanupEnd, ModInit, ModExit,
                ExitCancelCleanup, ExitWalk, ExitEnd, vars
  <2> QED BY <1>1, <2>1 DEF Dummies
<1>10. ASSUME KlpNext, ~Fix1Exit, ~Fix2Exit PROVE ShadowInv'
  <2>1. UNCHANGED shadow /\ UNCHANGED <<new, dummy_list>>
    BY <1>10 DEF KlpNext, Enable, Disable, Reverse, Complete, Switch
  <2> QED BY <1>1, <2>1 DEF Dummies
<1> QED
  BY <1>2, <1>3, <1>4, <1>5, <1>6, <1>7, <1>8, <1>9, <1>10 DEF Next, ModNext

LEMMA ShadowsKnown == Spec => [](TypeOK /\ ShadowInv)
<1>1. Init => ShadowInv
  BY DEF Init, ShadowInv, LeakInv, CounterInv, Counted, Dummies
<1> QED
  BY <1>1, TypeAndWalk, ShadowStep, PTL DEF Spec

\* LeakKept: fix1's dummies carry their leak until they are freed or fix1 is
\* removed, whatever fix2 does and however addresses are reused.
THEOREM LeaksAreKept == Spec => []LeakKept
<1>1. ShadowInv => LeakKept
  BY DEF ShadowInv, LeakInv, LeakKept
<1> QED BY <1>1, ShadowsKnown, PTL

\* LeakOutlivesOnlyUnpatchedFree: a saved leak outlives its dummy only through
\* the original dummy_free, never through that of fix1 or fix2.
THEOREM OnlyUnpatchedFreeLosesLeaks == Spec => []LeakOutlivesOnlyUnpatchedFree
<1>1. ShadowInv => LeakOutlivesOnlyUnpatchedFree
  BY DEF ShadowInv, LeakInv, LeakOutlivesOnlyUnpatchedFree
<1> QED BY <1>1, ShadowsKnown, PTL

\* CounterCountsThisDummy: the counter of a dummy is the number of its own counted
\* checks, unless an earlier one at its address was freed without fix2.
THEOREM CountersAreExact == Spec => []CounterCountsThisDummy
<1>1. ShadowInv => CounterCountsThisDummy
  BY DEF ShadowInv, CounterInv, Counted, CounterCountsThisDummy
<1> QED BY <1>1, ShadowsKnown, PTL

\* The allocator of a live module stops only without memory, or when klp_shadow_alloc
\* meets the leak of an earlier dummy that the original dummy_free has freed.
StopsForStaleLeakOnly ==
    [][mod' = "live" /\ alloc # "off" /\ alloc' = "off"
           => MayFail \/ (Patched("alloc_worker", "fix1") /\ SV_LEAK \cap behind.leak # {})]_vars

\* What AllocatorKeepsGoing fails for is the only way to stop: in no order of the two
\* livepatches, their transitions and a removal is there another one.
THEOREM AllocatorStops == Spec => StopsForStaleLeakOnly
<1>1. TypeOK /\ ShadowInv /\ [Next]_vars =>
        (mod' = "live" /\ alloc # "off" /\ alloc' = "off"
           => MayFail \/ (Patched("alloc_worker", "fix1") /\ SV_LEAK \cap behind.leak # {}))
  <2> SUFFICES ASSUME TypeOK, ShadowInv, [Next]_vars, mod' = "live", alloc # "off", alloc' = "off"
               PROVE  MayFail \/ (Patched("alloc_worker", "fix1") /\ SV_LEAK \cap behind.leak # {})
    OBVIOUS
  <2>1. CASE AllocDummy
    <3>1. dummy_alloc_fails("alloc_worker")
      BY <2>1 DEF AllocDummy
    <3>2. SV_LEAK \ Dummies \subseteq behind.leak
      BY DEF ShadowInv, LeakInv
    <3> QED BY <3>1, <3>2 DEF dummy_alloc_fails
  <2>2. CASE AllocListAdd
    BY <2>2 DEF AllocListAdd
  <2>3. CASE AllocStart
    BY <2>3 DEF AllocStart
  <2>4. CASE ModInit \/ ModExit \/ ExitCancelCleanup \/ ExitWalk \/ ExitEnd
    BY <2>4 DEF ModInit, ModExit, ExitCancelCleanup, ExitWalk, ExitEnd
  <2>5. CASE \/ CleanupStart \/ CleanupFree \/ CleanupEnd
             \/ \E d \in Addr : CleanupCheck(d) \/ ExitFree(d)
    BY <2>5 DEF CleanupStart, CleanupFree, CleanupEnd, CleanupCheck, ExitFree
  <2>6. CASE KlpNext
    BY <2>6, KlpKeepsWorks DEF works
  <2>7. CASE UNCHANGED vars
    BY <2>7 DEF vars, works
  <2> QED BY <2>1, <2>2, <2>3, <2>4, <2>5, <2>6, <2>7 DEF Next, ModNext
<1> QED BY <1>1, ShadowsKnown, PTL DEF Spec, StopsForStaleLeakOnly
=============================================================================
