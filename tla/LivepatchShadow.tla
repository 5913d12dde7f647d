-------------------------- MODULE LivepatchShadow --------------------------
(***************************************************************************)
(* livepatch-shadow-mod.c and its two livepatches.  The module's allocator *)
(* work makes dummies and loses a piece of memory ("leak") with each; its  *)
(* cleanup work frees the expired ones.  livepatch-shadow-fix1.c replaces  *)
(* dummy_alloc and dummy_free and saves the leak in a shadow variable;     *)
(* livepatch-shadow-fix2.c replaces dummy_check and dummy_free, counts the *)
(* checks in a second shadow variable and keeps fix1's repair.             *)
(*                                                                         *)
(* Shadow variables are keyed by the address of the dummy, which kzalloc   *)
(* hands out again after kfree.  During the transition of a livepatch each *)
(* task calls the old or the new functions, as it has been switched yet.   *)
(* The walk over the list takes its dummies in any order, and a check may  *)
(* find any of them expired.                                               *)
(***************************************************************************)
EXTENDS Integers

CONSTANTS
    Addr,       \* the addresses kzalloc may return for a dummy
    None,       \* no dummy, no counter
    MaxCount,   \* bound of the check counter of a dummy: it stays there
    MayFail     \* kzalloc and the shadow variables may run out of memory

ASSUME ConstantsAssumption ==
    /\ MaxCount \in Nat \ {0}
    /\ MayFail \in BOOLEAN
    /\ None \notin Addr \cup Nat

VARIABLES
    mod,       \* livepatch_shadow_mod: live, a step of its exit function, gone
    alloc,     \* alloc_dwork: pending, off, or where alloc_work_func is
    cleanup,   \* cleanup_dwork, likewise
    new,       \* the dummy alloc_work_func holds and has not listed yet
    todo,      \* the dummies a walk over dummy_list has still to visit
    victim,    \* the expired dummy cleanup_work_func is about to free
    dummy_list,
    patch,     \* the state of each livepatch
    top,       \* the one enabled last: its functions are looked up first
    switched,  \* the tasks that run the new functions of the patch in transition
    SV_LEAK,   \* the addresses with a leak saved in a shadow variable
    SV_COUNTER,\* the check counter of each address, or None
    saved,     \* history: the dummies whose leak the repaired dummy_alloc saved,
               \* as long as fix1 has not been removed since
    behind,    \* history: addresses freed with a shadow variable by a dummy_free
               \* that does not know it, for each of the two variables
    checks     \* history: the counted checks of each dummy since it was made

works  == <<mod, alloc, cleanup, new, todo, victim, dummy_list>>
klp    == <<patch, top, switched>>
shadow == <<SV_LEAK, SV_COUNTER, saved, behind, checks>>
vars   == <<works, klp, shadow>>

Fix     == {"fix1", "fix2"}
Task    == {"alloc_worker", "cleanup_worker", "rmmod"}
Count   == 0..MaxCount
Dummies == dummy_list \cup ({new} \ {None})

TypeOK ==
    /\ mod \in {"live", "cancel_alloc", "cancel_cleanup", "residual", "gone"}
    /\ alloc \in {"pending", "off", "dummy_alloc", "list_add"}
    /\ cleanup \in {"pending", "off", "check", "free"}
    /\ new \in Addr \cup {None}
    /\ todo \subseteq Addr
    /\ victim \in Addr \cup {None}
    /\ dummy_list \subseteq Addr
    /\ patch \in [Fix -> {"unloaded", "enabling", "enabled", "disabling", "disabled"}]
    /\ top \in Fix
    /\ switched \subseteq Task
    /\ SV_LEAK \subseteq Addr
    /\ SV_COUNTER \in [Addr -> Count \cup {None}]
    /\ saved \subseteq Addr
    /\ behind \in [{"leak", "counter"} -> SUBSET Addr]
    /\ checks \in [Addr -> Count]

\* livepatch_shadow_mod_init has scheduled both works.
Init ==
    /\ mod = "live"
    /\ alloc = "pending" /\ cleanup = "pending"
    /\ new = None /\ victim = None
    /\ todo = {} /\ dummy_list = {}
    /\ patch = [f \in Fix |-> "unloaded"]
    /\ top = "fix1"
    /\ switched = {}
    /\ SV_LEAK = {}
    /\ SV_COUNTER = [d \in Addr |-> None]
    /\ saved = {}
    /\ behind = [v \in {"leak", "counter"} |-> {}]
    /\ checks = [d \in Addr |-> 0]

-----------------------------------------------------------------------------
(* The livepatch core (external)                                           *)

InTransition(f) == patch[f] \in {"enabling", "disabling"}
Transition      == \E f \in Fix : InTransition(f)

\* The tasks in the middle of a work or of the exit function.  An idle kworker
\* is switched out of sight: a work that starts gets either kind of kworker.
Busy == {task \in Task : \/ task = "alloc_worker" /\ alloc \notin {"pending", "off"}
                         \/ task = "cleanup_worker" /\ cleanup \notin {"pending", "off"}
                         \/ task = "rmmod" /\ mod = "residual"}

\* klp_enable_patch, called by the init functions; one transition at a time
Enable(f) ==
    /\ patch[f] = "unloaded" /\ ~Transition
    /\ patch' = [patch EXCEPT ![f] = "enabling"]
    /\ top' = f
    /\ switched' = {}
    /\ UNCHANGED <<works, shadow>>

\* echo 0 > enabled
Disable(f) ==
    /\ patch[f] = "enabled" /\ ~Transition
    /\ patch' = [patch EXCEPT ![f] = "disabling"]
    /\ switched' = Task
    /\ UNCHANGED <<works, top, shadow>>

\* echo 0 or 1 > enabled while the opposite transition is under way
Reverse(f) ==
    /\ InTransition(f)
    /\ patch' = [patch EXCEPT ![f] = IF @ = "enabling" THEN "disabling" ELSE "enabling"]
    /\ UNCHANGED <<works, top, switched, shadow>>

\* A task outside of the replaced functions is switched to the target.
Switch(task) ==
    /\ Transition /\ task \in Busy
    /\ switched' = IF \E f \in Fix : patch[f] = "enabling"
                   THEN switched \cup {task} ELSE switched \ {task}
    /\ UNCHANGED <<works, patch, top, shadow>>

\* When every task is, the transition is over.
Complete(f) ==
    /\ \/ patch[f] = "enabling" /\ Busy \subseteq switched
       \/ patch[f] = "disabling" /\ Busy \cap switched = {}
    /\ patch' = [patch EXCEPT ![f] = IF @ = "enabling" THEN "enabled" ELSE "disabled"]
    /\ switched' = {}
    /\ UNCHANGED <<works, top, shadow>>

\* A task enters the module: in a transition it may be switched already or not.
Enter(task) ==
    /\ UNCHANGED <<patch, top>>
    /\ IF Transition THEN switched' \in {switched \cup {task}, switched \ {task}}
                     ELSE UNCHANGED switched

\* Does a task call the functions of f?
Patched(task, f) ==
    \/ patch[f] = "enabled"
    \/ InTransition(f) /\ task \in switched

Other(f) == IF f = "fix1" THEN "fix2" ELSE "fix1"

\* dummy_free, which both patches replace: the version of the top patch if the
\* task calls that one, else the other's, else the original.
Version(task) ==
    IF Patched(task, top) THEN top
    ELSE IF Patched(task, Other(top)) THEN Other(top)
    ELSE "original"

-----------------------------------------------------------------------------
(* The exit functions of the livepatches                                   *)

\* rmmod of a livepatch is refused before the transition is over.
Removable(f) == patch[f] = "disabled"

\* livepatch_shadow_fix1_exit: klp_shadow_free_all(SV_LEAK, dtor)
Fix1Exit ==
    /\ Removable("fix1")
    /\ patch' = [patch EXCEPT !["fix1"] = "unloaded"]
    /\ SV_LEAK' = {}
    /\ saved' = {}
    /\ behind' = [behind EXCEPT !["leak"] = {}]
    /\ UNCHANGED <<works, top, switched, SV_COUNTER, checks>>

\* livepatch_shadow_fix2_exit: klp_shadow_free_all(SV_COUNTER, NULL).  A
\* variant that cleans up the leaks too, as it knows their destructor:
Fix2Exit_frees_leaks ==
    /\ Removable("fix2")
    /\ patch' = [patch EXCEPT !["fix2"] = "unloaded"]
    /\ SV_COUNTER' = [d \in Addr |-> None]
    /\ SV_LEAK' = {}
    /\ behind' = [v \in {"leak", "counter"} |-> {}]
    /\ checks' = [d \in Addr |-> 0]
    /\ UNCHANGED <<works, top, switched, saved>>

Fix2Exit ==
    /\ Removable("fix2")
    /\ patch' = [patch EXCEPT !["fix2"] = "unloaded"]
    /\ SV_COUNTER' = [d \in Addr |-> None]
    /\ behind' = [behind EXCEPT !["counter"] = {}]
    /\ checks' = [d \in Addr |-> 0]
    /\ UNCHANGED <<works, top, switched, SV_LEAK, saved>>

-----------------------------------------------------------------------------
(* The three functions, in the version a task calls                        *)

\* It returns a dummy at an address that is free.  klp_shadow_alloc refuses a
\* second shadow variable of an address.
dummy_alloc(task, d) ==
    /\ d \notin Dummies
    /\ IF Patched(task, "fix1")
       THEN /\ d \notin SV_LEAK
            /\ SV_LEAK' = SV_LEAK \cup {d}
            /\ saved' = saved \cup {d}
       ELSE UNCHANGED <<SV_LEAK, saved>>
    /\ checks' = [checks EXCEPT ![d] = 0]
    /\ UNCHANGED <<SV_COUNTER, behind>>

\* It returns NULL without memory, or when the shadow variable is refused.
dummy_alloc_fails(task) ==
    \/ MayFail
    \/ Patched(task, "fix1") /\ SV_LEAK \ Dummies # {}

Up_without_bound(n) == n + 1
Up(n) == IF n < MaxCount THEN n + 1 ELSE n

\* fix2 attaches a counter to a dummy without one, which GFP_NOWAIT may refuse.
dummy_check(task, d) ==
    /\ \/ /\ Patched(task, "fix2")
          /\ SV_COUNTER' = [SV_COUNTER EXCEPT ![d] = IF @ = None THEN 1 ELSE Up(@)]
          /\ checks' = [checks EXCEPT ![d] = Up(@)]
       \/ /\ Patched(task, "fix2") => MayFail /\ SV_COUNTER[d] = None
          /\ UNCHANGED <<SV_COUNTER, checks>>
    /\ UNCHANGED <<SV_LEAK, saved, behind>>

\* The shadow variables each version of dummy_free detaches; fix2's copies the
\* repair of fix1.  A fix2 that did not, and one that kept its counter:
Detached_not_copied(version) ==
    CASE version = "fix1" -> {"leak"} [] version = "fix2" -> {"counter"} [] OTHER -> {}
Detached_without_counter(version) == IF version = "original" THEN {} ELSE {"leak"}
Detached(version) ==
    CASE version = "fix1" -> {"leak"}
      [] version = "fix2" -> {"leak", "counter"}
      [] OTHER            -> {}

dummy_free(task, d) ==
    LET version == Version(task)
        gone    == Detached(version)
    IN
    /\ SV_LEAK' = IF "leak" \in gone THEN SV_LEAK \ {d} ELSE SV_LEAK
    /\ SV_COUNTER' = IF "counter" \in gone THEN [SV_COUNTER EXCEPT ![d] = None]
                                           ELSE SV_COUNTER
    /\ saved' = saved \ {d}
    /\ behind' = [leak    |-> IF version = "original" THEN behind.leak \cup (SV_LEAK \cap {d})
                                                      ELSE behind.leak \ {d},
                  counter |-> IF version = "fix2" THEN behind.counter \ {d}
                              ELSE behind.counter \cup {a \in {d} : SV_COUNTER[a] # None}]
    /\ UNCHANGED checks

-----------------------------------------------------------------------------
(* alloc_work_func                                                         *)

\* dummy_list_mutex is held by the walk of cleanup_work_func.
Locked == cleanup \in {"check", "free"}

AllocStart ==
    /\ alloc = "pending"
    /\ alloc' = "dummy_alloc"
    /\ Enter("alloc_worker")
    /\ UNCHANGED <<mod, cleanup, new, todo, victim, dummy_list, shadow>>

\* Without a dummy it returns, and the work is not scheduled again.
AllocDummy ==
    /\ alloc = "dummy_alloc"
    /\ \/ \E d \in Addr :
              /\ dummy_alloc("alloc_worker", d)
              /\ new' = d
              /\ alloc' = "list_add"
       \/ /\ dummy_alloc_fails("alloc_worker")
          /\ alloc' = "off"
          /\ UNCHANGED <<new, shadow>>
    /\ UNCHANGED <<mod, cleanup, todo, victim, dummy_list, klp>>

\* schedule_delayed_work does nothing while the work is being cancelled.
AllocListAdd ==
    /\ alloc = "list_add" /\ ~Locked
    /\ dummy_list' = dummy_list \cup {new}
    /\ new' = None
    /\ alloc' = IF mod = "live" THEN "pending" ELSE "off"
    /\ UNCHANGED <<mod, cleanup, todo, victim, klp, shadow>>

-----------------------------------------------------------------------------
(* cleanup_work_func                                                       *)

CleanupStart ==
    /\ cleanup = "pending"
    /\ cleanup' = "check"
    /\ todo' = dummy_list
    /\ Enter("cleanup_worker")
    /\ UNCHANGED <<mod, alloc, new, victim, dummy_list, shadow>>

\* One round of the walk up to the return of dummy_check, and the rest of it
\* for a dummy that has expired.  A walk with list_for_each_entry, which goes on
\* from the dummy it has freed:
CleanupCheck_not_safe(d) ==
    /\ cleanup = "check" /\ d \in todo
    /\ dummy_check("cleanup_worker", d)
    /\ \/ cleanup' = "free" /\ victim' = d /\ UNCHANGED todo
       \/ todo' = todo \ {d} /\ UNCHANGED <<cleanup, victim>>
    /\ UNCHANGED <<mod, alloc, new, dummy_list, klp>>

CleanupCheck(d) ==
    /\ cleanup = "check" /\ d \in todo
    /\ dummy_check("cleanup_worker", d)
    /\ todo' = todo \ {d}
    /\ \/ cleanup' = "free" /\ victim' = d
       \/ UNCHANGED <<cleanup, victim>>
    /\ UNCHANGED <<mod, alloc, new, dummy_list, klp>>

CleanupFree ==
    /\ cleanup = "free"
    /\ dummy_list' = dummy_list \ {victim}
    /\ dummy_free("cleanup_worker", victim)
    /\ victim' = None
    /\ cleanup' = "check"
    /\ UNCHANGED <<mod, alloc, new, todo, klp>>

CleanupEnd ==
    /\ cleanup = "check" /\ todo = {}
    /\ cleanup' = IF mod \in {"live", "cancel_alloc"} THEN "pending" ELSE "off"
    /\ UNCHANGED <<mod, alloc, new, todo, victim, dummy_list, klp, shadow>>

-----------------------------------------------------------------------------
(* livepatch_shadow_mod_init and livepatch_shadow_mod_exit                 *)

\* cancel_delayed_work_sync takes a pending work off and bars it from being
\* scheduled ...
ModExit ==
    /\ mod = "live"
    /\ mod' = "cancel_alloc"
    /\ alloc' = IF alloc = "pending" THEN "off" ELSE alloc
    /\ UNCHANGED <<cleanup, new, todo, victim, dummy_list, klp, shadow>>

\* ... and returns when it no longer runs.  What cancel_delayed_work would do:
AllocCancelled_not_sync == TRUE
AllocCancelled == alloc = "off"

ExitCancelCleanup ==
    /\ mod = "cancel_alloc" /\ AllocCancelled
    /\ mod' = "cancel_cleanup"
    /\ cleanup' = IF cleanup = "pending" THEN "off" ELSE cleanup
    /\ UNCHANGED <<alloc, new, todo, victim, dummy_list, klp, shadow>>

ExitWalk ==
    /\ mod = "cancel_cleanup" /\ cleanup = "off"
    /\ mod' = "residual"
    /\ Enter("rmmod")
    /\ UNCHANGED <<alloc, cleanup, new, todo, victim, dummy_list, shadow>>

\* One round of the walk, which does not take the mutex
ExitFree(d) ==
    /\ mod = "residual" /\ d \in dummy_list
    /\ dummy_list' = dummy_list \ {d}
    /\ dummy_free("rmmod", d)
    /\ UNCHANGED <<mod, alloc, cleanup, new, todo, victim, klp>>

ExitEnd ==
    /\ mod = "residual" /\ dummy_list = {}
    /\ mod' = "gone"
    /\ UNCHANGED <<alloc, cleanup, new, todo, victim, dummy_list, klp, shadow>>

\* The module is loaded again: its livepatches and their shadow variables have
\* stayed.
ModInit ==
    /\ mod = "gone"
    /\ mod' = "live"
    /\ alloc' = "pending" /\ cleanup' = "pending"
    /\ UNCHANGED <<new, todo, victim, dummy_list, klp, shadow>>

-----------------------------------------------------------------------------
KlpNext ==
    \/ \E f \in Fix : Enable(f) \/ Disable(f) \/ Reverse(f) \/ Complete(f)
    \/ \E task \in Task : Switch(task)
    \/ Fix1Exit
    \/ Fix2Exit

ModNext ==
    \/ AllocStart \/ AllocDummy \/ AllocListAdd
    \/ CleanupStart \/ CleanupFree \/ CleanupEnd
    \/ \E d \in Addr : CleanupCheck(d) \/ ExitFree(d)
    \/ ModInit \/ ModExit \/ ExitCancelCleanup \/ ExitWalk \/ ExitEnd

Next == KlpNext \/ ModNext
Spec == Init /\ [][Next]_vars

-----------------------------------------------------------------------------
(* Properties                                                              *)

\* The walk of cleanup_work_func never meets a dummy that has been freed: the
\* mutex keeps the allocator out, and only cancel_delayed_work_sync keeps the
\* walk of livepatch_shadow_mod_exit, which takes no mutex, away from it.
WalkMeetsLiveDummies ==
    /\ todo \subseteq dummy_list
    /\ cleanup = "free" => victim \in dummy_list

\* When the module is gone neither work is left to run its code, and no dummy
\* is left behind: not even one that alloc_work_func had made and not listed
\* when the exit function began.
ExitLeavesNothing ==
    mod = "gone" => /\ alloc = "off" /\ cleanup = "off"
                    /\ Dummies = {}

\* What fix1 is for: a dummy its dummy_alloc has made carries the leak until it
\* is freed, through every transition, the loading and removal of fix2 and the
\* reuse of its address, unless fix1 itself is removed.
LeakKept == Dummies \cap saved \subseteq SV_LEAK

\* fix2 keeps the repair of fix1: a leak saved for a dummy that no longer exists
\* is one whose dummy was freed by the original dummy_free, by a task that had
\* not been switched.
LeakOutlivesOnlyUnpatchedFree == SV_LEAK \ Dummies \subseteq behind.leak

\* The counter fix2 prints is the number of counted checks of this dummy, not of
\* an earlier one at its address, unless that one was freed by a dummy_free that
\* does not know the counter.
CounterCountsThisDummy ==
    \A d \in Dummies \ behind.counter :
        SV_COUNTER[d] # None => SV_COUNTER[d] = checks[d]

\* "Allocate new dummies every second" (livepatch-shadow-mod.c:76): while the
\* module is live its allocator is scheduled or running.
AllocatorKeepsGoing == mod = "live" => alloc # "off"
=============================================================================
