----------------------------- MODULE DeviceLock -----------------------------
(***************************************************************************)
(* What the character device of sema/sema_module.c promises to those who   *)
(* open it: one at a time has it.                                          *)
(***************************************************************************)
CONSTANT Procs

VARIABLE holder    \* the processes whose open has returned and that have not closed

Init == holder = {}

Acquire(p) == holder = {} /\ holder' = {p}

Release == holder # {} /\ holder' = {}

Next == (\E p \in Procs : Acquire(p)) \/ Release

Spec == Init /\ [][Next]_holder
=============================================================================
