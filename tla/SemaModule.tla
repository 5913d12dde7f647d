----------------------------- MODULE SemaModule -----------------------------
(***************************************************************************)
(* The device of sema/sema_module.c, whose open takes a semaphore and      *)
(* whose release gives it back, used by processes like sema/test.c.        *)
(*                                                                         *)
(* The file operations name no owner, so the module can be removed, and    *)
(* loaded again, while processes are in hello_open or have the file open.  *)
(* The semaphore is modelled with its count and its list of waiters, to    *)
(* the first of which up() hands it over.                                  *)
(***************************************************************************)
EXTENDS Integers, Sequences, FiniteSets

CONSTANTS
    Procs,
    MaxLoads    \* bound: how often the module is loaded

ASSUME LoadsAssumption == MaxLoads \in Nat

VARIABLES
    mod,        \* absent, a step of hello_init, live, a step of hello_exit
    load,       \* how often the module was loaded: which memory it is in
    chrdev, node,       \* the driver is registered, /dev/test is there
    ready,      \* sema_init was called
    count, wait_list,   \* struct semaphore
    pc,         \* where each process is
    opened,     \* of which load the module's code is that a process is in or has open
    fault       \* an access to memory that is gone or was never initialised

module == <<mod, load, chrdev, node>>
sem    == <<ready, count, wait_list>>
vars   == <<module, sem, pc, opened, fault>>

\* A process: not using the device; in hello_open before down_interruptible and
\* asleep there; woken by up or by a signal; with the file open
States == {"out", "open", "wait", "granted", "signalled", "in"}
Inits  == {"class", "device", "sema"}
Exits  == {"exit_class", "exit_chrdev", "exit_done"}

TypeOK ==
    /\ mod \in {"absent", "live"} \cup Inits \cup Exits
    /\ load \in 0..MaxLoads
    /\ chrdev \in BOOLEAN /\ node \in BOOLEAN /\ ready \in BOOLEAN
    /\ count \in {0, 1}
    /\ wait_list \in Seq(Procs)
    /\ pc \in [Procs -> States] /\ opened \in [Procs -> 0..MaxLoads]
    /\ fault \in BOOLEAN

Init ==
    /\ mod = "absent" /\ load = 0 /\ chrdev = FALSE /\ node = FALSE
    /\ ready = FALSE /\ count = 0 /\ wait_list = <<>>
    /\ pc = [p \in Procs |-> "out"] /\ opened = [p \in Procs |-> 0]
    /\ fault = FALSE

-----------------------------------------------------------------------------
(* hello_init and hello_exit                                               *)

\* register_chrdev, which may fail.  The module's data is new, all zero.
InitChrdev ==
    /\ mod = "absent" /\ load < MaxLoads
    /\ load' = load + 1
    /\ \/ mod' = "class" /\ chrdev' = TRUE
       \/ UNCHANGED <<mod, chrdev>>
    /\ ready' = FALSE /\ count' = 0 /\ wait_list' = <<>>
    /\ UNCHANGED <<node, pc, opened, fault>>

\* class_create and device_create; when one fails init undoes all and gives up.
InitClass ==
    /\ mod = "class"
    /\ \/ mod' = "device" /\ UNCHANGED chrdev
       \/ mod' = "absent" /\ chrdev' = FALSE
    /\ UNCHANGED <<load, node, sem, pc, opened, fault>>

InitDevice ==
    /\ mod = "device"
    /\ \/ mod' = "sema" /\ node' = TRUE /\ UNCHANGED chrdev
       \/ mod' = "absent" /\ chrdev' = FALSE /\ UNCHANGED node
    /\ UNCHANGED <<load, sem, pc, opened, fault>>

InitSema_twice ==
    /\ mod = "sema" /\ mod' = "live"
    /\ ready' = TRUE /\ count' = 2 /\ wait_list' = <<>>
    /\ UNCHANGED <<load, chrdev, node, pc, opened, fault>>
InitSema ==
    /\ mod = "sema" /\ mod' = "live"
    /\ ready' = TRUE /\ count' = 1 /\ wait_list' = <<>>
    /\ UNCHANGED <<load, chrdev, node, pc, opened, fault>>

\* No reference to the module keeps rmmod from calling hello_exit.
ExitDevice ==
    /\ mod = "live" /\ mod' = "exit_class"
    /\ node' = FALSE
    /\ UNCHANGED <<load, chrdev, sem, pc, opened, fault>>

ExitClass ==
    /\ mod = "exit_class" /\ mod' = "exit_chrdev"
    /\ UNCHANGED <<load, chrdev, node, sem, pc, opened, fault>>

ExitChrdev ==
    /\ mod = "exit_chrdev" /\ mod' = "exit_done"
    /\ chrdev' = FALSE
    /\ UNCHANGED <<load, node, sem, pc, opened, fault>>

ExitUnload ==
    /\ mod = "exit_done" /\ mod' = "absent"
    /\ UNCHANGED <<load, chrdev, node, sem, pc, opened, fault>>

-----------------------------------------------------------------------------
(* The processes.  What they run is there while their load of the module   *)
(* is: a step in one that was removed is a fault.                          *)

Present(p) == opened[p] = load /\ mod # "absent"

Step(p, from, to) ==
    /\ pc[p] = from
    /\ IF Present(p) THEN pc' = [pc EXCEPT ![p] = to] /\ fault' = FALSE
       ELSE fault' = TRUE /\ UNCHANGED pc
    /\ UNCHANGED <<module, opened>>

\* open("/dev/test"), up to hello_open
Open(p) ==
    /\ pc[p] = "out" /\ node /\ chrdev
    /\ pc' = [pc EXCEPT ![p] = "open"] /\ opened' = [opened EXCEPT ![p] = load]
    /\ UNCHANGED <<module, sem, fault>>

\* down_interruptible: without sema_init the count is 0 and the list has no head.
DownTakes_uncounted(p) ==
    /\ count > 0
    /\ Step(p, "open", "in")
    /\ UNCHANGED sem
DownTakes(p) ==
    /\ count > 0
    /\ Step(p, "open", "in")
    /\ count' = IF Present(p) THEN 0 ELSE count
    /\ UNCHANGED <<ready, wait_list>>

DownWaits(p) ==
    /\ count = 0 /\ ready
    /\ Step(p, "open", "wait")
    /\ wait_list' = IF Present(p) THEN Append(wait_list, p) ELSE wait_list
    /\ UNCHANGED <<ready, count>>

DownFaults(p) ==
    /\ count = 0 /\ ~ready
    /\ pc[p] = "open" /\ fault' = TRUE
    /\ UNCHANGED <<module, sem, pc, opened>>

\* The sleeper that up woke returns from hello_open.
Granted(p) ==
    /\ Step(p, "granted", "in")
    /\ UNCHANGED sem

\* A signal ends the sleep: the waiter leaves the list, open fails.
\* One that also ends the sleep of a waiter that up has woken already:
Signal_after_up(p) ==
    /\ \E from \in {"wait", "granted"} : Step(p, from, "signalled")
    /\ wait_list' = IF Present(p) THEN SelectSeq(wait_list, LAMBDA q : q # p) ELSE wait_list
    /\ UNCHANGED <<ready, count>>
Signal(p) ==
    /\ Step(p, "wait", "signalled")
    /\ wait_list' = IF Present(p)
                    THEN LET i == CHOOSE i \in DOMAIN wait_list : wait_list[i] = p
                         IN  SubSeq(wait_list, 1, i - 1) \o SubSeq(wait_list, i + 1, Len(wait_list))
                    ELSE wait_list
    /\ UNCHANGED <<ready, count>>

Restarts(p) ==
    /\ Step(p, "signalled", "out")
    /\ UNCHANGED sem

\* close, and with it hello_release: up() hands the semaphore to the first waiter.
Close_wakes_none(p) ==
    /\ Step(p, "in", "out")
    /\ count' = IF Present(p) /\ wait_list = <<>> THEN 1 ELSE count
    /\ UNCHANGED <<ready, wait_list>>
Close(p) ==
    /\ pc[p] = "in"
    /\ IF Present(p)
       THEN /\ IF wait_list = <<>>
               THEN /\ count' = count + 1 /\ UNCHANGED wait_list
                    /\ pc' = [pc EXCEPT ![p] = "out"]
               ELSE /\ wait_list' = Tail(wait_list) /\ UNCHANGED count
                    /\ pc' = [pc EXCEPT ![p] = "out", ![Head(wait_list)] = "granted"]
            /\ UNCHANGED fault
       ELSE fault' = TRUE /\ UNCHANGED <<pc, count, wait_list>>
    /\ UNCHANGED <<module, ready, opened>>

-----------------------------------------------------------------------------
ModuleStep ==
    \/ InitChrdev \/ InitClass \/ InitDevice \/ InitSema
    \/ ExitDevice \/ ExitClass \/ ExitChrdev \/ ExitUnload

ProcStep(p) == DownTakes(p) \/ DownWaits(p) \/ DownFaults(p) \/ Granted(p) \/ Restarts(p) \/ Close(p)

\* A fault stops the machine.
Next == ~fault /\ (ModuleStep \/ \E p \in Procs : Open(p) \/ Signal(p) \/ ProcStep(p))

Spec == Init /\ [][Next]_vars

\* A process that can run does, and like sema/test.c closes the file in the end.
FairSpec == Spec /\ \A p \in Procs : WF_vars(~fault /\ ProcStep(p))

-----------------------------------------------------------------------------
(* Properties                                                              *)

\* "run it twice: the first run does not block, the second blocks" (test.c:2): each
\* load of the module is a lock, whatever signals, failures and removals come
\* between.  Only a process that kept the file of a removed load has it as well.
Holders == {p \in Procs : pc[p] = "in" /\ Present(p)}
Lock == INSTANCE DeviceLock WITH holder <- Holders
ImplementsLock == Lock!Spec

\* Of the processes of this load: that it opened, and that have the semaphore, by
\* taking it or because up() handed it over
Mine(p)  == opened[p] = load
Owner(p) == Mine(p) /\ pc[p] \in {"in", "granted"}

\* No wakeup is lost and no semaphore is dropped, in whatever order closes, signals,
\* failures and removals come: from sema_init on the count is zero exactly while a
\* process has the semaphore, and who sleeps in hello_open sleeps for another one
\* of its load that has it and whose close will wake the next.
NobodyWaitsForNobody ==
    /\ ready => (count = 0 <=> \E p \in Procs : Owner(p))
    /\ \A p \in Procs : Mine(p) /\ pc[p] = "wait" => \E q \in Procs \ {p} : Owner(q)

\* A process that waits in open is not overtaken for ever: it gets the device, is
\* interrupted, or the module goes away.
WaiterServed ==
    \A p \in Procs : pc[p] = "wait" ~> pc[p] # "wait" \/ mod # "live" \/ fault
=============================================================================
