------------------------- MODULE DriverRegistration -------------------------
(***************************************************************************)
(* What the example drivers register, and in which order they take it back:*)
(* cdev_driver.c, kset-example.c, kobject-example.c, kobject_test.c,       *)
(* debugfs_test1.c, sysctl_test1.c, interrupt_register_module.c with its   *)
(* trigger module, and powerkey.c with the handle of an input device that  *)
(* is plugged and unplugged.                                               *)
(*                                                                         *)
(* An init function is a sequence of calls.  A call registers a set of     *)
(* things or fails, and then other calls take back what came before.       *)
(* Meanwhile the kernel calls into the driver through what is registered.  *)
(***************************************************************************)
EXTENDS Naturals, Sequences, SequencesExt, TLC

\* A call that registers things, and the calls that follow when it fails; a call that
\* takes things back is the set of what it takes back.
Call(gets, undo) == [gets |-> gets, undo |-> undo]

-----------------------------------------------------------------------------
(* The drivers                                                             *)

my_init ==
    << Call({"region"}, <<>>),
       Call({"cdev"},   << {"region"} >>),
       Call({"class"},  << {"cdev"}, {"region"} >>),
       Call({"device"}, << {"class"}, {"cdev"}, {"region"} >>) >>

\* class_unregister drops the only reference of the class, class_destroy drops it again.
my_exit == << {"device"}, {"class"}, {"class"}, {"cdev"}, {"region"} >>

\* The memory of a foo_obj is freed by the release function of its kobject.
destroy_foo_obj(obj, kobj) == {obj, kobj}

create_foo_obj(obj, kobj, undo) ==
    << Call({obj}, undo),
       Call({kobj}, << {obj} >> \o undo) >>

foo_error == << {"kset"} >>
bar_error == << destroy_foo_obj("foo_obj", "foo") >> \o foo_error
baz_error_of_bar == << destroy_foo_obj("bar_obj", "bar") >> \o foo_error
baz_error == << destroy_foo_obj("bar_obj", "bar") >> \o bar_error

kset_example_init ==
    << Call({"kset"}, <<>>) >>
    \o create_foo_obj("foo_obj", "foo", foo_error)
    \o create_foo_obj("bar_obj", "bar", bar_error)
    \o create_foo_obj("baz_obj", "baz", baz_error)

kset_example_exit == << destroy_foo_obj("baz_obj", "baz") >> \o baz_error

kobject_example_init ==
    << Call({"kobj"}, <<>>),
       Call({"group"}, << {"kobj"} >>) >>

\* The files of a directory go with it.
kobject_example_exit == << {"group", "kobj"} >>

\* kobject_create_and_add returns a reference.  kobject_init_and_add is two calls: the
\* first one gives the child its own reference and cannot fail, the second adds it.
kobject_test_init ==
    << Call({"pkobj", "pkobj_ref"}, <<>>),
       Call({"child_ref"}, <<>>),
       Call({"child"}, <<>>),
       Call({"child_file"}, <<>>),
       Call({"pkobj_file"}, <<>>) >>

\* kobject_del drops neither reference.
kobject_test_exit == << {"child_file"}, {"child"}, {"pkobj", "pkobj_file"} >>

debugfs_init ==
    << Call({"dir"}, <<>>),
       Call({"file"}, << {"dir"} >>) >>

debugfs_exit == << {"dir", "file"} >>

sysctl_init == << Call({"table"}, <<>>) >>

sysctl_exit == << {"table"} >>

\* The symbol trigger_virtual_irq can be used once init has returned.
irq_module_init == << Call({"irq"}, <<>>), Call({"symbol"}, <<>>) >>

\* free_irq is given another dev_id than request_irq was and takes nothing back.
irq_module_exit == << {}, {"symbol"} >>

power_key_init == << Call({"handler"}, <<>>) >>

power_key_exit == << {"handler"} >>

power_key_connect ==
    << Call({"handle"}, <<>>),
       Call({"registered"}, << {"handle"} >>),
       Call({"open"}, << {"registered"}, {"handle"} >>) >>

power_key_disconnect_freed == << {"handle"}, {"open"}, {"registered"} >>
power_key_disconnect == << {"open"}, {"registered"}, {"handle"} >>

-----------------------------------------------------------------------------
Inits ==
    [cdev_driver |-> my_init, kset_example |-> kset_example_init,
     kobject_example |-> kobject_example_init, kobject_test |-> kobject_test_init,
     debugfs_test |-> debugfs_init, sysctl_test |-> sysctl_init,
     interrupt |-> irq_module_init, powerkey |-> power_key_init]

Exits ==
    [cdev_driver |-> my_exit, kset_example |-> kset_example_exit,
     kobject_example |-> kobject_example_exit, kobject_test |-> kobject_test_exit,
     debugfs_test |-> debugfs_exit, sysctl_test |-> sysctl_exit,
     interrupt |-> irq_module_exit, powerkey |-> power_key_exit]

\* What a thing is registered on
Needs ==
    [cdev |-> {"region"}, device |-> {"class", "region"},
     foo |-> {"foo_obj", "kset"}, bar |-> {"bar_obj", "kset"}, baz |-> {"baz_obj", "kset"},
     group |-> {"kobj"}, child_file |-> {"child"}, pkobj_file |-> {"pkobj"},
     file |-> {"dir"}, registered |-> {"handle", "handler"}, open |-> {"registered"}]
NeedsOf(r) == IF r \in DOMAIN Needs THEN Needs[r] ELSE {}

\* test_attr is a bare attribute.  That is what the child's own sysfs_ops take; those of
\* pkobj, which kobject_create_and_add gave it, take it for a kobj_attribute, which
\* nobody has made, and call what is read behind it.
test_attr == [child_file |-> {"child"}, pkobj_file |-> {"pkobj", "kobj_attribute"}]

\* Through what the kernel calls the driver, and what the callback works with
Callable ==
    test_attr @@
    [cdev |-> {}, foo |-> {"foo_obj"}, bar |-> {"bar_obj"}, baz |-> {"baz_obj"},
     group |-> {"kobj"}, file |-> {}, table |-> {}, irq |-> {}, symbol |-> {},
     open |-> {"handle"}]

\* Users of these keep the module from being removed: an open file whose operations
\* name their owner, and a module that uses a symbol.
Pins == {"cdev", "file", "symbol"}

-----------------------------------------------------------------------------
VARIABLES
    driver,
    phase,        \* of the module and of the handle: absent, init, unwind, live, exit, gone
    at,           \* the next call of init
    todo,         \* the calls that are left of unwinding or of exit
    held,         \* what is registered
    user,         \* the thing whose callback runs, or "none"
    failed,       \* history: the calls of the module's init that failed
    misfit        \* history: what a call took back that was not there, and what still
                  \* needed a thing when it was taken back

vars == <<driver, phase, at, todo, held, user, failed, misfit>>

Units == {"module", "handle"}

Script(u) == IF u = "handle" THEN power_key_connect ELSE Inits[driver]
Exit(u) == IF u = "handle" THEN power_key_disconnect ELSE Exits[driver]
Held == held["module"] \cup held["handle"]
Gains(u) == UNION {Script(u)[i].gets : i \in 1..Len(Script(u))}

TypeOK ==
    /\ driver \in DOMAIN Inits
    /\ phase \in [Units -> {"absent", "init", "unwind", "live", "exit", "gone"}]
    /\ \A u \in Units :
         /\ held[u] \subseteq Gains(u)
         /\ at[u] \in 1..(Len(Script(u)) + 1)
         /\ phase[u] = "init" => at[u] <= Len(Script(u))
         /\ phase[u] = "live" => at[u] > Len(Script(u))
         /\ IsSuffix(todo[u], Exit(u)) \/ \E i \in 1..Len(Script(u)) : IsSuffix(todo[u], Script(u)[i].undo)
         /\ todo[u] # <<>> => phase[u] \in {"unwind", "exit"}
    /\ user \in DOMAIN Callable \cup {"none"}
    /\ failed \subseteq 1..Len(Inits[driver])
    /\ misfit \subseteq Gains("module") \cup Gains("handle")

Init ==
    /\ driver \in DOMAIN Inits
    /\ phase = [module |-> "init", handle |-> "absent"]
    /\ at = [u \in Units |-> 1] /\ todo = [u \in Units |-> <<>>]
    /\ held = [u \in Units |-> {}]
    /\ user = "none" /\ failed = {} /\ misfit = {}

-----------------------------------------------------------------------------
(* init and connect                                                        *)

\* The input core connects a device that is plugged while the handler is registered.
Plug ==
    /\ driver = "powerkey" /\ phase["module"] = "live" /\ phase["handle"] = "absent"
    /\ phase' = [phase EXCEPT !["handle"] = "init"]
    /\ at' = [at EXCEPT !["handle"] = 1]
    /\ UNCHANGED <<driver, todo, held, user, failed, misfit>>

Possible(u) == UNION {NeedsOf(r) : r \in Script(u)[at[u]].gets} \subseteq Held

Proceed_unchecked(u) ==
    /\ at' = [at EXCEPT ![u] = @ + 1]
    /\ phase' = [phase EXCEPT ![u] = IF at[u] > Len(Script(u)) THEN "live" ELSE @]
Proceed(u) ==
    /\ at' = [at EXCEPT ![u] = @ + 1]
    /\ phase' = [phase EXCEPT ![u] = IF at[u] = Len(Script(u)) THEN "live" ELSE @]

Succeed(u) ==
    /\ phase[u] = "init" /\ Possible(u)
    /\ held' = [held EXCEPT ![u] = @ \cup Script(u)[at[u]].gets]
    /\ Proceed(u)
    /\ UNCHANGED <<driver, todo, user, failed, misfit>>

Fails(u) ==
    /\ phase[u] = "init"
    \* not a call, for init has returned; the initial reference of a kobject
    /\ Script(u)[at[u]].gets \notin {{"symbol"}, {"child_ref"}}
    /\ failed' = IF u = "module" THEN failed \cup {at[u]} ELSE failed
    /\ UNCHANGED <<driver, held, user, misfit>>

\* kobject_test.c looks at the result of its last call only.
Ignores(u) == u = "module" /\ driver = "kobject_test" /\ at[u] < Len(Script(u))

Fail(u) ==
    /\ Fails(u) /\ ~Ignores(u)
    /\ phase' = [phase EXCEPT ![u] = "unwind"]
    /\ todo' = [todo EXCEPT ![u] = Script(u)[at[u]].undo]
    /\ UNCHANGED at

\* debugfs_test1.c tests for NULL, and debugfs may return an error pointer.
FailUnseen(u) ==
    /\ Fails(u) /\ (Ignores(u) \/ driver = "debugfs_test")
    /\ Proceed(u)
    /\ UNCHANGED todo

-----------------------------------------------------------------------------
(* Unwinding, exit and disconnect                                          *)

\* A device is unplugged at any time; a module is removed when nobody pins it.
Leave(u) ==
    /\ phase[u] = "live"
    /\ u = "module" => user \notin Pins
    /\ phase' = [phase EXCEPT ![u] = "exit"]
    /\ todo' = [todo EXCEPT ![u] = Exit(u)]
    /\ UNCHANGED <<driver, at, held, user, failed, misfit>>

\* What is taken back is waited for, except an open file.  input_unregister_handler
\* disconnects the device first.
TakeBack(u) ==
    /\ todo[u] # <<>>
    /\ user \notin Head(todo[u]) \ Pins
    /\ "handler" \in Head(todo[u]) => phase["handle"] = "absent"
    /\ held' = [held EXCEPT ![u] = @ \ Head(todo[u])]
    /\ misfit' = misfit \cup (Head(todo[u]) \ held[u])
                        \cup {r \in Held \ Head(todo[u]) : NeedsOf(r) \cap Head(todo[u]) # {}}
    /\ todo' = [todo EXCEPT ![u] = Tail(@)]
    /\ UNCHANGED <<driver, phase, at, user, failed>>

\* The text of a module whose init failed or whose exit is done goes away.
Finish(u) ==
    /\ phase[u] \in {"unwind", "exit"} /\ todo[u] = <<>>
    /\ phase' = [phase EXCEPT ![u] = IF u = "module" THEN "gone" ELSE "absent"]
    /\ at' = [at EXCEPT ![u] = 1]
    /\ UNCHANGED <<driver, todo, held, user, failed, misfit>>

-----------------------------------------------------------------------------
(* The kernel's calls into the driver                                      *)

Enter(r) ==
    /\ user = "none" /\ r \in Held
    /\ r \in Pins => phase["module"] \notin {"exit", "gone"}
    /\ user' = r
    /\ UNCHANGED <<driver, phase, at, todo, held, failed, misfit>>

Return ==
    /\ user # "none" /\ user' = "none"
    /\ UNCHANGED <<driver, phase, at, todo, held, failed, misfit>>

-----------------------------------------------------------------------------
Next ==
    \/ Plug
    \/ \E u \in Units : Succeed(u) \/ Fail(u) \/ FailUnseen(u) \/ Leave(u) \/ TakeBack(u) \/ Finish(u)
    \/ \E r \in DOMAIN Callable : Enter(r)
    \/ Return

Spec == Init /\ [][Next]_vars

-----------------------------------------------------------------------------
(* Properties                                                              *)

LastCallFailed == Len(Inits[driver]) \in failed

\* What the calls of init that did not fail have registered
Made == UNION {Inits[driver][i].gets : i \in 1..Len(Inits[driver]) \ failed}

\* A callback finds the driver's text and what it works with.  There is one callback
\* that does not, of the file that kobject_test.c puts on pkobj.  And there are three
\* ways for the text to be gone: the interrupt stays requested after free_irq with
\* another dev_id, kobject_test.c leaves the child's file when its last call fails, and
\* a process has opened mychardev before a later call of its init failed.
CallbacksLive ==
    user # "none" =>
        /\ \/ Callable[user] \subseteq Held
           \/ driver = "kobject_test" /\ user = "pkobj_file"
        /\ phase["module"] = "gone" =>
             \/ driver = "interrupt" /\ user = "irq"
             \/ driver = "kobject_test" /\ user = "child_file" /\ LastCallFailed
             \/ driver = "cdev_driver" /\ user = "cdev" /\ failed # {}

\* Whatever call of init fails, a module that is live has all that its init registers,
\* and all is taken back once and after what needs it.  The exceptions:
\*   debugfs_test1.c and kobject_test.c are live without what a failed call did not
\*   make, and take that back as well (debugfs and sysfs ignore it);
\*   exit of cdev_driver.c takes the class back twice;
\*   the interrupt stays requested;
\*   kobject_test.c keeps both references, and when its last call fails all it has made.
Balanced ==
    /\ phase["module"] = "live" =>
         /\ held["module"] = Made
         /\ failed # {} => \/ driver = "debugfs_test"
                           \/ driver = "kobject_test" /\ ~LastCallFailed
    /\ misfit # {} =>
         \/ driver = "cdev_driver" /\ misfit = {"class"} /\ failed = {}
         \/ driver \in {"debugfs_test", "kobject_test"} /\ misfit \cap Made = {}
    /\ phase["module"] = "gone" =>
         CASE driver = "interrupt" /\ failed = {} -> Held = {"irq"}
           [] driver = "kobject_test" /\ ~LastCallFailed -> Held = {"pkobj_ref", "child_ref"}
           [] driver = "kobject_test" /\ LastCallFailed -> Held = Made
           [] OTHER -> Held = {}
    /\ phase["handle"] = "absent" => held["handle"] = {}
=============================================================================
