------------------------------- MODULE SteTop -------------------------------
(***************************************************************************)
(* The kernel top of ste_top.c.  A write to /proc/kernel_top counts the    *)
(* processes twice, 100 ms apart, sorts their records and prints them.     *)
(* The array of pointers to records grows when it is full and is kept for  *)
(* the next write.  Nothing is locked: each process that writes runs       *)
(* my_write, and the exit function removes the proc entry last.            *)
(*                                                                         *)
(* The index of an access is the shared total, read again each time.  What *)
(* a record says is left out, and so are the hash buckets: a table is the  *)
(* set of its nodes, and a node is linked or unlinked in one step.         *)
(***************************************************************************)
EXTENDS Integers

CONSTANTS
    Writer,     \* processes that write to the proc entry
    Record,     \* addresses of records
    Node,       \* addresses of table nodes
    Null,       \* the null pointer
    Wild,       \* what memory holds that nobody has set
    Step,       \* what a growth adds besides a quarter (10 in the code)
    MaxTasks    \* bound of the processes a refresh meets

ASSUME ConstantsAssumption ==
    /\ Step \in Nat \ {0} /\ MaxTasks \in Nat
    /\ Null \notin Record \cup Node /\ Wild \notin Record \cup {Null}

VARIABLES
    mod,            \* live, a step of proc_stats_exit, gone
    pc,             \* where each writer is
    second,         \* the writers that have slept
    todo,           \* refresh: the tasks left; sort: the length; show: the index
    pos,            \* the table node each writer has reached
    new_size,       \* new_process_info of each writer: its size
    fresh,          \* ... and its entries
    swap,           \* sort: the entries to exchange and the pointers read from them
    stale,          \* the writers whose sort was given an array that is freed
    process_info,   \* the array: null, live or freed
    size,           \* its size
    entries,        \* its entries: pointers to records
    n_alloc, total,
    hash_table_old, hash_table_new,
    fault,          \* an access out of the array or to something that is gone
    records, nodes, \* history: records and table nodes that are not freed
    grow_failed,    \* history: a growth found no memory
    raced           \* history: a writer met what it must not meet, see Race

place  == <<pc, second, todo>>
growth == <<new_size, fresh>>
local  == <<place, pos, growth, swap, stale>>
array  == <<process_info, size, entries>>
tables == <<hash_table_old, hash_table_new, nodes>>
vars   == <<mod, local, array, n_alloc, total, tables, fault, records, grow_failed, raced>>

Refreshing == {"reset", "free_old", "move", "check", "grow", "copy", "install", "slot", "fill"}
Growing    == {"copy", "install"}
Sorting    == {"sort", "swap", "store"}
Exiting    == {"free_records", "remove"}

Pointer == Record \cup {Null, Wild}
NoSwap  == [i |-> 0, j |-> 0, a |-> Null, b |-> Null]
NoArray == [i \in 0..-1 |-> Null]

\* Unless it raced or faulted, no node is freed that is in a table, and none is in both.
TablesOK == ~raced /\ ~fault => /\ hash_table_old \cup hash_table_new \subseteq nodes
                               /\ hash_table_old \cap hash_table_new = {}

TypeOK ==
    /\ mod \in {"live", "gone"} \cup Exiting
    /\ pc \in [Writer -> {"idle", "sleep", "show"} \cup Refreshing \cup Sorting]
    /\ second \subseteq Writer
    /\ todo \in [Writer -> Nat]
    /\ pos \in [Writer -> Node \cup {Null}]
    /\ new_size \in [Writer -> Nat]
    /\ DOMAIN fresh = Writer
    /\ \A w \in Writer : fresh[w] \in [0..(new_size[w] - 1) -> Pointer]
    /\ swap \in [Writer -> [i : Nat, j : Nat, a : Pointer, b : Pointer]]
    /\ stale \subseteq Writer
    /\ process_info \in {"null", "live", "freed"}
    /\ size \in Nat
    /\ entries \in [0..(size - 1) -> Pointer]
    /\ n_alloc \in Nat
    /\ total \in Nat
    /\ nodes \subseteq Node
    /\ hash_table_old \subseteq Node /\ hash_table_new \subseteq Node
    /\ TablesOK
    /\ fault \in BOOLEAN
    /\ records \subseteq Record
    /\ grow_failed \in BOOLEAN
    /\ raced \in BOOLEAN

\* proc_stats_init, which cannot fail: the result of proc_create is not looked at
Init ==
    /\ mod = "live"
    /\ pc = [w \in Writer |-> "idle"]
    /\ second = {}
    /\ todo = [w \in Writer |-> 0]
    /\ pos = [w \in Writer |-> Null]
    /\ new_size = [w \in Writer |-> 0]
    /\ fresh = [w \in Writer |-> NoArray]
    /\ swap = [w \in Writer |-> NoSwap]
    /\ stale = {}
    /\ process_info = "null" /\ size = 0 /\ entries = NoArray
    /\ n_alloc = 0 /\ total = 0
    /\ hash_table_old = {} /\ hash_table_new = {}
    /\ fault = FALSE
    /\ records = {} /\ nodes = {}
    /\ grow_failed = FALSE
    /\ raced = FALSE

InArray(i) == process_info = "live" /\ i < size

\* The entry can be followed to a record.
Usable(i) == InArray(i) /\ entries[i] \in records

\* Two refreshes at once, or two sorts; a sorted or printed array that is being
\* replaced; a write under the exit function.  A refresh under another writer's
\* sort or show is none of these while the array does not grow.
Race ==
    \/ \E v, w \in Writer :
           /\ v # w
           /\ \/ pc[v] \in Refreshing /\ pc[w] \in Refreshing
              \/ pc[v] \in Sorting /\ pc[w] \in Sorting
              \/ pc[v] \in Growing /\ pc[w] \in Sorting \cup {"show"}
    \/ mod \in Exiting /\ \E w \in Writer : pc[w] # "idle"

Goto(w, step) == pc' = [pc EXCEPT ![w] = step]

-----------------------------------------------------------------------------
(* my_write, frame_make                                                    *)

\* A write whose buffer cannot be copied changes nothing.
Write(w) ==
    /\ pc[w] = "idle" /\ mod # "gone"
    /\ Goto(w, "reset")
    /\ second' = second \ {w}
    /\ UNCHANGED <<mod, todo, pos, growth, swap, stale, array, n_alloc, total, tables, fault,
                   records, grow_failed>>

\* procs_hlp(NULL): the nodes of the old table are freed, those of the new one
\* become the old ones.  A walk reaches a node and then acts on it.
Reset(w) ==
    /\ pc[w] = "reset" /\ Goto(w, "free_old")
    /\ total' = 0
    /\ UNCHANGED <<mod, second, todo, pos, growth, swap, stale, array, n_alloc, tables, fault,
                   records, grow_failed>>

\* One that frees a node without taking it out of its table:
FreeNode_without_hash_del(n) ==
    /\ fault' = (n \notin nodes) /\ nodes' = nodes \ {n}
    /\ UNCHANGED <<hash_table_old, hash_table_new>>
FreeNode(n) ==
    /\ fault' = (n \notin nodes) /\ nodes' = nodes \ {n}
    /\ hash_table_old' = hash_table_old \ {n} /\ hash_table_new' = hash_table_new \ {n}

FreeOld(w) ==
    /\ pc[w] = "free_old"
    /\ \/ /\ pos[w] = Null
          /\ \E n \in hash_table_old : pos' = [pos EXCEPT ![w] = n]
          /\ UNCHANGED <<pc, tables, fault>>
       \/ pos[w] # Null /\ FreeNode(pos[w]) /\ pos' = [pos EXCEPT ![w] = Null] /\ UNCHANGED pc
       \/ pos[w] = Null /\ hash_table_old = {} /\ Goto(w, "move")
          /\ UNCHANGED <<pos, tables, fault>>
    /\ UNCHANGED <<mod, second, todo, growth, swap, stale, array, n_alloc, total, records,
                   grow_failed>>

Move(w) ==
    /\ pc[w] = "move"
    /\ \/ /\ pos[w] = Null
          /\ \E n \in hash_table_new : pos' = [pos EXCEPT ![w] = n]
          /\ UNCHANGED <<pc, todo, tables, fault>>
       \/ /\ pos[w] # Null
          /\ fault' = (pos[w] \notin nodes)
          /\ hash_table_old' = hash_table_old \cup {pos[w]}
          /\ hash_table_new' = hash_table_new \ {pos[w]}
          /\ pos' = [pos EXCEPT ![w] = Null]
          /\ UNCHANGED <<pc, todo, nodes>>
       \/ /\ pos[w] = Null /\ hash_table_new = {}
          /\ Goto(w, "check")
          /\ \E n \in 0..MaxTasks : todo' = [todo EXCEPT ![w] = n]
          /\ UNCHANGED <<pos, tables, fault>>
    /\ UNCHANGED <<mod, second, growth, swap, stale, array, n_alloc, total, records, grow_failed>>

\* The capacity after a growth, and without the constant that starts it
Grown_by_a_quarter(n) == (n * 5) \div 4
Grown(n) == Step + (n * 5) \div 4

\* n_alloc is set before there is memory for it.
Check(w) ==
    /\ pc[w] = "check" /\ todo[w] > 0
    /\ todo' = [todo EXCEPT ![w] = @ - 1]
    /\ IF n_alloc = total THEN n_alloc' = Grown(n_alloc) /\ Goto(w, "grow")
                          ELSE UNCHANGED n_alloc /\ Goto(w, "slot")
    /\ UNCHANGED <<mod, second, pos, growth, swap, stale, array, total, tables, fault, records,
                   grow_failed>>

Grow(w) ==
    /\ pc[w] = "grow"
    /\ \/ /\ new_size' = [new_size EXCEPT ![w] = n_alloc]
          /\ fresh' = [fresh EXCEPT ![w] = [i \in 0..(n_alloc - 1) |-> Wild]]
          /\ Goto(w, "copy")
          /\ UNCHANGED grow_failed
       \/ /\ Goto(w, "check")
          /\ grow_failed' = TRUE
          /\ UNCHANGED growth
    /\ UNCHANGED <<mod, second, todo, pos, swap, stale, array, n_alloc, total, tables, fault,
                   records>>

\* memcpy of total entries, kfree of the array
Copy(w) ==
    /\ pc[w] = "copy" /\ Goto(w, "install")
    /\ fault' = (total > new_size[w] \/ (total > 0 /\ ~InArray(total - 1))
                 \/ process_info = "freed")
    /\ fresh' = [fresh EXCEPT ![w] =
                    [i \in DOMAIN @ |-> IF i < total /\ i < size THEN entries[i] ELSE @[i]]]
    /\ process_info' = IF process_info = "live" THEN "freed" ELSE process_info
    /\ stale' = stale \cup {v \in Writer : pc[v] \in Sorting}
    /\ UNCHANGED <<mod, second, todo, pos, new_size, swap, size, entries, n_alloc, total, tables,
                   records, grow_failed>>

\* memset of the entries from total to n_alloc
Install(w) ==
    /\ pc[w] = "install" /\ Goto(w, "slot")
    /\ process_info' = "live"
    /\ size' = new_size[w]
    /\ entries' = [i \in 0..(new_size[w] - 1) |-> IF i < total THEN fresh[w][i] ELSE Null]
    /\ fault' = (n_alloc > new_size[w] \/ total > n_alloc)
    /\ new_size' = [new_size EXCEPT ![w] = 0] /\ fresh' = [fresh EXCEPT ![w] = NoArray]
    /\ UNCHANGED <<mod, second, todo, pos, swap, stale, n_alloc, total, tables, records,
                   grow_failed>>

\* A task without a record gets one, or is passed over.
Slot(w) ==
    /\ pc[w] = "slot"
    /\ fault' = ~InArray(total)
    /\ \/ /\ InArray(total) => entries[total] # Null
          /\ Goto(w, "fill")
          /\ UNCHANGED <<entries, records>>
       \/ /\ InArray(total) /\ entries[total] = Null
          /\ \/ \E r \in Record \ records :
                   /\ entries' = [entries EXCEPT ![total] = r]
                   /\ records' = records \cup {r}
                   /\ Goto(w, "fill")
             \/ Goto(w, "check") /\ UNCHANGED <<entries, records>>
    /\ UNCHANGED <<mod, second, todo, pos, growth, swap, stale, process_info, size, n_alloc,
                   total, tables, grow_failed>>

\* The record is written and counted; its node may find no memory.
Fill(w) ==
    /\ pc[w] = "fill" /\ Goto(w, "check")
    /\ fault' = ~Usable(total)
    /\ total' = total + 1
    /\ \/ \E n \in Node \ nodes :
             hash_table_new' = hash_table_new \cup {n} /\ nodes' = nodes \cup {n}
       \/ UNCHANGED <<hash_table_new, nodes>>
    /\ UNCHANGED <<mod, second, todo, pos, growth, swap, stale, array, n_alloc, hash_table_old,
                   records, grow_failed>>

\* The first refresh is followed by msleep, the second one by sort, which is given
\* the array and the total once.
Refreshed(w) ==
    /\ pc[w] = "check" /\ todo[w] = 0
    /\ IF w \in second
       THEN Goto(w, "sort") /\ todo' = [todo EXCEPT ![w] = total] /\ stale' = stale \ {w}
       ELSE Goto(w, "sleep") /\ UNCHANGED <<todo, stale>>
    /\ UNCHANGED <<mod, second, pos, growth, swap, array, n_alloc, total, tables, fault, records,
                   grow_failed>>

Wake(w) ==
    /\ pc[w] = "sleep" /\ Goto(w, "reset")
    /\ second' = second \cup {w}
    /\ UNCHANGED <<mod, todo, pos, growth, swap, stale, array, n_alloc, total, tables, fault,
                   records, grow_failed>>

\* sort compares the records of entries and exchanges entries, in an order left
\* open.  An exchange reads both pointers, then stores one, then the other.
SortCompare(w) ==
    /\ pc[w] = "sort"
    /\ \E i \in 0..(todo[w] - 1) : fault' = (w \in stale \/ ~Usable(i))
    /\ UNCHANGED <<mod, local, array, n_alloc, total, tables, records, grow_failed>>

SortLoad(w) ==
    /\ pc[w] = "sort" /\ Goto(w, "swap")
    /\ \E i, j \in 0..(todo[w] - 1) :
          /\ i # j
          /\ fault' = (w \in stale \/ ~InArray(i) \/ ~InArray(j))
          /\ swap' = IF fault' THEN swap
                     ELSE [swap EXCEPT ![w] = [i |-> i, j |-> j, a |-> entries[i], b |-> entries[j]]]
    /\ UNCHANGED <<mod, second, todo, pos, growth, stale, array, n_alloc, total, tables, records,
                   grow_failed>>

\* One pointer goes to one entry.
SortStore(w, i, p) ==
    /\ fault' = (w \in stale \/ ~InArray(i))
    /\ entries' = IF fault' THEN entries ELSE [entries EXCEPT ![i] = p]
    /\ UNCHANGED <<mod, second, todo, pos, growth, stale, process_info, size, n_alloc, total,
                   tables, records, grow_failed>>

SortStoreFirst(w) ==
    /\ pc[w] = "swap" /\ Goto(w, "store")
    /\ SortStore(w, swap[w].i, swap[w].b)
    /\ UNCHANGED swap

SortStoreSecond(w) ==
    /\ pc[w] = "store" /\ Goto(w, "sort")
    /\ SortStore(w, swap[w].j, swap[w].a)
    /\ swap' = [swap EXCEPT ![w] = NoSwap]

Sorted(w) ==
    /\ pc[w] = "sort" /\ Goto(w, "show")
    /\ todo' = [todo EXCEPT ![w] = 0]
    /\ stale' = stale \ {w}
    /\ UNCHANGED <<mod, second, pos, growth, swap, array, n_alloc, total, tables, fault, records,
                   grow_failed>>

\* show compares its index with the total for each entry.
Show(w) ==
    /\ pc[w] = "show"
    /\ IF todo[w] < total
       THEN /\ fault' = ~Usable(todo[w])
            /\ todo' = [todo EXCEPT ![w] = @ + 1]
            /\ UNCHANGED pc
       ELSE /\ Goto(w, "idle") /\ todo' = [todo EXCEPT ![w] = 0]
            /\ UNCHANGED fault
    /\ UNCHANGED <<mod, second, pos, growth, swap, stale, array, n_alloc, total, tables, records,
                   grow_failed>>

WriterStep(w) ==
    \/ Write(w) \/ Reset(w) \/ FreeOld(w) \/ Move(w)
    \/ Check(w) \/ Grow(w) \/ Copy(w) \/ Install(w) \/ Slot(w) \/ Fill(w)
    \/ Refreshed(w) \/ Wake(w)
    \/ SortCompare(w) \/ SortLoad(w) \/ SortStoreFirst(w) \/ SortStoreSecond(w) \/ Sorted(w)
    \/ Show(w)

-----------------------------------------------------------------------------
(* proc_stats_exit.  Each loop is one step: a writer that meets it races.  *)

\* The nodes of the new table stay.
ExitTables ==
    /\ mod = "live" /\ mod' = "free_records"
    /\ fault' = ~(hash_table_old \subseteq nodes)
    /\ nodes' = nodes \ hash_table_old
    /\ hash_table_old' = {}
    /\ UNCHANGED <<local, array, n_alloc, total, hash_table_new, records, grow_failed>>

\* The loop frees what n_alloc entries point to.  One that went through those of the
\* last refresh:
Freed_of_last_refresh == {i \in DOMAIN entries : i < total /\ entries[i] # Null}
Freed == {i \in DOMAIN entries : i < n_alloc /\ entries[i] # Null}

\* A pointer that no record has, or that two entries have, cannot be freed.
ExitRecords ==
    /\ mod = "free_records" /\ mod' = "remove"
    /\ fault' = \/ process_info = "freed" \/ (n_alloc > 0 /\ ~InArray(n_alloc - 1))
                \/ \E i \in Freed : entries[i] \notin records
                \/ \E i, j \in Freed : i # j /\ entries[i] = entries[j]
    /\ records' = records \ {entries[i] : i \in Freed}
    /\ process_info' = IF process_info = "live" THEN "freed" ELSE process_info
    /\ UNCHANGED <<local, size, entries, n_alloc, total, tables, grow_failed>>

\* remove_proc_entry waits for the writes that have begun.
ExitRemove ==
    /\ mod = "remove" /\ mod' = "gone"
    /\ \A w \in Writer : pc[w] = "idle"
    /\ UNCHANGED <<local, array, n_alloc, total, tables, fault, records, grow_failed>>

-----------------------------------------------------------------------------
\* A fault stops the machine.
Next ==
    /\ ~fault
    /\ \/ \E w \in Writer : WriterStep(w)
       \/ ExitTables \/ ExitRecords \/ ExitRemove
    /\ raced' = (raced \/ Race')

Spec == Init /\ [][Next]_vars

-----------------------------------------------------------------------------
(* Properties                                                              *)

\* Writers may overlap: no pointer is lost or doubled and no access leaves the array
\* as long as no two refreshes and no two sorts overlap and no growth of one writer
\* meets sort or show of another one.  Without such a race only a growth that found
\* no memory leads out of the array, for it leaves n_alloc ahead of it.
FaultNeedsRaceOrFailedGrowth == fault => raced \/ grow_failed

\* Unless it raced, unloading frees every record ever made, each of them once,
\* whatever the sorts exchanged and the allocations met, and the nodes of the old
\* table.  (Those of the new one are leaked.)
ExitFreesRecords == mod = "gone" /\ ~raced => records = {} /\ nodes = hash_table_new
=============================================================================
