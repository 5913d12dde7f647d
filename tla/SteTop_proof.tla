---------------------------- MODULE SteTop_proof ----------------------------
(***************************************************************************)
(* Proofs about SteTop: types, that a wrong access takes a race or a       *)
(* failed growth, and what unloading frees.                                *)
(***************************************************************************)
EXTENDS SteTop, TLAPS

Unsettled == {"grow", "copy", "install"}

\* The entry is in the array and points to a record, live or not.
Filled(i) == i < size /\ entries[i] # Null

\* The array as it is between two steps of the one writer that refreshes it:
\* the entries below the total have records, and n_alloc is its size but for a
\* growth that is under way or has failed.
ArrayInv ==
    /\ process_info = "null" => size = 0
    /\ process_info = "freed" => mod \in {"remove", "gone"} \/ \E w \in Writer : pc[w] = "install"
    /\ (\A w \in Writer : pc[w] \notin Unsettled)
           => IF grow_failed THEN n_alloc > size ELSE n_alloc = size
    /\ \A i \in 0..(total - 1) : Filled(i)

\* What a writer knows in each of its places
PlaceInv == \A w \in Writer :
    /\ pc[w] \in Unsettled => ~grow_failed /\ total = size /\ n_alloc > size
    /\ pc[w] \in Growing => new_size[w] = n_alloc
    /\ pc[w] = "install" => \A i \in 0..(size - 1) : fresh[w][i] = entries[i]
    /\ pc[w] = "slot" => grow_failed \/ total < size
    /\ pc[w] = "fill" => Filled(total)
    /\ pc[w] \in Sorting => w \notin stale /\ \A i \in 0..(todo[w] - 1) : Filled(i)

\* An exchange is between two entries below the length of the sort; what it has
\* read is still there, the first store excepted.
SwapInv == \A w \in Writer : pc[w] \in {"swap", "store"} =>
    LET s == swap[w] IN
    /\ s.i \in 0..(todo[w] - 1) /\ s.j \in 0..(todo[w] - 1) /\ s.i # s.j
    /\ entries[s.j] = s.b
    /\ entries[s.i] = IF pc[w] = "swap" THEN s.a ELSE s.b
    /\ s.a \in records

\* The writers whose exchange is half done
Half == {w \in Writer : pc[w] = "store"}

\* Each record is in one entry, a half-done exchange excepted, which has one record
\* twice and holds the other one itself.
OwnerInv == mod \in {"live", "free_records"} =>
    /\ \A i \in 0..(size - 1) : entries[i] = Null \/ entries[i] \in records
    /\ \A i, k \in 0..(size - 1) :
          i # k /\ entries[i] = entries[k] =>
              \/ entries[i] = Null
              \/ \E w \in Half : i \in {swap[w].i, swap[w].j} /\ k \in {swap[w].i, swap[w].j}
    /\ \A r \in records : \/ \E i \in 0..(size - 1) : entries[i] = r
                          \/ \E w \in Half : swap[w].a = r
    /\ \A w \in Half : \A i \in 0..(size - 1) : entries[i] # swap[w].a

\* Each node is in one of the tables, and the one a walk has reached in that table.
NodeInv ==
    /\ nodes = hash_table_old \cup hash_table_new
    /\ hash_table_old \cap hash_table_new = {}
    /\ mod # "live" => hash_table_old = {}
    /\ \A w \in Writer : pos[w] # Null =>
          \/ pc[w] = "free_old" /\ pos[w] \in hash_table_old
          \/ pc[w] = "move" /\ pos[w] \in hash_table_new

FreedInv == mod \in {"remove", "gone"} => records = {}

\* Nothing is known after a race, and no step follows a fault.
Quiet == ArrayInv /\ PlaceInv /\ SwapInv /\ OwnerInv /\ NodeInv /\ FreedInv
QuietInv == raced \/ (~Race /\ (fault \/ Quiet))

StopInv == mod = "gone" => ~fault /\ \A w \in Writer : pc[w] = "idle"
-----------------------------------------------------------------------------
(* Types                                                                   *)

\* A growth grows.
LEMMA GrownMore == ASSUME NEW n \in Nat PROVE Grown(n) \in Nat /\ Grown(n) > n
<1>1. Step \in Nat /\ Step > 0
  BY ConstantsAssumption DEF ConstantsAssumption
<1>2. (n * 5) \div 4 \in Nat /\ (n * 5) \div 4 >= n
  OBVIOUS
<1> QED BY <1>1, <1>2 DEF Grown

LEMMA FaultType ==
    ASSUME TypeOK, Next PROVE fault' \in BOOLEAN /\ raced' \in BOOLEAN
<1>1. raced' \in BOOLEAN
  BY Zenon DEF Next
<1>2. ASSUME NEW w \in Writer, WriterStep(w) PROVE fault' \in BOOLEAN
  <2>0. fault \in BOOLEAN
    BY DEF TypeOK
  <2>1. CASE \/ Write(w) \/ Reset(w) \/ Check(w) \/ Grow(w) \/ Refreshed(w) \/ Wake(w)
             \/ Sorted(w)
    BY <2>0, <2>1, Zenon DEF Write, Reset, Check, Grow, Refreshed, Wake, Sorted
  <2>2. CASE FreeOld(w) \/ Move(w)
    BY <2>0, <2>2, Zenon DEF FreeOld, Move, FreeNode
  <2>3. CASE Copy(w) \/ Install(w) \/ Slot(w) \/ Fill(w)
    BY <2>0, <2>3, Zenon DEF Copy, Install, Slot, Fill
  <2>4. CASE SortCompare(w) \/ SortLoad(w)
    BY <2>0, <2>4, Zenon DEF SortCompare, SortLoad
  <2>5. CASE SortStoreFirst(w) \/ SortStoreSecond(w)
    BY <2>0, <2>5, Zenon DEF SortStoreFirst, SortStoreSecond, SortStore
  <2>6. CASE Show(w)
    BY <2>0, <2>6, Zenon DEF Show
  <2> QED BY <1>2, <2>1, <2>2, <2>3, <2>4, <2>5, <2>6 DEF WriterStep
<1>3. CASE ExitTables \/ ExitRecords \/ ExitRemove
  <2>1. CASE ExitTables
    BY <1>1, <2>1, Zenon DEF ExitTables
  <2>2. CASE ExitRecords
    BY <1>1, <2>2, Zenon DEF ExitRecords
  <2>3. CASE ExitRemove
    BY <1>1, <2>3, Zenon DEF ExitRemove, TypeOK
  <2> QED BY <1>3, <2>1, <2>2, <2>3
<1> QED BY <1>1, <1>2, <1>3 DEF Next

LEMMA TablesStep == ASSUME TypeOK, Next PROVE TablesOK'
<1> SUFFICES ASSUME ~raced', ~fault'
             PROVE  /\ hash_table_old' \cup hash_table_new' \subseteq nodes'
                    /\ hash_table_old' \cap hash_table_new' = {}
  BY DEF TablesOK
<1>1. /\ hash_table_old \cup hash_table_new \subseteq nodes
      /\ hash_table_old \cap hash_table_new = {}
  <2>1. ~raced /\ ~fault
    BY Zenon DEF Next
  <2> QED BY <2>1 DEF TypeOK, TablesOK
<1>2. ASSUME NEW w \in Writer, WriterStep(w), ~FreeOld(w), ~Move(w), ~Fill(w)
      PROVE  UNCHANGED tables
  BY <1>2, Zenon
     DEF WriterStep, Write, Reset, Check, Grow, Copy, Install, Slot, Refreshed, Wake,
         SortCompare, SortLoad, SortStoreFirst, SortStoreSecond, SortStore, Sorted, Show
<1>3. ASSUME NEW w \in Writer, FreeOld(w)
      PROVE  \/ UNCHANGED tables
             \/ \E n \in Node \cup {Null} : /\ nodes' = nodes \ {n}
                                            /\ hash_table_old' = hash_table_old \ {n}
                                            /\ hash_table_new' = hash_table_new \ {n}
  <2>1. pos[w] \in Node \cup {Null}
    BY DEF TypeOK
  <2> QED BY <1>3, <2>1, Zenon DEF FreeOld, FreeNode
<1>4. ASSUME NEW w \in Writer, Move(w)
      PROVE  \/ UNCHANGED tables
             \/ \E n \in nodes : /\ nodes' = nodes
                                  /\ hash_table_old' = hash_table_old \cup {n}
                                  /\ hash_table_new' = hash_table_new \ {n}
  BY <1>4, Zenon DEF Move
<1>5. ASSUME NEW w \in Writer, Fill(w)
      PROVE  \/ UNCHANGED tables
             \/ \E n \in Node \ nodes : /\ nodes' = nodes \cup {n}
                                         /\ hash_table_old' = hash_table_old
                                         /\ hash_table_new' = hash_table_new \cup {n}
  BY <1>5, Zenon DEF Fill, tables
<1>6. CASE ExitTables
  <2>1. /\ nodes' = nodes \ hash_table_old /\ hash_table_old' = {}
        /\ hash_table_new' = hash_table_new
    BY <1>6, Zenon DEF ExitTables
  <2> QED BY <1>1, <2>1
<1>7. CASE ExitRecords \/ ExitRemove
  <2>1. UNCHANGED tables
    BY <1>7, Zenon DEF ExitRecords, ExitRemove
  <2> QED BY <1>1, <2>1 DEF tables
<1>8. ASSUME NEW w \in Writer, WriterStep(w)
      PROVE  /\ hash_table_old' \cup hash_table_new' \subseteq nodes'
             /\ hash_table_old' \cap hash_table_new' = {}
  <2>1. CASE FreeOld(w)
    BY <1>1, <1>3, <2>1 DEF tables
  <2>2. CASE Move(w)
    BY <1>1, <1>4, <2>2 DEF tables
  <2>3. CASE Fill(w)
    BY <1>1, <1>5, <2>3 DEF tables
  <2> QED BY <1>1, <1>2, <1>8, <2>1, <2>2, <2>3 DEF tables
<1> QED BY <1>6, <1>7, <1>8 DEF Next

LEMMA TypeStep == TypeOK /\ [Next]_vars => TypeOK'
<1> SUFFICES ASSUME TypeOK, [Next]_vars PROVE TypeOK'
  OBVIOUS
<1> USE DEF Goto, place, growth, local, array, tables, Refreshing, Growing, Sorting, Exiting,
            Pointer
<1>1. CASE UNCHANGED vars
  BY <1>1 DEF vars, TypeOK, TablesOK
<1> SUFFICES ASSUME Next PROVE TypeOK'
  BY <1>1
<1>2. fault' \in BOOLEAN /\ raced' \in BOOLEAN /\ TablesOK'
  BY FaultType, TablesStep
<1>3. ASSUME NEW w \in Writer, Write(w) \/ Reset(w) \/ Wake(w) PROVE TypeOK'
  <2>1. CASE Write(w)
    BY <1>2, <2>1 DEF Write, TypeOK
  <2>2. CASE Reset(w)
    BY <1>2, <2>2 DEF Reset, TypeOK
  <2>3. CASE Wake(w)
    BY <1>2, <2>3 DEF Wake, TypeOK
  <2> QED BY <1>3, <2>1, <2>2, <2>3
<1>4. ASSUME NEW w \in Writer, FreeOld(w) PROVE TypeOK'
  <2>1. /\ pc' = pc \/ Goto(w, "move")
        /\ UNCHANGED <<mod, second, todo, growth, swap, stale, array, n_alloc, total, records,
                       grow_failed>>
    BY <1>4, Zenon DEF FreeOld
  <2>2. \/ UNCHANGED <<pos, tables>>
        \/ \E n \in hash_table_old : pos' = [pos EXCEPT ![w] = n] /\ UNCHANGED tables
        \/ pos' = [pos EXCEPT ![w] = Null] /\ FreeNode(pos[w])
    BY <1>4, Zenon DEF FreeOld
  <2>3. pos' \in [Writer -> Node \cup {Null}]
    <3>1. pos \in [Writer -> Node \cup {Null}] /\ hash_table_old \subseteq Node
      BY DEF TypeOK
    <3>2. pos' = pos \/ \E n \in Node \cup {Null} : pos' = [pos EXCEPT ![w] = n]
      BY <2>2, <3>1, Zenon
    <3> QED BY <3>1, <3>2
  <2>4. nodes' \subseteq Node /\ hash_table_old' \subseteq Node /\ hash_table_new' \subseteq Node
    <3>1. nodes \subseteq Node /\ hash_table_old \subseteq Node /\ hash_table_new \subseteq Node
      BY DEF TypeOK
    <3>2. nodes' \subseteq nodes /\ hash_table_old' \subseteq hash_table_old
          /\ hash_table_new' \subseteq hash_table_new
      BY <2>2 DEF FreeNode
    <3> QED BY <3>1, <3>2
  <2>5. pc' \in [Writer -> {"idle", "sleep", "show"} \cup Refreshing \cup Sorting]
    BY <2>1 DEF Refreshing, TypeOK
  <2> QED BY <1>2, <2>1, <2>3, <2>4, <2>5 DEF TypeOK
<1>5. ASSUME NEW w \in Writer, Move(w) PROVE TypeOK'
  <2>1. \A n \in 0..MaxTasks : n \in Nat
    BY ConstantsAssumption DEF ConstantsAssumption
  <2>2. todo' \in [Writer -> Nat] /\ pos' \in [Writer -> Node \cup {Null}]
        /\ pc' \in [Writer -> {"idle", "sleep", "show"} \cup Refreshing \cup Sorting]
    <3>1. pc' = pc \/ Goto(w, "check")
      BY <1>5, Zenon DEF Move
    <3>2. todo' = todo \/ \E n \in 0..MaxTasks : todo' = [todo EXCEPT ![w] = n]
      BY <1>5, Zenon DEF Move
    <3>3. \/ pos' = [pos EXCEPT ![w] = Null] \/ pos' = pos
          \/ \E n \in hash_table_new : pos' = [pos EXCEPT ![w] = n]
      BY <1>5, Zenon DEF Move
    <3>4. todo' \in [Writer -> Nat]
      BY <2>1, <3>2 DEF TypeOK
    <3>5. pos' \in [Writer -> Node \cup {Null}]
      BY <3>3 DEF TypeOK
    <3> QED BY <3>1, <3>4, <3>5 DEF TypeOK
  <2>3. hash_table_old' \subseteq Node /\ hash_table_new' \subseteq Node /\ nodes' = nodes
    BY <1>5 DEF Move, TypeOK
  <2> QED BY <1>2, <1>5, <2>2, <2>3 DEF Move, TypeOK
<1>6. ASSUME NEW w \in Writer, Check(w) PROVE TypeOK'
  <2>1. n_alloc' \in Nat
    BY <1>6, GrownMore DEF Check, TypeOK
  <2>2. Goto(w, "grow") \/ Goto(w, "slot")
    BY <1>6, Zenon DEF Check
  <2>3. /\ todo[w] > 0 /\ todo' = [todo EXCEPT ![w] = @ - 1]
        /\ UNCHANGED <<mod, second, pos, growth, swap, stale, array, total, tables, records,
                       grow_failed>>
    BY <1>6, Zenon DEF Check
  <2>4. todo' \in [Writer -> Nat]
    BY <2>3 DEF TypeOK
  <2>5. pc' \in [Writer -> {"idle", "sleep", "show"} \cup Refreshing \cup Sorting]
    BY <2>2 DEF TypeOK
  <2> QED BY <1>2, <2>1, <2>3, <2>4, <2>5 DEF TypeOK
<1>7. ASSUME NEW w \in Writer, Grow(w) PROVE TypeOK'
  <2>1. DOMAIN fresh' = Writer
        /\ \A v \in Writer : fresh'[v] \in [0..(new_size'[v] - 1) -> Pointer]
    <3>1. \/ UNCHANGED growth
          \/ /\ new_size' = [new_size EXCEPT ![w] = n_alloc]
             /\ fresh' = [fresh EXCEPT ![w] = [i \in 0..(n_alloc - 1) |-> Wild]]
      BY <1>7, Zenon DEF Grow
    <3>2. CASE UNCHANGED growth
      BY <3>2 DEF TypeOK
    <3>3. CASE new_size' = [new_size EXCEPT ![w] = n_alloc]
               /\ fresh' = [fresh EXCEPT ![w] = [i \in 0..(n_alloc - 1) |-> Wild]]
      <4>1. new_size'[w] = n_alloc /\ \A v \in Writer \ {w} : new_size'[v] = new_size[v]
        BY <3>3 DEF TypeOK
      <4>2. DOMAIN fresh' = Writer /\ \A v \in Writer \ {w} : fresh'[v] = fresh[v]
        BY <3>3 DEF TypeOK
      <4>3. fresh'[w] = [i \in 0..(n_alloc - 1) |-> Wild]
        BY <3>3 DEF TypeOK
      <4>4. fresh'[w] \in [0..(new_size'[w] - 1) -> Pointer]
        BY <4>1, <4>3
      <4> QED BY <4>1, <4>2, <4>4 DEF TypeOK
    <3> QED BY <3>1, <3>2, <3>3
  <2>2. new_size' \in [Writer -> Nat] /\ grow_failed' \in BOOLEAN
    <3>1. new_size' = new_size \/ new_size' = [new_size EXCEPT ![w] = n_alloc]
      BY <1>7, Zenon DEF Grow
    <3>2. grow_failed' = grow_failed \/ grow_failed' = TRUE
      BY <1>7, Zenon DEF Grow
    <3>3. grow_failed' \in BOOLEAN
      BY <3>2, Zenon DEF TypeOK
    <3>4. new_size' \in [Writer -> Nat]
      BY <3>1 DEF TypeOK
    <3> QED BY <3>3, <3>4
  <2>3. /\ Goto(w, "copy") \/ Goto(w, "check")
        /\ UNCHANGED <<mod, second, todo, pos, swap, stale, array, n_alloc, total, tables, records>>
    BY <1>7, Zenon DEF Grow
  <2> QED BY <1>2, <2>1, <2>2, <2>3 DEF TypeOK
<1>8. ASSUME NEW w \in Writer, Copy(w) PROVE TypeOK'
  <2>1. fresh'[w] \in [0..(new_size[w] - 1) -> Pointer]
    BY <1>8 DEF Copy, TypeOK
  <2>2. DOMAIN fresh' = Writer /\ \A v \in Writer \ {w} : fresh'[v] = fresh[v]
    BY <1>8 DEF Copy, TypeOK
  <2> QED BY <1>2, <1>8, <2>1, <2>2 DEF Copy, TypeOK
<1>9. ASSUME NEW w \in Writer, Install(w) PROVE TypeOK'
  <2>1. entries' \in [0..(new_size[w] - 1) -> Pointer] /\ size' = new_size[w]
    BY <1>9 DEF Install, TypeOK
  <2>2. fresh'[w] \in [0..(new_size'[w] - 1) -> Pointer]
    BY <1>9 DEF Install, TypeOK, NoArray
  <2>3. DOMAIN fresh' = Writer
        /\ \A v \in Writer \ {w} : fresh'[v] = fresh[v] /\ new_size'[v] = new_size[v]
    BY <1>9 DEF Install, TypeOK
  <2> QED BY <1>2, <1>9, <2>1, <2>2, <2>3 DEF Install, TypeOK
<1>10. ASSUME NEW w \in Writer, Slot(w) PROVE TypeOK'
  <2>1. \/ entries' = entries /\ records' = records
        \/ \E r \in Record : entries' = [entries EXCEPT ![total] = r]
                            /\ records' = records \cup {r}
    BY <1>10, Zenon DEF Slot
  <2>2. entries' \in [0..(size - 1) -> Pointer] /\ records' \subseteq Record
    BY <2>1 DEF TypeOK
  <2>3. pc' = [pc EXCEPT ![w] = "fill"] \/ pc' = [pc EXCEPT ![w] = "check"]
    BY <1>10, Zenon DEF Slot
  <2>4. UNCHANGED <<mod, second, todo, pos, growth, swap, stale, process_info, size, n_alloc,
                    total, tables, grow_failed>>
    BY <1>10, Zenon DEF Slot
  <2> QED BY <1>2, <2>2, <2>3, <2>4 DEF TypeOK
<1>11. ASSUME NEW w \in Writer, Fill(w) PROVE TypeOK'
  <2>1. hash_table_new' \subseteq Node /\ nodes' \subseteq Node
    BY <1>11 DEF Fill, TypeOK
  <2>2. /\ Goto(w, "check") /\ total' = total + 1
        /\ UNCHANGED <<mod, second, todo, pos, growth, swap, stale, array, n_alloc,
                       hash_table_old, records, grow_failed>>
    BY <1>11, Zenon DEF Fill
  <2> QED BY <1>2, <2>1, <2>2 DEF TypeOK
<1>12. ASSUME NEW w \in Writer, Refreshed(w) \/ Sorted(w) PROVE TypeOK'
  <2>1. CASE Refreshed(w)
    <3>1. pc' = [pc EXCEPT ![w] = "sort"] \/ pc' = [pc EXCEPT ![w] = "sleep"]
      BY <2>1, Zenon DEF Refreshed, Goto
    <3>2. todo' = todo \/ todo' = [todo EXCEPT ![w] = total]
      BY <2>1, Zenon DEF Refreshed
    <3>3. stale' = stale \/ stale' = stale \ {w}
      BY <2>1, Zenon DEF Refreshed
    <3>4. UNCHANGED <<mod, second, pos, growth, swap, array, n_alloc, total, tables, fault,
                      records, grow_failed>>
      BY <2>1, Zenon DEF Refreshed
    <3>5. pc' \in [Writer -> {"idle", "sleep", "show"} \cup Refreshing \cup Sorting]
      BY <3>1 DEF Sorting, TypeOK
    <3>6. todo \in [Writer -> Nat] /\ total \in Nat /\ stale \subseteq Writer
      BY DEF TypeOK
    <3>7. todo' \in [Writer -> Nat] /\ stale' \subseteq Writer
      BY <3>2, <3>3, <3>6
    <3> QED BY <1>2, <3>4, <3>5, <3>7 DEF TypeOK
  <2>2. CASE Sorted(w)
    BY <1>2, <2>2 DEF Sorted, TypeOK
  <2> QED BY <1>12, <2>1, <2>2
<1>13. ASSUME NEW w \in Writer, SortCompare(w) \/ Show(w) PROVE TypeOK'
  <2>1. /\ pc' = pc \/ Goto(w, "idle")
        /\ todo' = todo \/ todo' = [todo EXCEPT ![w] = 0]
           \/ todo' = [todo EXCEPT ![w] = @ + 1]
        /\ UNCHANGED <<mod, second, pos, growth, swap, stale, array, n_alloc, total, tables,
                       records, grow_failed>>
    BY <1>13, Zenon DEF SortCompare, Show
  <2>2. pc' \in [Writer -> {"idle", "sleep", "show"} \cup Refreshing \cup Sorting]
    BY <2>1 DEF TypeOK
  <2>3. todo' \in [Writer -> Nat]
    <3>1. todo \in [Writer -> Nat]
      BY DEF TypeOK
    <3>2. CASE todo' = todo \/ todo' = [todo EXCEPT ![w] = 0]
      BY <3>1, <3>2
    <3>3. CASE todo' = [todo EXCEPT ![w] = @ + 1]
      BY <3>1, <3>3
    <3> QED BY <2>1, <3>2, <3>3
  <2> QED BY <1>2, <2>1, <2>2, <2>3 DEF TypeOK
<1>14. ASSUME NEW w \in Writer, SortLoad(w) PROVE TypeOK'
  <2>1. /\ Goto(w, "swap")
        /\ UNCHANGED <<mod, second, todo, pos, growth, stale, array, n_alloc, total, tables,
                       records, grow_failed>>
    BY <1>14, Zenon DEF SortLoad
  <2>2. PICK i \in 0..(todo[w] - 1), j \in 0..(todo[w] - 1) :
           /\ fault' = (w \in stale \/ ~InArray(i) \/ ~InArray(j))
           /\ swap' = IF fault' THEN swap
                      ELSE [swap EXCEPT ![w] = [i |-> i, j |-> j, a |-> entries[i], b |-> entries[j]]]
    BY <1>14, Zenon DEF SortLoad
  <2>3. \/ swap' = swap
        \/ /\ i < size /\ j < size
           /\ swap' = [swap EXCEPT ![w] = [i |-> i, j |-> j, a |-> entries[i], b |-> entries[j]]]
    BY <2>2, Zenon DEF InArray
  <2>4. swap' \in [Writer -> [i : Nat, j : Nat, a : Pointer, b : Pointer]]
    <3>1. swap \in [Writer -> [i : Nat, j : Nat, a : Pointer, b : Pointer]]
      BY DEF TypeOK
    <3>2. i \in Nat /\ j \in Nat
      BY DEF TypeOK
    <3>3. CASE /\ i < size /\ j < size
               /\ swap' = [swap EXCEPT ![w] = [i |-> i, j |-> j, a |-> entries[i], b |-> entries[j]]]
      <4>1. entries[i] \in Pointer /\ entries[j] \in Pointer
        BY <3>2, <3>3 DEF TypeOK
      <4> DEFINE s == [i |-> i, j |-> j, a |-> entries[i], b |-> entries[j]]
      <4>2. s \in [i : Nat, j : Nat, a : Pointer, b : Pointer]
        BY <3>2, <4>1
      <4> HIDE DEF s
      <4> QED BY <3>1, <4>2, <3>3 DEF s
    <3> QED BY <2>3, <3>1, <3>3
  <2> QED BY <1>2, <2>1, <2>4 DEF TypeOK
<1>15. ASSUME NEW w \in Writer, SortStoreFirst(w) \/ SortStoreSecond(w) PROVE TypeOK'
  <2>1. NoSwap \in [i : Nat, j : Nat, a : Pointer, b : Pointer]
    BY DEF NoSwap
  <2>2. swap[w].a \in Pointer /\ swap[w].b \in Pointer
    BY DEF TypeOK
  <2>3. /\ Goto(w, "store") \/ Goto(w, "sort")
        /\ \/ entries' = entries
           \/ entries' = [entries EXCEPT ![swap[w].i] = swap[w].b]
           \/ entries' = [entries EXCEPT ![swap[w].j] = swap[w].a]
        /\ swap' = swap \/ swap' = [swap EXCEPT ![w] = NoSwap]
        /\ UNCHANGED <<mod, second, todo, pos, growth, stale, process_info, size, n_alloc,
                       total, tables, records, grow_failed>>
    BY <1>15, Zenon DEF SortStoreFirst, SortStoreSecond, SortStore
  <2>4. entries' \in [0..(size - 1) -> Pointer]
    <3>1. entries \in [0..(size - 1) -> Pointer]
      BY DEF TypeOK
    <3> HIDE DEF Pointer
    <3> QED BY <2>2, <2>3, <3>1
  <2>5. swap' \in [Writer -> [i : Nat, j : Nat, a : Pointer, b : Pointer]]
    <3> HIDE DEF Pointer
    <3>1. swap' = swap \/ swap' = [swap EXCEPT ![w] = NoSwap]
      BY <2>3
    <3> QED BY <2>1, <3>1 DEF TypeOK
  <2>6. pc' \in [Writer -> {"idle", "sleep", "show"} \cup Refreshing \cup Sorting]
    BY <2>3 DEF TypeOK
  <2> QED BY <1>2, <2>3, <2>4, <2>5, <2>6 DEF TypeOK
<1>16. CASE ExitTables \/ ExitRecords \/ ExitRemove
  <2>1. /\ mod' \in {"free_records", "remove", "gone"}
        /\ nodes' \subseteq nodes /\ records' \subseteq records
        /\ hash_table_old' \subseteq hash_table_old
        /\ process_info' = process_info \/ process_info' = "freed"
        /\ UNCHANGED <<local, size, entries, n_alloc, total, hash_table_new, grow_failed>>
    BY <1>16 DEF ExitTables, ExitRecords, ExitRemove
  <2> QED BY <1>2, <2>1 DEF TypeOK
<1> QED
  BY <1>3, <1>4, <1>5, <1>6, <1>7, <1>8, <1>9, <1>10, <1>11, <1>12, <1>13, <1>14, <1>15, <1>16
     DEF Next, WriterStep

LEMMA TypeInit == Init => TypeOK
<1> SUFFICES ASSUME Init PROVE TypeOK
  OBVIOUS
<1> USE DEF Init
<1>1. /\ pc \in [Writer -> {"idle", "sleep", "show"} \cup Refreshing \cup Sorting]
      /\ todo \in [Writer -> Nat] /\ pos \in [Writer -> Node \cup {Null}]
      /\ new_size \in [Writer -> Nat]
  OBVIOUS
<1>2. DOMAIN fresh = Writer /\ \A w \in Writer : fresh[w] \in [0..(new_size[w] - 1) -> Pointer]
  BY DEF NoArray, Pointer
<1>3. swap \in [Writer -> [i : Nat, j : Nat, a : Pointer, b : Pointer]]
  BY DEF NoSwap, Pointer
<1>4. entries \in [0..(size - 1) -> Pointer]
  BY DEF NoArray, Pointer
<1>5. fault \in BOOLEAN /\ grow_failed \in BOOLEAN /\ raced \in BOOLEAN
  OBVIOUS
<1> QED BY <1>1, <1>2, <1>3, <1>4, <1>5 DEF TypeOK, TablesOK

\* TypeOK: for any writers, addresses, growth and number of tasks; without a race
\* no table keeps a node that was freed.
THEOREM TypeCorrect == Spec => []TypeOK
BY TypeInit, TypeStep, PTL DEF Spec

-----------------------------------------------------------------------------
(* What the parts of the invariant depend on                               *)

LEMMA OwnerStays ==
    ASSUME OwnerInv, UNCHANGED <<size, entries, records>>,
           mod' \in {"live", "free_records"} => mod \in {"live", "free_records"},
           Half' = Half, \A v \in Half : swap'[v] = swap[v]
    PROVE  OwnerInv'
BY DEF OwnerInv

LEMMA SwapStays ==
    ASSUME SwapInv, UNCHANGED <<entries, records>>,
           \A v \in Writer : pc'[v] \in {"swap", "store"} =>
                             pc'[v] = pc[v] /\ todo'[v] = todo[v] /\ swap'[v] = swap[v]
    PROVE  SwapInv'
BY DEF SwapInv

LEMMA NodesStay ==
    ASSUME NodeInv, UNCHANGED <<mod, tables, pos>>,
           \A v \in Writer : pos[v] # Null => pc'[v] = pc[v]
    PROVE  NodeInv'
BY DEF NodeInv, tables

\* A step that moves one writer and leaves the array, the records and the tables alone
LEMMA OneMoves ==
    ASSUME TypeOK, SwapInv, OwnerInv, NodeInv, FreedInv, NEW w \in Writer, NEW to,
           pc' = [pc EXCEPT ![w] = to], to \notin Sorting, pc[w] # "store", pos[w] = Null,
           \A v \in Writer \ {w} : todo'[v] = todo[v],
           UNCHANGED <<mod, pos, swap, size, entries, records, tables>>
    PROVE  SwapInv' /\ OwnerInv' /\ NodeInv' /\ FreedInv'
<1>1. \A v \in Writer : pc'[v] = IF v = w THEN to ELSE pc[v]
  BY DEF TypeOK
<1>2. SwapInv'
  BY <1>1, SwapStays DEF Sorting
<1>3. Half' = Half
  BY <1>1 DEF Half, Sorting
<1>4. OwnerInv'
  BY <1>3, OwnerStays
<1>5. NodeInv'
  BY <1>1, NodesStay
<1> QED BY <1>2, <1>4, <1>5 DEF FreedInv

-----------------------------------------------------------------------------
(* Races and faults                                                        *)

LEMMA StopStep == TypeOK /\ StopInv /\ [Next]_vars => StopInv'
<1> SUFFICES ASSUME TypeOK, StopInv, [Next]_vars, mod' = "gone"
             PROVE  ~fault' /\ \A w \in Writer : pc'[w] = "idle"
  BY DEF StopInv
<1>1. CASE UNCHANGED vars
  BY <1>1 DEF vars, local, place, StopInv
<1>2. CASE ExitRemove /\ ~fault
  BY <1>2 DEF ExitRemove, local, place
<1>3. ASSUME NEW w \in Writer, WriterStep(w) PROVE FALSE
  <2>1. mod' = mod
    BY <1>3, Zenon
       DEF WriterStep, Write, Reset, FreeOld, Move, Check, Grow, Copy, Install, Slot, Fill,
           Refreshed, Wake, SortCompare, SortLoad, SortStoreFirst, SortStoreSecond, SortStore,
           Sorted, Show
  <2>2. pc[w] = "idle"
    BY <2>1 DEF StopInv
  <2>3. pc[w] # "idle" \/ (Write(w) /\ mod # "gone")
    BY <1>3
       DEF WriterStep, Write, Reset, FreeOld, Move, Check, Grow, Copy, Install, Slot, Fill,
           Refreshed, Wake, SortCompare, SortLoad, SortStoreFirst, SortStoreSecond, Sorted, Show
  <2> QED BY <2>1, <2>2, <2>3
<1>4. ~ExitTables /\ ~ExitRecords
  BY DEF ExitTables, ExitRecords
<1> QED BY <1>1, <1>2, <1>3, <1>4 DEF Next

\* Without a race, a writer meets no exit function; one that refreshes is alone but
\* for writers that sort or print, and for none of these while it replaces the array;
\* one that sorts is the only one to sort.
LEMMA Alone ==
    ASSUME TypeOK, StopInv, ~Race, NEW w \in Writer, pc[w] # "idle"
    PROVE  /\ mod = "live"
           /\ \A v \in Writer \ {w} :
                 /\ pc[w] \in Refreshing => pc[v] \notin Refreshing
                 /\ pc[w] \in Growing => pc[v] \notin Sorting \cup {"show"}
                 /\ pc[w] \in Sorting => pc[v] \notin Sorting
<1>1. mod \notin Exiting
  BY DEF Race
<1>2. mod # "gone"
  BY DEF StopInv
<1> QED BY <1>1, <1>2 DEF Race, TypeOK

\* The entries below the length of a sort have live records.
LEMMA FilledIsLive ==
    ASSUME TypeOK, OwnerInv, mod = "live", NEW i \in Nat, Filled(i)
    PROVE  i \in 0..(size - 1) /\ entries[i] \in records
<1>1. i \in 0..(size - 1)
  BY DEF Filled, TypeOK
<1> QED BY <1>1 DEF Filled, OwnerInv

\* The steps of my_write that leave array, tables and exchanges alone
LEMMA QuietMoves ==
    ASSUME TypeOK, TypeOK', StopInv, ~Race, Quiet, NEW w \in Writer,
           \/ Write(w) \/ Wake(w) \/ Reset(w) \/ Check(w) \/ Grow(w) \/ Refreshed(w)
           \/ Sorted(w) \/ Show(w) \/ SortCompare(w)
    PROVE  Quiet'
<1> USE DEF Goto, growth, array
<1>0. ArrayInv /\ PlaceInv /\ SwapInv /\ OwnerInv /\ NodeInv /\ FreedInv
  BY DEF Quiet
<1>1. pos[w] # Null => pc[w] \in {"free_old", "move"}
  BY <1>0 DEF NodeInv
<1>2. CASE Write(w) \/ Wake(w)
  <2>1. /\ pc[w] \in {"idle", "sleep"} /\ pc' = [pc EXCEPT ![w] = "reset"]
        /\ UNCHANGED <<mod, todo, pos, new_size, fresh, swap, stale, process_info, size, entries,
                       n_alloc, total, tables, records, grow_failed>>
    BY <1>2, Zenon DEF Write, Wake
  <2>2. \A v \in Writer : pc'[v] = IF v = w THEN "reset" ELSE pc[v]
    BY <2>1 DEF TypeOK
  <2>3. ArrayInv'
    BY <1>0, <2>1, <2>2 DEF ArrayInv, Unsettled, Filled
  <2>4. PlaceInv'
    BY <1>0, <2>1, <2>2 DEF PlaceInv, Unsettled, Growing, Sorting, Filled
  <2> QED BY <1>0, <1>1, <2>1, <2>3, <2>4, OneMoves DEF Quiet, Sorting
<1>3. CASE Reset(w)
  <2>1. /\ pc[w] = "reset" /\ pc' = [pc EXCEPT ![w] = "free_old"] /\ total' = 0
        /\ UNCHANGED <<mod, todo, pos, new_size, fresh, swap, stale, process_info, size, entries,
                       n_alloc, tables, records, grow_failed>>
    BY <1>3, Zenon DEF Reset
  <2>2. \A v \in Writer : pc'[v] = IF v = w THEN "free_old" ELSE pc[v]
    BY <2>1 DEF TypeOK
  <2>3. \A v \in Writer \ {w} : pc[v] \notin Refreshing
    BY <2>1, Alone DEF Refreshing
  <2>4. ArrayInv'
    BY <1>0, <2>1, <2>2 DEF ArrayInv, Unsettled, Filled
  <2>5. PlaceInv'
    BY <1>0, <2>1, <2>2, <2>3 DEF PlaceInv, Unsettled, Growing, Sorting, Refreshing, Filled
  <2> QED BY <1>0, <1>1, <2>1, <2>4, <2>5, OneMoves DEF Quiet, Sorting
<1>4. CASE Check(w)
  <2>1. /\ pc[w] = "check"
        /\ \A v \in Writer \ {w} : todo'[v] = todo[v]
        /\ \/ /\ n_alloc = total /\ n_alloc' = Grown(n_alloc)
              /\ pc' = [pc EXCEPT ![w] = "grow"]
           \/ /\ n_alloc # total /\ n_alloc' = n_alloc
              /\ pc' = [pc EXCEPT ![w] = "slot"]
        /\ UNCHANGED <<mod, pos, new_size, fresh, swap, stale, process_info, size, entries,
                       total, tables, records, grow_failed>>
    BY <1>4 DEF Check, TypeOK
  <2>2. \A v \in Writer \ {w} : pc[v] \notin Refreshing
    BY <2>1, Alone DEF Refreshing
  <2>3. IF grow_failed THEN n_alloc > size ELSE n_alloc = size
    BY <1>0, <2>1, <2>2 DEF ArrayInv, Unsettled, Refreshing
  <2>4. total <= size
    <3>1. total \in Nat /\ size \in Nat
      BY DEF TypeOK
    <3>2. \A i \in 0..(total - 1) : i < size
      BY <1>0 DEF ArrayInv, Filled
    <3> QED BY <3>1, <3>2
  <2>5. size \in Nat /\ n_alloc \in Nat /\ total \in Nat /\ grow_failed \in BOOLEAN
    BY DEF TypeOK
  <2>6. CASE pc' = [pc EXCEPT ![w] = "grow"]
    <3>1. \A v \in Writer : pc'[v] = IF v = w THEN "grow" ELSE pc[v]
      BY <2>6 DEF TypeOK
    <3>2. n_alloc = total /\ n_alloc' = Grown(n_alloc)
      <4>1. pc'[w] = "grow"
        BY <3>1
      <4>2. pc' # [pc EXCEPT ![w] = "slot"]
        BY <4>1 DEF TypeOK
      <4> QED BY <2>1, <4>2
    <3>3. ~grow_failed /\ total = size /\ n_alloc' > size
      BY <2>3, <2>4, <2>5, <3>2, GrownMore
    <3>4. ArrayInv'
      BY <1>0, <2>1, <3>1 DEF ArrayInv, Unsettled, Filled
    <3>5. PlaceInv'
      BY <1>0, <2>1, <2>2, <3>1, <3>3
         DEF PlaceInv, Unsettled, Growing, Sorting, Refreshing, Filled
    <3> QED BY <1>0, <1>1, <2>1, <2>6, <3>4, <3>5, OneMoves DEF Quiet, Sorting
  <2>7. CASE pc' = [pc EXCEPT ![w] = "slot"]
    <3>1. \A v \in Writer : pc'[v] = IF v = w THEN "slot" ELSE pc[v]
      BY <2>7 DEF TypeOK
    <3>2. n_alloc # total /\ n_alloc' = n_alloc
      <4>1. pc'[w] = "slot"
        BY <3>1
      <4>2. pc' # [pc EXCEPT ![w] = "grow"]
        BY <4>1 DEF TypeOK
      <4> QED BY <2>1, <4>2
    <3>3. grow_failed \/ total < size
      BY <2>3, <2>4, <2>5, <3>2
    <3>4. ArrayInv'
      BY <1>0, <2>1, <3>1, <3>2 DEF ArrayInv, Unsettled, Filled
    <3>5. PlaceInv'
      BY <1>0, <2>1, <2>2, <3>1, <3>3
         DEF PlaceInv, Unsettled, Growing, Sorting, Refreshing, Filled
    <3> QED BY <1>0, <1>1, <2>1, <2>7, <3>4, <3>5, OneMoves DEF Quiet, Sorting
  <2> QED BY <2>1, <2>6, <2>7
<1>5. CASE Grow(w)
  <2>1. /\ pc[w] = "grow"
        /\ UNCHANGED <<mod, todo, pos, swap, stale, process_info, size, entries, n_alloc, total,
                       tables, records>>
    BY <1>5, Zenon DEF Grow
  <2>2. \A v \in Writer \ {w} : pc[v] \notin Refreshing
    BY <2>1, Alone DEF Refreshing
  <2>3. ~grow_failed /\ total = size /\ n_alloc > size
    BY <1>0, <2>1 DEF PlaceInv, Unsettled
  <2>4. CASE pc' = [pc EXCEPT ![w] = "copy"] /\ new_size' = [new_size EXCEPT ![w] = n_alloc]
             /\ grow_failed' = grow_failed
    <3>1. \A v \in Writer : pc'[v] = IF v = w THEN "copy" ELSE pc[v]
      BY <2>4 DEF TypeOK
    <3>2. new_size'[w] = n_alloc
      BY <2>4 DEF TypeOK
    <3>3. ArrayInv'
      BY <1>0, <2>1, <2>4, <3>1 DEF ArrayInv, Unsettled, Filled
    <3>4. PlaceInv'
      BY <1>0, <2>1, <2>2, <2>3, <2>4, <3>1, <3>2
         DEF PlaceInv, Unsettled, Growing, Sorting, Refreshing, Filled
    <3> QED BY <1>0, <1>1, <2>1, <2>4, <3>3, <3>4, OneMoves DEF Quiet, Sorting
  <2>5. CASE pc' = [pc EXCEPT ![w] = "check"] /\ grow_failed' = TRUE
    <3>1. \A v \in Writer : pc'[v] = IF v = w THEN "check" ELSE pc[v]
      BY <2>5 DEF TypeOK
    <3>2. ArrayInv'
      BY <1>0, <2>1, <2>3, <2>5, <3>1 DEF ArrayInv, Unsettled, Filled
    <3>3. PlaceInv'
      BY <1>0, <2>1, <2>2, <2>5, <3>1
         DEF PlaceInv, Unsettled, Growing, Sorting, Refreshing, Filled
    <3> QED BY <1>0, <1>1, <2>1, <2>5, <3>2, <3>3, OneMoves DEF Quiet, Sorting
  <2> QED BY <1>5, <2>4, <2>5, Zenon DEF Grow
<1>6. CASE Refreshed(w)
  <2>1. /\ pc[w] = "check"
        /\ UNCHANGED <<mod, pos, new_size, fresh, swap, process_info, size, entries,
                       n_alloc, total, tables, records, grow_failed>>
    BY <1>6, Zenon DEF Refreshed
  <2>2. CASE pc' = [pc EXCEPT ![w] = "sort"] /\ todo' = [todo EXCEPT ![w] = total]
             /\ stale' = stale \ {w}
    <3>1. \A v \in Writer : /\ pc'[v] = IF v = w THEN "sort" ELSE pc[v]
                            /\ todo'[v] = IF v = w THEN total ELSE todo[v]
      BY <2>2 DEF TypeOK
    <3>2. ArrayInv'
      BY <1>0, <2>1, <3>1 DEF ArrayInv, Unsettled, Filled
    <3>3. PlaceInv'
      BY <1>0, <2>1, <2>2, <3>1
         DEF PlaceInv, ArrayInv, Unsettled, Growing, Sorting, Filled
    <3>4. SwapInv'
      BY <1>0, <2>1, <3>1, SwapStays
    <3>5. Half' = Half
      BY <2>1, <3>1 DEF Half
    <3>6. OwnerInv'
      BY <1>0, <2>1, <3>5, OwnerStays
    <3>7. NodeInv'
      BY <1>0, <1>1, <2>1, <3>1, NodesStay
    <3> QED BY <1>0, <2>1, <3>2, <3>3, <3>4, <3>6, <3>7 DEF Quiet, FreedInv
  <2>3. CASE pc' = [pc EXCEPT ![w] = "sleep"] /\ todo' = todo /\ stale' = stale
    <3>1. \A v \in Writer : pc'[v] = IF v = w THEN "sleep" ELSE pc[v]
      BY <2>3 DEF TypeOK
    <3>2. ArrayInv'
      BY <1>0, <2>1, <3>1 DEF ArrayInv, Unsettled, Filled
    <3>3. PlaceInv'
      BY <1>0, <2>1, <2>3, <3>1 DEF PlaceInv, Unsettled, Growing, Sorting, Filled
    <3> QED BY <1>0, <1>1, <2>1, <2>3, <3>2, <3>3, OneMoves DEF Quiet, Sorting
  <2> QED BY <1>6, <2>2, <2>3, Zenon DEF Refreshed
<1>7. CASE Sorted(w)
  <2>1. /\ pc[w] = "sort" /\ pc' = [pc EXCEPT ![w] = "show"] /\ stale' = stale \ {w}
        /\ \A v \in Writer \ {w} : todo'[v] = todo[v]
        /\ UNCHANGED <<mod, pos, new_size, fresh, swap, process_info, size, entries,
                       n_alloc, total, tables, records, grow_failed>>
    BY <1>7 DEF Sorted, TypeOK
  <2>2. \A v \in Writer : pc'[v] = IF v = w THEN "show" ELSE pc[v]
    BY <2>1 DEF TypeOK
  <2>3. ArrayInv'
    BY <1>0, <2>1, <2>2 DEF ArrayInv, Unsettled, Filled
  <2>4. PlaceInv'
    BY <1>0, <2>1, <2>2 DEF PlaceInv, Unsettled, Growing, Sorting, Filled
  <2> QED BY <1>0, <1>1, <2>1, <2>3, <2>4, OneMoves DEF Quiet, Sorting
<1>8. CASE Show(w) \/ SortCompare(w)
  <2>1. /\ pc[w] \in {"show", "sort"}
        /\ \/ pc' = [pc EXCEPT ![w] = "idle"] /\ pc[w] = "show"
           \/ pc' = pc
        /\ pc[w] = "sort" => todo' = todo
        /\ \A v \in Writer \ {w} : todo'[v] = todo[v]
        /\ UNCHANGED <<mod, pos, new_size, fresh, swap, stale, process_info, size, entries,
                       n_alloc, total, tables, records, grow_failed>>
    BY <1>8 DEF Show, SortCompare, local, place, TypeOK
  <2>2. \A v \in Writer : pc'[v] = pc[v] \/ (v = w /\ pc'[v] = "idle" /\ pc[v] = "show")
    BY <2>1 DEF TypeOK
  <2>3. ArrayInv'
    BY <1>0, <2>1, <2>2 DEF ArrayInv, Unsettled, Filled
  <2>4. PlaceInv'
    BY <1>0, <2>1, <2>2 DEF PlaceInv, Unsettled, Growing, Sorting, Filled
  <2>5. SwapInv'
    BY <1>0, <2>1, <2>2, SwapStays
  <2>6. Half' = Half
    BY <2>2 DEF Half
  <2>7. OwnerInv'
    BY <1>0, <2>1, <2>6, OwnerStays
  <2>8. NodeInv'
    BY <1>0, <1>1, <2>1, <2>2, NodesStay
  <2> QED BY <1>0, <2>1, <2>3, <2>4, <2>5, <2>7, <2>8 DEF Quiet, FreedInv
<1> QED BY <1>2, <1>3, <1>4, <1>5, <1>6, <1>7, <1>8

\* The walks through the tables
LEMMA QuietWalks ==
    ASSUME TypeOK, TypeOK', StopInv, ~Race, Quiet, ~fault', NEW w \in Writer,
           FreeOld(w) \/ Move(w)
    PROVE  Quiet'
<1> USE DEF Goto, growth, array
<1>0. ArrayInv /\ PlaceInv /\ SwapInv /\ OwnerInv /\ NodeInv /\ FreedInv
  BY DEF Quiet
<1>1. /\ pc[w] \in {"free_old", "move"}
      /\ \/ pc' = pc /\ todo' = todo
         \/ pc' = [pc EXCEPT ![w] = "move"] /\ todo' = todo
         \/ /\ pc' = [pc EXCEPT ![w] = "check"]
            /\ \E n \in 0..MaxTasks : todo' = [todo EXCEPT ![w] = n]
      /\ UNCHANGED <<mod, new_size, fresh, swap, stale, process_info, size, entries,
                     n_alloc, total, records, grow_failed>>
  <2>1. CASE FreeOld(w)
    BY <2>1, Zenon DEF FreeOld
  <2>2. CASE Move(w)
    BY <2>2, Zenon DEF Move
  <2> QED BY <2>1, <2>2
<1>2. /\ \A v \in Writer \ {w} : pc'[v] = pc[v] /\ todo'[v] = todo[v]
      /\ pc'[w] \in {pc[w], "move", "check"}
  BY <1>1 DEF TypeOK
<1>3. /\ mod = "live"
      /\ \A v \in Writer \ {w} : pc[v] \notin Refreshing
  BY <1>1, Alone DEF Refreshing
<1>4. ArrayInv'
  BY <1>0, <1>1, <1>2 DEF ArrayInv, Unsettled, Filled
<1>5. PlaceInv'
  BY <1>0, <1>1, <1>2 DEF PlaceInv, Unsettled, Growing, Sorting, Filled
<1>6. SwapInv'
  BY <1>0, <1>1, <1>2, SwapStays
<1>7. OwnerInv'
  <2>1. Half' = Half
    BY <1>1, <1>2 DEF Half
  <2> QED BY <1>0, <1>1, <2>1, OwnerStays
\* No other writer has reached a node.
<1>8. \A v \in Writer \ {w} : pos[v] = Null
  BY <1>0, <1>3 DEF NodeInv, Refreshing
<1>9. \/ /\ pos[w] = Null /\ pc' = pc /\ UNCHANGED tables
         /\ \E n \in IF pc[w] = "free_old" THEN hash_table_old ELSE hash_table_new :
                pos' = [pos EXCEPT ![w] = n]
      \/ /\ pos[w] = Null /\ pos' = pos /\ UNCHANGED tables
      \/ /\ pos' = [pos EXCEPT ![w] = Null]
         /\ pc[w] = "free_old" /\ pos[w] # Null
         /\ nodes' = nodes \ {pos[w]}
         /\ hash_table_old' = hash_table_old \ {pos[w]}
         /\ hash_table_new' = hash_table_new \ {pos[w]}
      \/ /\ pos' = [pos EXCEPT ![w] = Null]
         /\ pc[w] = "move" /\ pos[w] # Null
         /\ nodes' = nodes
         /\ hash_table_old' = hash_table_old \cup {pos[w]}
         /\ hash_table_new' = hash_table_new \ {pos[w]}
  <2>1. CASE FreeOld(w)
    <3>1. pc[w] = "free_old"
      BY <2>1 DEF FreeOld
    <3> QED BY <2>1, <3>1, Zenon DEF FreeOld, FreeNode
  <2>2. CASE Move(w)
    <3>1. pc[w] = "move" /\ pc[w] # "free_old"
      BY <2>2 DEF Move
    <3> QED BY <2>2, <3>1, Zenon DEF Move
  <2> QED BY <2>1, <2>2
<1>10. NodeInv'
  <2>1. CASE pos[w] = Null /\ pc' = pc /\ UNCHANGED tables
             /\ \E n \in IF pc[w] = "free_old" THEN hash_table_old ELSE hash_table_new :
                   pos' = [pos EXCEPT ![w] = n]
    BY <1>0, <1>1, <1>8, <2>1 DEF NodeInv, tables, TypeOK
  <2>2. CASE pos[w] = Null /\ pos' = pos /\ UNCHANGED tables
    BY <1>0, <1>1, <1>8, <2>2 DEF NodeInv, tables
  <2>3. CASE /\ pos' = [pos EXCEPT ![w] = Null]
             /\ pc[w] = "free_old" /\ pos[w] # Null
             /\ nodes' = nodes \ {pos[w]}
             /\ hash_table_old' = hash_table_old \ {pos[w]}
             /\ hash_table_new' = hash_table_new \ {pos[w]}
    <3>1. \A v \in Writer : pos'[v] = Null
      BY <1>8, <2>3 DEF TypeOK
    <3> QED BY <1>0, <1>1, <1>3, <2>3, <3>1 DEF NodeInv
  <2>4. CASE /\ pos' = [pos EXCEPT ![w] = Null]
             /\ pc[w] = "move" /\ pos[w] # Null
             /\ nodes' = nodes
             /\ hash_table_old' = hash_table_old \cup {pos[w]}
             /\ hash_table_new' = hash_table_new \ {pos[w]}
    <3>1. \A v \in Writer : pos'[v] = Null
      BY <1>8, <2>4 DEF TypeOK
    <3>2. pos[w] \in hash_table_new
      BY <1>0, <2>4 DEF NodeInv
    <3> QED BY <1>0, <1>1, <1>3, <2>4, <3>1, <3>2 DEF NodeInv
  <2> QED BY <1>9, <2>1, <2>2, <2>3, <2>4
<1> QED BY <1>0, <1>1, <1>4, <1>5, <1>6, <1>7, <1>10 DEF Quiet, FreedInv

\* The array is replaced by a larger one with the same entries.
LEMMA QuietGrows ==
    ASSUME TypeOK, TypeOK', StopInv, ~Race, Quiet, NEW w \in Writer, Copy(w) \/ Install(w)
    PROVE  Quiet'
<1> USE DEF Goto
<1>0. ArrayInv /\ PlaceInv /\ SwapInv /\ OwnerInv /\ NodeInv /\ FreedInv
  BY DEF Quiet
<1>1. pc[w] \in {"copy", "install"}
  BY DEF Copy, Install
<1>2. /\ mod = "live"
      /\ \A v \in Writer \ {w} : pc[v] \notin Refreshing \cup Sorting
  BY <1>1, Alone DEF Refreshing, Growing
<1>3. ~grow_failed /\ total = size /\ n_alloc > size /\ new_size[w] = n_alloc
  BY <1>0, <1>1 DEF PlaceInv, Unsettled, Growing
<1>4. size \in Nat /\ n_alloc \in Nat /\ total \in Nat
  BY DEF TypeOK
<1>5. Half = {}
  BY <1>1, <1>2 DEF Half, Sorting
<1>6. pos[w] = Null
  BY <1>0, <1>1 DEF NodeInv
<1>7. CASE Copy(w)
  <2>1. /\ pc[w] = "copy" /\ pc' = [pc EXCEPT ![w] = "install"]
        /\ process_info' = IF process_info = "live" THEN "freed" ELSE process_info
        /\ UNCHANGED <<mod, todo, pos, new_size, swap, size, entries, n_alloc, total, tables,
                       records, grow_failed>>
    BY <1>7, Zenon DEF Copy
  <2>2. \A v \in Writer : pc'[v] = IF v = w THEN "install" ELSE pc[v]
    BY <2>1 DEF TypeOK
  <2>3. \A i \in 0..(size - 1) : fresh'[w][i] = entries[i]
    <3>1. DOMAIN fresh[w] = 0..(new_size[w] - 1)
      BY DEF TypeOK
    <3>2. fresh'[w] = [i \in DOMAIN fresh[w] |->
                          IF i < total /\ i < size THEN entries[i] ELSE fresh[w][i]]
      BY <1>7 DEF Copy, TypeOK
    <3> QED BY <1>3, <1>4, <3>1, <3>2
  <2>4. ArrayInv'
    BY <1>0, <2>1, <2>2 DEF ArrayInv, Unsettled, Filled
  <2>5. PlaceInv'
    BY <1>2, <1>3, <2>1, <2>2, <2>3
       DEF PlaceInv, Unsettled, Growing, Sorting, Refreshing, Filled
  <2> QED BY <1>0, <1>6, <2>1, <2>4, <2>5, OneMoves DEF Quiet, Sorting
<1>8. CASE Install(w)
  <2>1. /\ pc[w] = "install" /\ pc' = [pc EXCEPT ![w] = "slot"]
        /\ process_info' = "live" /\ size' = new_size[w]
        /\ entries' = [i \in 0..(new_size[w] - 1) |-> IF i < total THEN fresh[w][i] ELSE Null]
        /\ UNCHANGED <<mod, todo, pos, swap, stale, n_alloc, total, tables, records, grow_failed>>
    BY <1>8, Zenon DEF Install
  <2>2. \A v \in Writer : pc'[v] = IF v = w THEN "slot" ELSE pc[v]
    BY <2>1 DEF TypeOK
  <2>3. \A i \in 0..(size' - 1) : entries'[i] = IF i < size THEN entries[i] ELSE Null
    <3>1. \A i \in 0..(size - 1) : fresh[w][i] = entries[i]
      BY <1>0, <2>1 DEF PlaceInv
    <3> QED BY <1>3, <1>4, <2>1, <3>1
  <2>4. size' = n_alloc /\ size < size'
    BY <1>3, <2>1
  <2>5. \A i \in 0..(total - 1) : Filled(i)'
    <3>1. ASSUME NEW i \in 0..(total - 1) PROVE i \in 0..(size' - 1) /\ i < size /\ entries[i] # Null
      BY <1>0, <1>3, <1>4, <2>4 DEF ArrayInv, Filled
    <3> QED BY <1>3, <1>4, <2>3, <2>4, <3>1 DEF Filled
  <2>6. ArrayInv'
    BY <1>3, <2>1, <2>2, <2>4, <2>5 DEF ArrayInv
  <2>7. PlaceInv'
    BY <1>2, <1>3, <2>1, <2>2, <2>4 DEF PlaceInv, Unsettled, Growing, Sorting, Refreshing
  <2>8. SwapInv' /\ Half' = {}
    BY <1>2, <2>2 DEF SwapInv, Half, Sorting
  <2>9. OwnerInv'
    <3>1. /\ \A i \in 0..(size - 1) : entries[i] = Null \/ entries[i] \in records
          /\ \A i, k \in 0..(size - 1) : i # k /\ entries[i] = entries[k] => entries[i] = Null
          /\ \A r \in records : \E i \in 0..(size - 1) : entries[i] = r
      BY <1>0, <1>2, <1>5 DEF OwnerInv
    <3>2. \A i \in 0..(size' - 1) : i \in 0..(size - 1) \/ ~(i < size)
      BY <1>4, <2>4
    <3>3. \A i \in 0..(size' - 1) : entries'[i] = Null \/ entries'[i] \in records
      BY <1>4, <2>3, <3>1, <3>2
    <3>4. \A i, k \in 0..(size' - 1) : i # k /\ entries'[i] = entries'[k] => entries'[i] = Null
      BY <1>4, <2>3, <3>1, <3>2
    <3>5. \A r \in records : \E i \in 0..(size' - 1) : entries'[i] = r
      <4> TAKE r \in records
      <4>1. PICK i \in 0..(size - 1) : entries[i] = r
        BY <3>1
      <4>2. i \in 0..(size' - 1) /\ i < size
        BY <1>3, <1>4, <2>4
      <4> QED BY <2>3, <4>1, <4>2
    <3> QED BY <2>1, <2>8, <3>3, <3>4, <3>5 DEF OwnerInv
  <2>10. NodeInv'
    BY <1>0, <1>6, <2>1, <2>2, NodesStay
  <2> QED BY <1>0, <2>1, <2>6, <2>7, <2>8, <2>9, <2>10 DEF Quiet, FreedInv
<1> QED BY <1>7, <1>8

\* A record for the next entry
LEMMA QuietSlot ==
    ASSUME TypeOK, TypeOK', StopInv, ~Race, Quiet, ~fault', NEW w \in Writer, Slot(w)
    PROVE  Quiet'
<1> USE DEF Goto
<1>0. ArrayInv /\ PlaceInv /\ SwapInv /\ OwnerInv /\ NodeInv /\ FreedInv
  BY DEF Quiet
<1>1. /\ pc[w] = "slot" /\ InArray(total)
      /\ UNCHANGED <<mod, todo, pos, growth, swap, stale, process_info, size, n_alloc, total,
                     tables, grow_failed>>
  BY Zenon DEF Slot
<1>2. /\ mod = "live"
      /\ \A v \in Writer \ {w} : pc[v] \notin Refreshing
  BY <1>1, Alone DEF Refreshing
<1>3. total \in 0..(size - 1)
  BY <1>1 DEF InArray, TypeOK
<1>4. pos[w] = Null
  BY <1>0, <1>1 DEF NodeInv
<1>5. CASE pc' = [pc EXCEPT ![w] = "check"] /\ UNCHANGED <<entries, records>>
  <2>1. \A v \in Writer : pc'[v] = IF v = w THEN "check" ELSE pc[v]
    BY <1>5 DEF TypeOK
  <2>2. ArrayInv'
    BY <1>0, <1>1, <1>5, <2>1 DEF ArrayInv, Unsettled, Filled
  <2>3. PlaceInv'
    BY <1>0, <1>1, <1>5, <2>1 DEF PlaceInv, Unsettled, Growing, Sorting, Filled, growth
  <2> QED BY <1>0, <1>1, <1>4, <1>5, <2>2, <2>3, OneMoves DEF Quiet, Sorting
<1>6. CASE pc' = [pc EXCEPT ![w] = "fill"] /\ entries[total] # Null
           /\ UNCHANGED <<entries, records>>
  <2>1. \A v \in Writer : pc'[v] = IF v = w THEN "fill" ELSE pc[v]
    BY <1>6 DEF TypeOK
  <2>2. ArrayInv'
    BY <1>0, <1>1, <1>6, <2>1 DEF ArrayInv, Unsettled, Filled
  <2>3. Filled(total)
    BY <1>3, <1>6 DEF Filled, TypeOK
  <2>4. PlaceInv'
    BY <1>0, <1>1, <1>6, <2>1, <2>3 DEF PlaceInv, Unsettled, Growing, Sorting, Filled, growth
  <2> QED BY <1>0, <1>1, <1>4, <1>6, <2>2, <2>4, OneMoves DEF Quiet, Sorting
<1>7. ASSUME NEW r \in Record \ records, entries[total] = Null,
             entries' = [entries EXCEPT ![total] = r], records' = records \cup {r},
             pc' = [pc EXCEPT ![w] = "fill"]
      PROVE  Quiet'
  <2>1. \A v \in Writer : pc'[v] = IF v = w THEN "fill" ELSE pc[v]
    BY <1>7 DEF TypeOK
  <2>2. r # Null
    BY ConstantsAssumption DEF ConstantsAssumption
  <2>3. \A i \in 0..(size - 1) : entries'[i] = IF i = total THEN r ELSE entries[i]
    BY <1>7 DEF TypeOK
  <2>4. \A i \in Nat : Filled(i) => Filled(i)' /\ entries'[i] = entries[i] /\ i # total
    <3> TAKE i \in Nat
    <3> HAVE Filled(i)
    <3>1. i \in 0..(size - 1) /\ entries[i] # Null
      BY DEF Filled, TypeOK
    <3> QED BY <1>1, <1>7, <2>3, <3>1 DEF Filled
  <2>5. Filled(total)'
    BY <1>1, <1>3, <2>2, <2>3 DEF Filled, TypeOK
  <2>6. ArrayInv'
    <3>1. \A i \in 0..(total - 1) : i \in Nat
      OBVIOUS
    <3>2. \A i \in 0..(total' - 1) : Filled(i)'
      BY <1>0, <1>1, <2>4, <3>1 DEF ArrayInv
    <3> QED BY <1>0, <1>1, <2>1, <3>2 DEF ArrayInv, Unsettled
  <2>7. PlaceInv'
    <3>1. ASSUME NEW v \in Writer, pc'[v] \in Sorting
          PROVE  v \notin stale' /\ \A i \in 0..(todo'[v] - 1) : Filled(i)'
      <4>1. pc[v] \in Sorting /\ todo'[v] = todo[v] /\ stale' = stale
        BY <1>1, <2>1, <3>1 DEF Sorting
      <4>2. v \notin stale /\ \A i \in 0..(todo[v] - 1) : Filled(i)
        BY <1>0, <4>1 DEF PlaceInv
      <4>3. \A i \in 0..(todo[v] - 1) : i \in Nat
        OBVIOUS
      <4> QED BY <2>4, <4>1, <4>2, <4>3
    <3> QED BY <1>1, <1>2, <2>1, <2>5, <3>1 DEF PlaceInv, Unsettled, Growing, Refreshing
  \* An exchange of another writer does not meet the new entry.
  <2>8. ASSUME NEW v \in Writer, pc[v] \in {"swap", "store"}
        PROVE  /\ swap[v].i \in 0..(size - 1) /\ swap[v].i # total
               /\ swap[v].j \in 0..(size - 1) /\ swap[v].j # total
               /\ swap[v].a \in records
    <3>1. /\ swap[v].i \in 0..(todo[v] - 1) /\ swap[v].j \in 0..(todo[v] - 1)
          /\ swap[v].a \in records
      BY <1>0, <2>8 DEF SwapInv
    <3>2. Filled(swap[v].i) /\ Filled(swap[v].j)
      BY <1>0, <2>8, <3>1 DEF PlaceInv, Sorting
    <3>3. swap[v].i \in Nat /\ swap[v].j \in Nat
      BY <3>1
    <3>4. swap[v].i # total /\ swap[v].j # total
      BY <2>4, <3>2, <3>3
    <3>5. size \in Nat /\ swap[v].i < size /\ swap[v].j < size
      BY <3>2 DEF Filled, TypeOK
    <3> QED BY <3>1, <3>3, <3>4, <3>5
  <2>9. SwapInv'
    <3> SUFFICES ASSUME NEW v \in Writer, pc'[v] \in {"swap", "store"}
                 PROVE  LET s == swap'[v] IN
                        /\ s.i \in 0..(todo'[v] - 1) /\ s.j \in 0..(todo'[v] - 1) /\ s.i # s.j
                        /\ entries'[s.j] = s.b
                        /\ entries'[s.i] = IF pc'[v] = "swap" THEN s.a ELSE s.b
                        /\ s.a \in records'
      BY DEF SwapInv
    <3>1. pc[v] = pc'[v] /\ swap'[v] = swap[v] /\ todo'[v] = todo[v]
      BY <1>1, <2>1
    <3>2. entries'[swap[v].i] = entries[swap[v].i] /\ entries'[swap[v].j] = entries[swap[v].j]
      BY <2>3, <2>8, <3>1
    <3> QED BY <1>0, <1>7, <3>1, <3>2 DEF SwapInv
  <2>10. OwnerInv'
    <3>1. Half' = Half
      BY <1>1, <2>1 DEF Half
    <3>2. \A i \in 0..(size - 1) : entries'[i] = Null \/ entries'[i] \in records'
      BY <1>0, <1>2, <1>7, <2>3 DEF OwnerInv
    <3>3. \A i \in 0..(size - 1) : entries[i] # r
      BY <1>0, <1>2, <2>2 DEF OwnerInv
    <3>4. \A i, k \in 0..(size - 1) :
             i # k /\ entries'[i] = entries'[k] =>
                 \/ entries'[i] = Null
                 \/ \E v \in Half : i \in {swap[v].i, swap[v].j} /\ k \in {swap[v].i, swap[v].j}
      BY <1>0, <1>2, <2>3, <3>3 DEF OwnerInv
    <3>5. ASSUME NEW q \in records'
          PROVE  \/ \E i \in 0..(size - 1) : entries'[i] = q
                 \/ \E v \in Half : swap[v].a = q
      <4>1. CASE q = r
        BY <1>3, <2>3, <4>1
      <4>2. CASE q \in records
        <5>1. q # Null
          BY <4>2, ConstantsAssumption DEF ConstantsAssumption, TypeOK
        <5> QED BY <1>0, <1>2, <1>7, <2>3, <4>2, <5>1 DEF OwnerInv
      <4> QED BY <1>7, <4>1, <4>2
    <3>6. \A v \in Half : \A i \in 0..(size - 1) : entries'[i] # swap[v].a
      <4>1. \A v \in Half : swap[v].a \in records
        BY <2>8 DEF Half
      <4> QED BY <1>0, <1>2, <1>7, <2>3, <4>1 DEF OwnerInv
    <3> QED BY <1>1, <3>1, <3>2, <3>4, <3>5, <3>6 DEF OwnerInv
  <2>11. NodeInv'
    BY <1>0, <1>1, <1>4, <2>1, NodesStay
  <2> QED BY <1>0, <1>1, <1>2, <2>6, <2>7, <2>9, <2>10, <2>11 DEF Quiet, FreedInv
<1> QED
  BY <1>1, <1>5, <1>6, <1>7, Zenon DEF Slot

LEMMA QuietFill ==
    ASSUME TypeOK, TypeOK', StopInv, ~Race, Quiet, NEW w \in Writer, Fill(w)
    PROVE  Quiet'
<1>0. ArrayInv /\ PlaceInv /\ SwapInv /\ OwnerInv /\ NodeInv /\ FreedInv
  BY DEF Quiet
<1>1. /\ pc[w] = "fill" /\ pc' = [pc EXCEPT ![w] = "check"] /\ total' = total + 1
      /\ UNCHANGED <<mod, todo, pos, growth, swap, stale, array, n_alloc, hash_table_old,
                     records, grow_failed>>
  BY Zenon DEF Fill, Goto
<1>2. \/ \E n \in Node \ nodes :
            hash_table_new' = hash_table_new \cup {n} /\ nodes' = nodes \cup {n}
      \/ UNCHANGED <<hash_table_new, nodes>>
  BY Zenon DEF Fill
<1>3. /\ mod = "live"
      /\ \A v \in Writer \ {w} : pc[v] \notin Refreshing
  BY <1>1, Alone DEF Refreshing
<1>4. \A v \in Writer : pc'[v] = IF v = w THEN "check" ELSE pc[v]
  BY <1>1 DEF TypeOK
<1>5. ArrayInv'
  <2>1. \A i \in 0..(total' - 1) : i = total \/ i \in 0..(total - 1)
    BY <1>1 DEF TypeOK
  <2>2. Filled(total)
    BY <1>0, <1>1 DEF PlaceInv
  <2>3. \A i \in 0..(total' - 1) : Filled(i)
    BY <1>0, <2>1, <2>2 DEF ArrayInv
  <2> QED BY <1>0, <1>1, <1>4, <2>3 DEF ArrayInv, Unsettled, Filled, array
<1>6. PlaceInv'
  BY <1>0, <1>1, <1>3, <1>4
     DEF PlaceInv, Unsettled, Growing, Sorting, Refreshing, Filled, array, growth
<1>7. SwapInv'
  BY <1>0, <1>1, <1>4, SwapStays DEF array
<1>8. OwnerInv'
  <2>1. Half' = Half
    BY <1>1, <1>4 DEF Half
  <2> QED BY <1>0, <1>1, <2>1, OwnerStays DEF array
<1>9. NodeInv'
  <2>1. pos[w] = Null
    BY <1>0, <1>1 DEF NodeInv
  <2>2. \A v \in Writer : pos[v] = Null
    BY <1>0, <1>3, <2>1 DEF NodeInv, Refreshing
  <2> QED BY <1>0, <1>1, <1>2, <1>3, <2>2 DEF NodeInv
<1> QED BY <1>0, <1>1, <1>3, <1>5, <1>6, <1>7, <1>8, <1>9 DEF Quiet, FreedInv

\* An exchange of two entries
LEMMA QuietSwap ==
    ASSUME TypeOK, TypeOK', StopInv, ~Race, Quiet, ~fault', NEW w \in Writer,
           SortLoad(w) \/ SortStoreFirst(w) \/ SortStoreSecond(w)
    PROVE  Quiet'
<1> USE DEF Goto
<1>0. ArrayInv /\ PlaceInv /\ SwapInv /\ OwnerInv /\ NodeInv /\ FreedInv
  BY DEF Quiet
<1>1. /\ pc[w] \in Sorting
      /\ \E to \in Sorting : pc' = [pc EXCEPT ![w] = to]
      /\ UNCHANGED <<mod, todo, pos, growth, stale, process_info, size, n_alloc, total, tables,
                     records, grow_failed>>
  <2>1. CASE SortLoad(w)
    BY <2>1 DEF SortLoad, Sorting, array
  <2>2. CASE SortStoreFirst(w)
    BY <2>2 DEF SortStoreFirst, SortStore, Sorting
  <2>3. CASE SortStoreSecond(w)
    BY <2>3 DEF SortStoreSecond, SortStore, Sorting
  <2> QED BY <2>1, <2>2, <2>3
<1>2. /\ pc'[w] \in Sorting
      /\ \A v \in Writer \ {w} : pc'[v] = pc[v]
  BY <1>1 DEF TypeOK
<1>3. /\ mod = "live"
      /\ \A v \in Writer \ {w} : pc[v] \notin Sorting \cup Growing
  <2>1. pc[w] # "idle"
    BY <1>1 DEF Sorting
  <2>2. \A v \in Writer \ {w} : pc[v] \notin Growing
    BY <1>1 DEF Race
  <2> QED BY <1>1, <2>1, <2>2, Alone
<1>4. \A i \in 0..(todo[w] - 1) : /\ Filled(i) /\ i \in 0..(size - 1)
                                  /\ entries[i] \in records
  <2>1. \A i \in 0..(todo[w] - 1) : Filled(i) /\ i \in Nat
    BY <1>0, <1>1 DEF PlaceInv
  <2> QED BY <1>0, <1>3, <2>1, FilledIsLive
\* Filled entries stay filled: that is all the array and the other writers need.
<1>5. ASSUME \A i \in Nat : Filled(i) => Filled(i)'
      PROVE  ArrayInv' /\ PlaceInv' /\ NodeInv' /\ FreedInv'
  <2>1. \A n \in Nat : \A i \in 0..(n - 1) : i \in Nat
    OBVIOUS
  <2>2. ArrayInv'
    <3>1. \A i \in 0..(total' - 1) : Filled(i)'
      BY <1>0, <1>1, <1>5, <2>1 DEF ArrayInv, TypeOK
    <3> QED BY <1>0, <1>1, <1>2, <1>3, <3>1 DEF ArrayInv, Unsettled, Sorting, Growing
  <2>3. PlaceInv'
    <3> SUFFICES ASSUME NEW v \in Writer
                 PROVE  /\ pc'[v] \in Unsettled => ~grow_failed' /\ total' = size' /\ n_alloc' > size'
                        /\ pc'[v] \in Growing => new_size'[v] = n_alloc'
                        /\ pc'[v] = "install" => \A i \in 0..(size' - 1) : fresh'[v][i] = entries'[i]
                        /\ pc'[v] = "slot" => grow_failed' \/ total' < size'
                        /\ pc'[v] = "fill" => Filled(total)'
                        /\ pc'[v] \in Sorting =>
                              v \notin stale' /\ \A i \in 0..(todo'[v] - 1) : Filled(i)'
      BY DEF PlaceInv
    <3>1. pc'[v] \in Sorting <=> pc[v] \in Sorting
      BY <1>1, <1>2
    <3>2. pc'[v] \in Sorting => v \notin stale' /\ \A i \in 0..(todo'[v] - 1) : Filled(i)'
      BY <1>0, <1>1, <1>5, <3>1 DEF PlaceInv
    <3>3. CASE v = w
      BY <1>2, <3>2, <3>3 DEF Sorting, Growing, Unsettled
    <3>4. CASE v # w
      <4>1. pc'[v] = pc[v] /\ pc[v] \notin Growing
        BY <1>2, <1>3, <3>4
      <4>2. pc[v] = "fill" => Filled(total)'
        BY <1>0, <1>1, <1>5 DEF PlaceInv, TypeOK
      <4> QED BY <1>0, <1>1, <3>2, <4>1, <4>2 DEF PlaceInv, Growing
    <3> QED BY <3>3, <3>4
  <2>4. NodeInv'
    <3>1. pos[w] = Null
      BY <1>0, <1>1 DEF NodeInv, Sorting
    <3> QED BY <1>0, <1>1, <1>2, <3>1, NodesStay
  <2> QED BY <1>0, <1>1, <2>2, <2>3, <2>4 DEF FreedInv
<1>6. \A v \in Writer \ {w} : pc[v] \notin Sorting /\ pc'[v] \notin Sorting
  BY <1>2, <1>3
<1>7. CASE SortLoad(w)
  <2>1. pc[w] = "sort" /\ pc'[w] = "swap" /\ UNCHANGED array
    BY <1>7 DEF SortLoad, TypeOK
  <2>2. PICK i \in 0..(todo[w] - 1), j \in 0..(todo[w] - 1) :
           /\ i # j
           /\ swap' = [swap EXCEPT ![w] = [i |-> i, j |-> j, a |-> entries[i], b |-> entries[j]]]
    BY <1>7, Zenon DEF SortLoad
  <2>3. swap'[w] = [i |-> i, j |-> j, a |-> entries[i], b |-> entries[j]]
    BY <2>2 DEF TypeOK
  <2>4. Half = {} /\ Half' = {}
    BY <1>6, <2>1 DEF Half, Sorting
  <2>5. SwapInv'
    BY <1>1, <1>4, <1>6, <2>1, <2>2, <2>3 DEF SwapInv, Sorting, array
  <2>6. OwnerInv'
    BY <1>0, <1>1, <2>1, <2>4, OwnerStays DEF array
  <2>7. \A i_1 \in Nat : Filled(i_1) => Filled(i_1)'
    BY <2>1 DEF Filled, array
  <2> QED BY <1>5, <2>5, <2>6, <2>7 DEF Quiet
<1>8. CASE SortStoreFirst(w) \/ SortStoreSecond(w)
  <2> DEFINE i == swap[w].i
             j == swap[w].j
             a == swap[w].a
             b == swap[w].b
  <2>1. /\ i \in 0..(todo[w] - 1) /\ j \in 0..(todo[w] - 1) /\ i # j
        /\ entries[j] = b /\ a \in records /\ b \in records
        /\ pc[w] = "swap" => entries[i] = a
        /\ pc[w] = "store" => entries[i] = b
    <3>1. pc[w] \in {"swap", "store"}
      BY <1>8 DEF SortStoreFirst, SortStoreSecond
    <3>2. /\ i \in 0..(todo[w] - 1) /\ j \in 0..(todo[w] - 1) /\ i # j
          /\ entries[j] = b /\ a \in records
          /\ pc[w] = "swap" => entries[i] = a
          /\ pc[w] = "store" => entries[i] = b
      BY <1>0, <3>1 DEF SwapInv
    <3> QED BY <1>4, <3>2
  <2>2. i \in 0..(size - 1) /\ j \in 0..(size - 1)
    BY <1>4, <2>1
  <2>3. a # Null /\ b # Null
    BY <2>1, ConstantsAssumption DEF ConstantsAssumption, TypeOK
  <2>4. CASE SortStoreFirst(w)
    <3>1. pc[w] = "swap" /\ pc'[w] = "store" /\ swap' = swap
      BY <2>4 DEF SortStoreFirst, TypeOK
    <3>2. entries' = [entries EXCEPT ![i] = b]
      BY <2>4, Zenon DEF SortStoreFirst, SortStore
    <3>3. \A k \in 0..(size - 1) : entries'[k] = IF k = i THEN b ELSE entries[k]
      BY <3>2 DEF TypeOK
    <3>4. Half = {} /\ Half' = {w}
      BY <1>6, <3>1 DEF Half, Sorting
    <3>5. SwapInv'
      BY <1>1, <1>6, <2>1, <2>2, <3>1, <3>3 DEF SwapInv, Sorting
    <3>6. /\ \A k \in 0..(size - 1) : entries[k] = Null \/ entries[k] \in records
          /\ \A k, l \in 0..(size - 1) : k # l /\ entries[k] = entries[l] => entries[k] = Null
          /\ \A r \in records : \E k \in 0..(size - 1) : entries[k] = r
      BY <1>0, <1>3, <3>4 DEF OwnerInv
    <3>7. OwnerInv'
      <4>1. \A k \in 0..(size - 1) : entries'[k] = Null \/ entries'[k] \in records
        BY <2>1, <3>3, <3>6
      <4>2. \A k, l \in 0..(size - 1) : k # l /\ entries'[k] = entries'[l] =>
                \/ entries'[k] = Null
                \/ k \in {i, j} /\ l \in {i, j}
        BY <2>1, <2>2, <2>3, <3>3, <3>6
      <4>3. \A r \in records : (\E k \in 0..(size - 1) : entries'[k] = r) \/ a = r
        BY <2>1, <2>2, <3>1, <3>3, <3>6
      <4>4. \A k \in 0..(size - 1) : entries'[k] # a
        BY <2>1, <2>2, <2>3, <3>1, <3>3, <3>6
      <4> QED BY <1>1, <3>1, <3>4, <4>1, <4>2, <4>3, <4>4 DEF OwnerInv
    <3>8. \A k \in Nat : Filled(k) => Filled(k)'
      BY <1>1, <2>3, <3>3 DEF Filled, TypeOK
    <3> QED BY <1>5, <3>5, <3>7, <3>8 DEF Quiet
  <2>5. CASE SortStoreSecond(w)
    <3>1. pc[w] = "store" /\ pc'[w] = "sort"
      BY <2>5 DEF SortStoreSecond, TypeOK
    <3>2. entries' = [entries EXCEPT ![j] = a]
      BY <2>5, Zenon DEF SortStoreSecond, SortStore
    <3>3. \A k \in 0..(size - 1) : entries'[k] = IF k = j THEN a ELSE entries[k]
      BY <3>2 DEF TypeOK
    <3>4. Half = {w} /\ Half' = {}
      BY <1>6, <3>1 DEF Half, Sorting
    <3>5. SwapInv'
      BY <1>6, <3>1 DEF SwapInv, Sorting
    <3>6. /\ \A k \in 0..(size - 1) : entries[k] = Null \/ entries[k] \in records
          /\ \A k, l \in 0..(size - 1) :
                k # l /\ entries[k] = entries[l] =>
                    entries[k] = Null \/ (k \in {i, j} /\ l \in {i, j})
          /\ \A r \in records : (\E k \in 0..(size - 1) : entries[k] = r) \/ a = r
          /\ \A k \in 0..(size - 1) : entries[k] # a
      BY <1>0, <1>3, <3>4 DEF OwnerInv
    <3>7. OwnerInv'
      <4>1. \A k \in 0..(size - 1) : entries'[k] = Null \/ entries'[k] \in records
        BY <2>1, <3>3, <3>6
      <4>2. \A k, l \in 0..(size - 1) : k # l /\ entries'[k] = entries'[l] => entries'[k] = Null
        BY <2>1, <2>2, <3>3, <3>6
      <4>3. \A r \in records : \E k \in 0..(size - 1) : entries'[k] = r
        <5> TAKE r \in records
        <5>1. CASE r = a
          BY <2>2, <3>3, <5>1
        <5>2. CASE r = b
          BY <2>1, <2>2, <3>1, <3>3, <5>2
        <5>3. CASE r # a /\ r # b
          BY <2>1, <3>3, <3>6, <5>3
        <5> QED BY <5>1, <5>2, <5>3
      <4> QED BY <1>1, <3>4, <4>1, <4>2, <4>3 DEF OwnerInv
    <3>8. \A k \in Nat : Filled(k) => Filled(k)'
      BY <1>1, <2>3, <3>3 DEF Filled, TypeOK
    <3> QED BY <1>5, <3>5, <3>7, <3>8 DEF Quiet
  <2> QED BY <1>8, <2>4, <2>5
<1> QED BY <1>7, <1>8

\* The exit function meets no writer: what it does not free is nowhere.
LEMMA QuietExit ==
    ASSUME TypeOK, TypeOK', StopInv, ~Race, ~Race', Quiet, ~fault',
           ExitTables \/ ExitRecords \/ ExitRemove
    PROVE  Quiet'
<1>0. ArrayInv /\ PlaceInv /\ SwapInv /\ OwnerInv /\ NodeInv /\ FreedInv
  BY DEF Quiet
<1>1. /\ UNCHANGED <<pc, todo, pos, new_size, fresh, swap, stale, size, entries, n_alloc, total,
                     grow_failed>>
      /\ mod' \in Exiting \cup {"gone"}
  BY Zenon DEF ExitTables, ExitRecords, ExitRemove, local, place, growth, array, Exiting
<1>2. \A w \in Writer : pc[w] = "idle"
  <2>1. CASE mod' \in Exiting
    BY <1>1, <2>1 DEF Race
  <2>2. CASE ExitRemove
    BY <2>2 DEF ExitRemove
  <2> QED BY <1>1, <2>1, <2>2 DEF ExitTables, ExitRecords, Exiting
<1>3. PlaceInv' /\ SwapInv' /\ Half = {} /\ Half' = {}
  BY <1>1, <1>2 DEF PlaceInv, SwapInv, Half, Unsettled, Growing, Sorting
<1>4. \A w \in Writer : pos[w] = Null
  BY <1>0, <1>2 DEF NodeInv
<1>5. CASE ExitTables
  <2>1. /\ mod = "live" /\ mod' = "free_records"
        /\ nodes' = nodes \ hash_table_old /\ hash_table_old' = {}
        /\ UNCHANGED <<process_info, records, hash_table_new>>
    BY <1>5, Zenon DEF ExitTables, array
  <2>2. ArrayInv'
    BY <1>0, <1>1, <2>1 DEF ArrayInv, Unsettled, Filled
  <2>3. OwnerInv'
    BY <1>0, <1>1, <1>3, <2>1, OwnerStays
  <2>4. NodeInv'
    BY <1>0, <1>1, <1>4, <2>1 DEF NodeInv
  <2> QED BY <1>3, <2>1, <2>2, <2>3, <2>4 DEF Quiet, FreedInv
<1>6. CASE ExitRecords
  <2>1. /\ mod = "free_records" /\ mod' = "remove"
        /\ records' = records \ {entries[i] : i \in Freed}
        /\ process_info' = IF process_info = "live" THEN "freed" ELSE process_info
        /\ UNCHANGED tables
    BY <1>6, Zenon DEF ExitRecords
  <2>2. n_alloc > 0 => InArray(n_alloc - 1)
    BY <1>6, Zenon DEF ExitRecords
  <2>3. n_alloc = size
    <3>1. IF grow_failed THEN n_alloc > size ELSE n_alloc = size
      BY <1>0, <1>2 DEF ArrayInv, Unsettled
    <3> QED BY <2>2, <3>1 DEF InArray, TypeOK
  <2>4. records' = {}
    <3>1. \A r \in records : \E i \in 0..(size - 1) : entries[i] = r
      BY <1>0, <1>3, <2>1 DEF OwnerInv
    <3>2. \A r \in records : r # Null
      BY ConstantsAssumption DEF ConstantsAssumption, TypeOK
    <3>3. DOMAIN entries = 0..(size - 1)
      BY DEF TypeOK
    <3>4. \A r \in records : \E i \in Freed : entries[i] = r
      <4> TAKE r \in records
      <4>1. PICK i \in 0..(size - 1) : entries[i] = r
        BY <3>1
      <4>2. i < n_alloc
        BY <2>3, <4>1 DEF TypeOK
      <4>3. i \in DOMAIN entries /\ entries[i] # Null
        BY <3>2, <3>3, <4>1
      <4>4. i \in Freed
        BY <4>2, <4>3, Zenon DEF Freed
      <4> QED BY <4>1, <4>4
    <3> QED BY <2>1, <3>4
  <2>5. ArrayInv'
    BY <1>0, <1>1, <2>1 DEF ArrayInv, Unsettled, Filled
  <2>6. OwnerInv'
    BY <2>1 DEF OwnerInv
  <2>7. NodeInv'
    BY <1>0, <1>1, <1>4, <2>1 DEF NodeInv, tables
  <2> QED BY <1>3, <2>4, <2>5, <2>6, <2>7 DEF Quiet, FreedInv
<1>7. CASE ExitRemove
  <2>1. mod = "remove" /\ mod' = "gone" /\ UNCHANGED <<process_info, records, tables>>
    BY <1>7, Zenon DEF ExitRemove, array
  <2>2. ArrayInv'
    BY <1>0, <1>1, <2>1 DEF ArrayInv, Unsettled, Filled
  <2>3. OwnerInv' /\ FreedInv'
    BY <1>0, <2>1 DEF OwnerInv, FreedInv
  <2>4. NodeInv'
    BY <1>0, <1>1, <1>4, <2>1 DEF NodeInv, tables
  <2> QED BY <1>3, <2>2, <2>3, <2>4 DEF Quiet
<1> QED BY <1>5, <1>6, <1>7

LEMMA QuietStep ==
    ASSUME TypeOK, TypeOK', StopInv, [Next]_vars, QuietInv PROVE QuietInv'
<1>1. CASE UNCHANGED vars
  <2>1. Half' = Half
    BY <1>1 DEF vars, local, place, Half
  <2> QED
    BY <1>1, <2>1
       DEF vars, local, place, growth, array, tables, QuietInv, Quiet, ArrayInv, PlaceInv,
           SwapInv, OwnerInv, NodeInv, FreedInv, Race, Filled
<1>2. CASE Next /\ ~raced' /\ ~fault'
  <2>1. ~Race /\ ~Race' /\ Quiet
    BY <1>2 DEF Next, QuietInv
  <2>2. ASSUME NEW w \in Writer, WriterStep(w) PROVE Quiet'
    <3>1. CASE \/ Write(w) \/ Wake(w) \/ Reset(w) \/ Check(w) \/ Grow(w) \/ Refreshed(w)
               \/ Sorted(w) \/ Show(w) \/ SortCompare(w)
      BY <2>1, <3>1, QuietMoves
    <3>2. CASE FreeOld(w) \/ Move(w)
      BY <1>2, <2>1, <3>2, QuietWalks
    <3>3. CASE Copy(w) \/ Install(w)
      BY <2>1, <3>3, QuietGrows
    <3>4. CASE Slot(w)
      BY <1>2, <2>1, <3>4, QuietSlot
    <3>5. CASE Fill(w)
      BY <2>1, <3>5, QuietFill
    <3>6. CASE SortLoad(w) \/ SortStoreFirst(w) \/ SortStoreSecond(w)
      BY <1>2, <2>1, <3>6, QuietSwap
    <3> QED BY <2>2, <3>1, <3>2, <3>3, <3>4, <3>5, <3>6, Zenon DEF WriterStep
  <2>3. ASSUME ExitTables \/ ExitRecords \/ ExitRemove PROVE Quiet'
    BY <1>2, <2>1, <2>3, QuietExit, Zenon
  <2>4. Quiet'
    BY <1>2, <2>2, <2>3, Zenon DEF Next
  <2> QED BY <2>1, <2>4 DEF QuietInv
<1>3. CASE Next /\ ~raced' /\ fault'
  BY <1>3 DEF Next, QuietInv
<1> QED BY <1>1, <1>2, <1>3 DEF QuietInv

LEMMA QuietAlways == Spec => [](TypeOK /\ StopInv /\ QuietInv)
<1>1. Init => StopInv /\ QuietInv
  <2> SUFFICES ASSUME Init PROVE StopInv /\ QuietInv
    OBVIOUS
  <2>1. StopInv /\ ~Race
    BY DEF Init, StopInv, Race, Refreshing, Growing, Sorting, Exiting
  <2>2. ArrayInv /\ PlaceInv /\ SwapInv
    BY DEF Init, ArrayInv, PlaceInv, SwapInv, Unsettled, Growing, Sorting
  <2>3. OwnerInv /\ NodeInv /\ FreedInv
    BY DEF Init, OwnerInv, NodeInv, FreedInv, Half
  <2> QED BY <2>1, <2>2, <2>3 DEF QuietInv, Quiet
<1>2. TypeOK /\ TypeOK' /\ StopInv /\ QuietInv /\ [Next]_vars => StopInv' /\ QuietInv'
  BY StopStep, QuietStep
<1> QED BY <1>1, <1>2, TypeCorrect, PTL DEF Spec

-----------------------------------------------------------------------------
\* A step of a quiet system that faults
LEMMA FaultStep ==
    ASSUME TypeOK, StopInv, QuietInv, Next, ~raced', fault' PROVE grow_failed'
<1> SUFFICES ASSUME ~grow_failed' PROVE FALSE
  OBVIOUS
<1>1. ~Race /\ ~fault /\ ArrayInv /\ PlaceInv /\ SwapInv /\ OwnerInv /\ NodeInv
  BY DEF Next, QuietInv, Quiet
<1>2. size \in Nat /\ n_alloc \in Nat /\ total \in Nat
  BY DEF TypeOK
<1>3. process_info = "freed" =>
          mod \in {"remove", "gone"} \/ \E w \in Writer : pc[w] = "install"
  BY <1>1 DEF ArrayInv
\* While a writer refreshes, sorts or prints, the array is not freed, and what is
\* filled can be used.
<1>4. ASSUME NEW w \in Writer, pc[w] \in (Refreshing \ {"install"}) \cup Sorting \cup {"show"}
      PROVE  process_info # "freed"
  <2>1. mod = "live"
    BY <1>1, <1>4, Alone DEF Refreshing, Sorting
  <2>2. ASSUME NEW v \in Writer, pc[v] = "install" PROVE FALSE
    BY <1>1, <1>4, <2>2 DEF Race, Refreshing, Growing, Sorting
  <2> QED BY <1>3, <2>1, <2>2
<1>5. ASSUME NEW w \in Writer, pc[w] \in (Refreshing \ {"install"}) \cup Sorting \cup {"show"},
             NEW i \in Nat, i < size
      PROVE  InArray(i)
  <2>1. process_info # "null"
    BY <1>1, <1>2, <1>5 DEF ArrayInv
  <2> QED BY <1>4, <1>5, <2>1 DEF InArray, TypeOK
<1>6. ASSUME NEW w \in Writer, pc[w] \in (Refreshing \ {"install"}) \cup Sorting \cup {"show"},
             NEW i \in Nat, Filled(i)
      PROVE  InArray(i) /\ Usable(i)
  <2>1. mod = "live"
    BY <1>1, <1>6, Alone DEF Refreshing, Sorting
  <2>2. entries[i] \in records
    BY <1>1, <1>6, <2>1, FilledIsLive
  <2> QED BY <1>5, <1>6, <2>2 DEF Filled, Usable
<1>7. ASSUME NEW w \in Writer, FreeOld(w) \/ Move(w) PROVE FALSE
  <2>1. pos[w] # Null /\ pos[w] \notin nodes
    <3>1. CASE FreeOld(w)
      BY <1>1, <3>1, Zenon DEF FreeOld, FreeNode
    <3>2. CASE Move(w)
      BY <1>1, <3>2, Zenon DEF Move
    <3> QED BY <1>7, <3>1, <3>2
  <2> QED BY <1>1, <2>1 DEF NodeInv
<1>8. ASSUME NEW w \in Writer, Copy(w) PROVE FALSE
  <2>1. pc[w] = "copy" /\ pc[w] \in (Refreshing \ {"install"}) \cup Sorting \cup {"show"}
    BY <1>8 DEF Copy, Refreshing
  <2>2. total = size /\ size < n_alloc /\ new_size[w] = n_alloc
    BY <1>1, <2>1 DEF PlaceInv, Unsettled, Growing
  <2>3. total > 0 => InArray(total - 1)
    BY <1>2, <1>5, <2>1, <2>2
  <2>4. process_info # "freed"
    BY <1>4, <2>1
  <2>5. \/ total > new_size[w]
        \/ total > 0 /\ ~InArray(total - 1)
        \/ process_info = "freed"
    BY <1>8, Zenon DEF Copy
  <2> QED BY <1>2, <2>2, <2>3, <2>4, <2>5
<1>9. ASSUME NEW w \in Writer, Install(w) PROVE FALSE
  <2>1. new_size[w] = n_alloc /\ total = size /\ n_alloc > size
    BY <1>1, <1>9 DEF Install, PlaceInv, Growing, Unsettled
  <2>2. n_alloc > new_size[w] \/ total > n_alloc
    BY <1>9, Zenon DEF Install
  <2> QED BY <1>2, <2>1, <2>2
<1>10. ASSUME NEW w \in Writer, Slot(w) PROVE FALSE
  <2>1. pc[w] \in (Refreshing \ {"install"}) \cup Sorting \cup {"show"}
    BY <1>10 DEF Slot, Refreshing
  <2>2. grow_failed \/ total < size
    BY <1>1, <1>10 DEF Slot, PlaceInv
  <2>3. ~InArray(total) /\ ~grow_failed
    BY <1>10, Zenon DEF Slot
  <2> QED BY <1>2, <1>5, <2>1, <2>2, <2>3
<1>11. ASSUME NEW w \in Writer, Fill(w) PROVE FALSE
  <2>1. pc[w] \in (Refreshing \ {"install"}) \cup Sorting \cup {"show"}
    BY <1>11 DEF Fill, Refreshing
  <2>2. Filled(total)
    BY <1>1, <1>11 DEF Fill, PlaceInv
  <2>3. ~Usable(total)
    BY <1>11, Zenon DEF Fill
  <2> QED BY <1>2, <1>6, <2>1, <2>2, <2>3
<1>12. ASSUME NEW w \in Writer, pc[w] \in Sorting, NEW i \in 0..(todo[w] - 1)
       PROVE  w \notin stale /\ InArray(i) /\ Usable(i)
  <2>1. w \notin stale /\ Filled(i) /\ i \in Nat
    BY <1>1, <1>12 DEF PlaceInv
  <2> QED BY <1>6, <1>12, <2>1
<1>13. ASSUME NEW w \in Writer, SortCompare(w) \/ SortLoad(w) PROVE FALSE
  <2>1. pc[w] \in Sorting
    BY <1>13 DEF SortCompare, SortLoad, Sorting
  <2>2. CASE SortCompare(w)
    <3>1. \E i \in 0..(todo[w] - 1) : w \in stale \/ ~Usable(i)
      BY <2>2, Zenon DEF SortCompare
    <3> QED BY <1>12, <2>1, <3>1
  <2>3. CASE SortLoad(w)
    <3>1. \E i, j \in 0..(todo[w] - 1) : w \in stale \/ ~InArray(i) \/ ~InArray(j)
      BY <2>3, Zenon DEF SortLoad
    <3> QED BY <1>12, <2>1, <3>1
  <2> QED BY <1>13, <2>2, <2>3
<1>14. ASSUME NEW w \in Writer, SortStoreFirst(w) \/ SortStoreSecond(w) PROVE FALSE
  <2>1. pc[w] \in {"swap", "store"}
    BY <1>14 DEF SortStoreFirst, SortStoreSecond
  <2>2. swap[w].i \in 0..(todo[w] - 1) /\ swap[w].j \in 0..(todo[w] - 1)
    BY <1>1, <2>1 DEF SwapInv
  <2>3. w \in stale \/ ~InArray(swap[w].i) \/ ~InArray(swap[w].j)
    BY <1>14, Zenon DEF SortStoreFirst, SortStoreSecond, SortStore
  <2> QED BY <1>12, <2>1, <2>2, <2>3 DEF Sorting
<1>15. ASSUME NEW w \in Writer, Show(w) PROVE FALSE
  <2>1. pc[w] \in (Refreshing \ {"install"}) \cup Sorting \cup {"show"}
    BY <1>15 DEF Show
  <2>2. todo[w] < total /\ ~Usable(todo[w])
    BY <1>1, <1>15, Zenon DEF Show
  <2>3. Filled(todo[w]) /\ todo[w] \in Nat
    BY <1>1, <2>2 DEF ArrayInv, TypeOK
  <2> QED BY <1>6, <2>1, <2>2, <2>3
<1>16. CASE ExitTables
  <2>1. ~(hash_table_old \subseteq nodes)
    BY <1>16, Zenon DEF ExitTables
  <2> QED BY <1>1, <2>1 DEF NodeInv
<1>17. CASE ExitRecords
  <2>1. \A w \in Writer : pc[w] = "idle"
    BY <1>1, <1>17 DEF ExitRecords, Race, Exiting
  <2>2. mod = "free_records" /\ ~grow_failed
    BY <1>17, Zenon DEF ExitRecords
  <2>3. n_alloc = size
    BY <1>1, <2>1, <2>2 DEF ArrayInv, Unsettled
  <2>4. process_info # "freed"
    BY <1>3, <2>1, <2>2
  <2>5. n_alloc > 0 => InArray(n_alloc - 1)
    BY <1>1, <1>2, <2>3, <2>4 DEF ArrayInv, InArray, TypeOK
  <2>6. Half = {}
    BY <2>1 DEF Half
  <2>7. \A i \in Freed : i \in 0..(size - 1) /\ entries[i] # Null
    BY DEF Freed, TypeOK
  <2>8. /\ \A i \in Freed : entries[i] \in records
        /\ \A i, j \in Freed : i # j => entries[i] # entries[j]
    BY <1>1, <2>2, <2>6, <2>7 DEF OwnerInv
  <2>9. \/ process_info = "freed" \/ (n_alloc > 0 /\ ~InArray(n_alloc - 1))
        \/ \E i \in Freed : entries[i] \notin records
        \/ \E i, j \in Freed : i # j /\ entries[i] = entries[j]
    BY <1>17, Zenon DEF ExitRecords
  <2> QED BY <2>4, <2>5, <2>8, <2>9
<1>18. ASSUME NEW w \in Writer, \/ Write(w) \/ Reset(w) \/ Check(w) \/ Grow(w) \/ Refreshed(w)
                                \/ Wake(w) \/ Sorted(w)
       PROVE  FALSE
  BY <1>1, <1>18, Zenon DEF Write, Reset, Check, Grow, Refreshed, Wake, Sorted
<1>19. CASE ExitRemove
  BY <1>1, <1>19, Zenon DEF ExitRemove
<1>20. ASSUME NEW w \in Writer, WriterStep(w) PROVE FALSE
  BY <1>7, <1>8, <1>9, <1>10, <1>11, <1>13, <1>14, <1>15, <1>18, <1>20 DEF WriterStep
<1> QED BY <1>16, <1>17, <1>19, <1>20 DEF Next

\* FaultNeedsRaceOrFailedGrowth: for any number of writers, tasks and addresses and
\* any growth, overlapping writes lose and double no pointer and stay within the
\* array unless two refreshes or two sorts overlap, a growth meets a reader of the
\* array, the module is being removed, or a growth has failed.
THEOREM OnlyRacesAndFailuresFault == Spec => []FaultNeedsRaceOrFailedGrowth
<1>1. Init => FaultNeedsRaceOrFailedGrowth
  BY DEF Init, FaultNeedsRaceOrFailedGrowth
<1>2. TypeOK /\ StopInv /\ QuietInv /\ FaultNeedsRaceOrFailedGrowth /\ [Next]_vars
      => FaultNeedsRaceOrFailedGrowth'
  <2> SUFFICES ASSUME TypeOK, StopInv, QuietInv, FaultNeedsRaceOrFailedGrowth, [Next]_vars
               PROVE  FaultNeedsRaceOrFailedGrowth'
    OBVIOUS
  <2>1. CASE Next
    BY <2>1, FaultStep DEF FaultNeedsRaceOrFailedGrowth
  <2>2. CASE UNCHANGED vars
    BY <2>2 DEF vars, FaultNeedsRaceOrFailedGrowth
  <2> QED BY <2>1, <2>2
<1> QED BY <1>1, <1>2, QuietAlways, PTL DEF Spec

\* ExitFreesRecords: unless it raced, the exit function frees each record once and
\* leaves no node but those of the new table, although sorts have exchanged pointers,
\* records outnumber the last total and allocations have failed before.
THEOREM ExitLeavesNewTableOnly == Spec => []ExitFreesRecords
<1>1. TypeOK /\ StopInv /\ QuietInv => ExitFreesRecords
  <2> SUFFICES ASSUME TypeOK, StopInv, QuietInv, mod = "gone", ~raced
               PROVE  records = {} /\ nodes = hash_table_new
    BY DEF ExitFreesRecords
  <2>1. NodeInv /\ FreedInv
    BY DEF QuietInv, Quiet, StopInv
  <2> QED BY <2>1 DEF NodeInv, FreedInv
<1> QED BY <1>1, QuietAlways, PTL

=============================================================================
