-------------------------- MODULE SemaModule_proof --------------------------
(* Proofs about SemaModule, for any number of processes and loads. *)
EXTENDS SemaModule, TLAPS

-----------------------------------------------------------------------------
(* The inductive invariant.  A process belongs to the load it opened; those *)
(* of earlier loads only ever fault.                                        *)

\* No process is of a load still to come.
LoadsPast == \A p \in Procs : opened[p] <= load

\* Before sema_init there is nothing to have and nothing to wait for.
NotReady ==
    /\ mod \in Inits => ~ready
    /\ ~ready => count = 0 /\ \A p \in Procs : Mine(p) => pc[p] \in {"out", "open"}

\* The semaphore has at most one owner, and none while its count is positive.
OneOwner ==
    /\ \A p, q \in Procs : Owner(p) /\ Owner(q) => p = q
    /\ count > 0 => \A p \in Procs : ~Owner(p)

\* Who sleeps is on the list, so that a signal finds what to remove.
Listed == \A p \in Procs : Mine(p) /\ pc[p] = "wait" => \E i \in DOMAIN wait_list : wait_list[i] = p

IInv == TypeOK /\ LoadsPast /\ NotReady /\ OneOwner /\ Listed

\* The list without the waiter at one place
LEMMA RemoveAt ==
    ASSUME NEW S, NEW s \in Seq(S), NEW i \in DOMAIN s
    PROVE  LET t == SubSeq(s, 1, i - 1) \o SubSeq(s, i + 1, Len(s)) IN
           /\ t \in Seq(S) /\ Len(t) = Len(s) - 1
           /\ \A k \in 1..(Len(s) - 1) : t[k] = IF k < i THEN s[k] ELSE s[k + 1]
<1> DEFINE a == SubSeq(s, 1, i - 1)
           b == SubSeq(s, i + 1, Len(s))
           t == a \o b
<1>1. Len(s) \in Nat /\ i \in 1..Len(s)
  OBVIOUS
<1>2. a \in Seq(S) /\ Len(a) = i - 1 /\ \A k \in 1..(i - 1) : a[k] = s[k]
  BY <1>1
<1>3. b \in Seq(S) /\ Len(b) = Len(s) - i /\ \A k \in 1..(Len(s) - i) : b[k] = s[i + k]
  BY <1>1
<1> HIDE DEF a, b
<1>4. t \in Seq(S) /\ Len(t) = Len(s) - 1
  BY <1>1, <1>2, <1>3
<1>5. ASSUME NEW k \in 1..(Len(s) - 1), k < i PROVE t[k] = s[k]
  BY <1>1, <1>2, <1>3, <1>5
<1>6. ASSUME NEW k \in 1..(Len(s) - 1), ~(k < i) PROVE t[k] = s[k + 1]
  <2>1. t[k] = b[k - (i - 1)]
    BY <1>1, <1>2, <1>3, <1>6
  <2>2. k - (i - 1) \in 1..(Len(s) - i) /\ i + (k - (i - 1)) = k + 1
    BY <1>1, <1>6
  <2> QED BY <1>3, <2>1, <2>2
<1>7. \A k \in 1..(Len(s) - 1) : t[k] = IF k < i THEN s[k] ELSE s[k + 1]
  <2> HIDE DEF t
  <2> QED BY <1>5, <1>6
<1> QED BY <1>4, <1>7 DEF a, b

\* Taking one waiter out of the list keeps the others.
LEMMA RemoveOne ==
    ASSUME NEW S, NEW s \in Seq(S), NEW i \in DOMAIN s
    PROVE  LET t == SubSeq(s, 1, i - 1) \o SubSeq(s, i + 1, Len(s)) IN
           /\ t \in Seq(S)
           /\ \A j \in DOMAIN s : j # i => \E k \in DOMAIN t : t[k] = s[j]
<1> DEFINE t == SubSeq(s, 1, i - 1) \o SubSeq(s, i + 1, Len(s))
<1>1. /\ t \in Seq(S) /\ Len(t) = Len(s) - 1
      /\ \A k \in 1..(Len(s) - 1) : t[k] = IF k < i THEN s[k] ELSE s[k + 1]
  BY RemoveAt
<1>2. Len(s) \in Nat /\ DOMAIN s = 1..Len(s) /\ i \in 1..Len(s)
  OBVIOUS
<1> HIDE DEF t
<1>3. DOMAIN t = 1..(Len(s) - 1)
  BY <1>1, <1>2
<1>4. ASSUME NEW j \in DOMAIN s, j # i
      PROVE  \E k \in DOMAIN t : t[k] = s[j]
  <2>1. CASE j < i
    BY <1>1, <1>2, <1>3, <2>1
  <2>2. CASE j > i
    <3>1. j - 1 \in 1..(Len(s) - 1) /\ ~(j - 1 < i) /\ (j - 1) + 1 = j
      BY <1>2, <2>2
    <3> QED BY <1>1, <1>3, <3>1
  <2> QED BY <1>2, <1>4, <2>1, <2>2
<1> QED BY <1>1, <1>4 DEF t

LEMMA InitOK == Init => IInv
<1> SUFFICES ASSUME Init PROVE IInv
  OBVIOUS
<1>1. TypeOK
  <2>1. wait_list \in Seq(Procs) /\ load \in 0..MaxLoads
    BY LoadsAssumption DEF Init, LoadsAssumption
  <2>2. pc \in [Procs -> States] /\ opened \in [Procs -> 0..MaxLoads]
    BY LoadsAssumption DEF Init, States, LoadsAssumption
  <2> QED BY <2>1, <2>2 DEF Init, TypeOK
<1>2. LoadsPast /\ NotReady
  BY DEF Init, LoadsPast, NotReady, Inits, Mine
<1>3. OneOwner /\ Listed
  BY DEF Init, OneOwner, Listed, Mine, Owner
<1> QED BY <1>1, <1>2, <1>3 DEF IInv

\* A fault changes nothing but the fault itself.
LEMMA FaultStep == IInv /\ fault' = TRUE /\ UNCHANGED <<module, sem, pc, opened>> => IInv'
BY DEF IInv, TypeOK, LoadsPast, NotReady, OneOwner, Listed, Mine, Owner, module, sem

\* hello_init and hello_exit: the processes stay where they are.
LEMMA ModuleOK == IInv /\ ~fault /\ ModuleStep => IInv'
<1> SUFFICES ASSUME IInv, ~fault, ModuleStep PROVE IInv'
  OBVIOUS
<1>1. CASE InitChrdev
  <2>1. load' = load + 1 /\ load' \in 0..MaxLoads /\ wait_list' \in Seq(Procs)
    BY <1>1, LoadsAssumption DEF InitChrdev, IInv, TypeOK, LoadsAssumption
  <2>2. TypeOK'
    BY <1>1, <2>1 DEF InitChrdev, IInv, TypeOK, Inits
  <2>3. \A p \in Procs : ~Mine(p)' /\ opened'[p] <= load'
    BY <1>1, <2>1, LoadsAssumption DEF InitChrdev, IInv, TypeOK, LoadsPast, Mine, LoadsAssumption
  <2> QED BY <1>1, <2>2, <2>3 DEF InitChrdev, IInv, LoadsPast, NotReady, OneOwner, Listed, Owner
<1>2. CASE InitSema
  <2>1. TypeOK'
    BY <1>2 DEF InitSema, IInv, TypeOK
  <2>2. \A p \in Procs : Mine(p)' => pc'[p] \in {"out", "open"}
    BY <1>2 DEF InitSema, IInv, NotReady, Mine, Inits
  <2>3. LoadsPast' /\ NotReady'
    BY <1>2 DEF InitSema, IInv, LoadsPast, NotReady, Inits
  <2> QED BY <2>1, <2>2, <2>3 DEF IInv, OneOwner, Listed, Owner
<1>3. CASE InitClass \/ InitDevice \/ ExitDevice \/ ExitClass \/ ExitChrdev \/ ExitUnload
  <2>1. UNCHANGED <<load, sem, pc, opened, fault>> /\ (mod' \in Inits => mod \in Inits)
    BY <1>3 DEF InitClass, InitDevice, ExitDevice, ExitClass, ExitChrdev, ExitUnload, Inits
  <2>2. TypeOK'
    BY <1>3 DEF InitClass, InitDevice, ExitDevice, ExitClass, ExitChrdev, ExitUnload,
        IInv, TypeOK, Inits, Exits, sem
  <2> QED BY <2>1, <2>2 DEF IInv, LoadsPast, NotReady, OneOwner, Listed, Mine, Owner, sem
<1> QED BY <1>1, <1>2, <1>3 DEF ModuleStep

\* The processes: a step in a load that is gone faults; any other one concerns
\* the semaphore of this load.
LEMMA ProcOK ==
    ASSUME IInv, ~fault, NEW p \in Procs, Open(p) \/ Signal(p) \/ ProcStep(p)
    PROVE  IInv'
<1> USE DEF States
<1>0. pc \in [Procs -> States] /\ opened \in [Procs -> 0..MaxLoads] /\ wait_list \in Seq(Procs)
      /\ load \in 0..MaxLoads /\ count \in {0, 1}
  BY DEF IInv, TypeOK
<1>1. CASE Open(p)
  <2>1. TypeOK'
    BY <1>0, <1>1 DEF Open, IInv, TypeOK, module, sem
  <2>2. LoadsPast'
    BY <1>0, <1>1, LoadsAssumption DEF Open, IInv, LoadsPast, module, LoadsAssumption
  <2>3. \A q \in Procs : (q = p /\ pc'[q] = "open") \/ (pc'[q] = pc[q] /\ opened'[q] = opened[q])
    BY <1>0, <1>1 DEF Open
  <2>4. NotReady' /\ OneOwner' /\ Listed'
    BY <1>0, <1>1, <2>3 DEF Open, IInv, NotReady, OneOwner, Listed, Mine, Owner, module, sem
  <2> QED BY <2>1, <2>2, <2>4 DEF IInv
<1>2. CASE ~Open(p) /\ ~Present(p)
  <2>1. fault' = TRUE /\ UNCHANGED <<module, sem, pc, opened>>
    BY <1>2 DEF Signal, ProcStep, DownTakes, DownWaits, DownFaults, Granted, Restarts, Close, Step, sem
  <2> QED BY <2>1, FaultStep
<1>3. CASE DownFaults(p)
  BY <1>3, FaultStep DEF DownFaults
<1>4. ASSUME Present(p), Signal(p) \/ DownTakes(p) \/ DownWaits(p) \/ Granted(p) \/ Restarts(p) \/ Close(p)
      PROVE  IInv'
  <2>0. Mine(p) /\ UNCHANGED <<module, ready, opened>> /\ fault' = FALSE
    BY <1>4 DEF Signal, DownTakes, DownWaits, Granted, Restarts, Close, Step, Present, Mine, sem
  <2>1. LoadsPast' /\ (mod' \in Inits => ~ready')
    BY <2>0 DEF IInv, LoadsPast, NotReady, module
  <2>2. CASE DownTakes(p)
    <3>1. count > 0 /\ count' = 0 /\ pc' = [pc EXCEPT ![p] = "in"] /\ wait_list' = wait_list /\ pc[p] = "open"
      BY <1>4, <2>2 DEF DownTakes, Step
    <3>2. TypeOK'
      BY <1>0, <2>0, <3>1 DEF IInv, TypeOK, module
    <3>3. OneOwner' /\ Listed'
      BY <1>0, <2>0, <3>1 DEF IInv, OneOwner, Listed, Mine, Owner, module
    <3>4. ready
      BY <1>0, <3>1 DEF IInv, NotReady
    <3> QED BY <2>0, <2>1, <3>2, <3>3, <3>4 DEF IInv, NotReady
  <2>3. CASE DownWaits(p)
    <3>1. count = 0 /\ ready /\ count' = count /\ pc' = [pc EXCEPT ![p] = "wait"]
          /\ wait_list' = Append(wait_list, p)
      BY <1>4, <2>3 DEF DownWaits, Step
    <3>2. wait_list' \in Seq(Procs) /\ Len(wait_list') = Len(wait_list) + 1 /\ wait_list'[Len(wait_list) + 1] = p
          /\ Len(wait_list) \in Nat /\ \A i \in 1..Len(wait_list) : wait_list'[i] = wait_list[i]
      BY <1>0, <3>1
    <3>3. TypeOK'
      BY <1>0, <2>0, <3>1, <3>2 DEF IInv, TypeOK, module
    <3>4. Listed'
      <4> SUFFICES ASSUME NEW q \in Procs, Mine(q)', pc'[q] = "wait"
                   PROVE  \E i \in DOMAIN wait_list' : wait_list'[i] = q
        BY DEF Listed
      <4>1. CASE q = p
        BY <3>2, <4>1
      <4>2. CASE q # p
        <5>1. PICK i \in DOMAIN wait_list : wait_list[i] = q
          BY <1>0, <2>0, <3>1, <4>2 DEF IInv, Listed, Mine, module
        <5>2. i \in 1..Len(wait_list) /\ i \in DOMAIN wait_list'
          BY <1>0, <3>2
        <5> QED BY <3>2, <5>1, <5>2
      <4> QED BY <4>1, <4>2
    <3>5. OneOwner'
      BY <1>0, <2>0, <3>1 DEF IInv, OneOwner, Mine, Owner, module
    <3> QED BY <2>0, <2>1, <3>1, <3>3, <3>4, <3>5 DEF IInv, NotReady
  <2>4. CASE Granted(p) \/ Restarts(p)
    <3>1. UNCHANGED sem /\ pc[p] \in {"granted", "signalled"}
          /\ pc' = [pc EXCEPT ![p] = IF pc[p] = "granted" THEN "in" ELSE "out"]
      BY <1>0, <1>4, <2>0, <2>4 DEF Granted, Restarts, Step
    <3>2. TypeOK' /\ ready
      BY <1>0, <2>0, <3>1 DEF IInv, TypeOK, NotReady, module, sem
    <3>3. OneOwner' /\ Listed'
      BY <1>0, <2>0, <3>1 DEF IInv, OneOwner, Listed, Mine, Owner, module, sem
    <3> QED BY <2>0, <2>1, <3>2, <3>3 DEF IInv, NotReady
  <2>5. CASE Signal(p)
    <3>1. pc[p] = "wait" /\ pc' = [pc EXCEPT ![p] = "signalled"] /\ count' = count
      BY <1>4, <2>5 DEF Signal, Step
    <3> DEFINE i == CHOOSE i \in DOMAIN wait_list : wait_list[i] = p
    <3>2. i \in DOMAIN wait_list /\ wait_list[i] = p
      BY <2>0, <3>1 DEF IInv, Listed
    <3>3. wait_list' = SubSeq(wait_list, 1, i - 1) \o SubSeq(wait_list, i + 1, Len(wait_list))
      BY <1>4, <2>5 DEF Signal
    <3> HIDE DEF i
    <3>4. /\ wait_list' \in Seq(Procs)
          /\ \A j \in DOMAIN wait_list : j # i => \E k \in DOMAIN wait_list' : wait_list'[k] = wait_list[j]
      BY <1>0, <3>2, <3>3, RemoveOne
    <3>5. TypeOK' /\ ready
      BY <1>0, <2>0, <3>1, <3>4 DEF IInv, TypeOK, NotReady, module
    <3>6. Listed'
      <4> SUFFICES ASSUME NEW q \in Procs, Mine(q)', pc'[q] = "wait"
                   PROVE  \E k \in DOMAIN wait_list' : wait_list'[k] = q
        BY DEF Listed
      <4>1. q # p /\ Mine(q) /\ pc[q] = "wait"
        BY <1>0, <2>0, <3>1 DEF Mine, module
      <4>2. PICK j \in DOMAIN wait_list : wait_list[j] = q
        BY <4>1 DEF IInv, Listed
      <4>3. j # i
        BY <3>2, <4>1, <4>2
      <4> QED BY <3>4, <4>2, <4>3
    <3>7. OneOwner'
      BY <1>0, <2>0, <3>1 DEF IInv, OneOwner, Mine, Owner, module
    <3> QED BY <2>0, <2>1, <3>5, <3>6, <3>7 DEF IInv, NotReady
  <2>6. CASE Close(p)
    <3>1. pc[p] = "in" /\ Owner(p) /\ ready /\ count = 0
      BY <1>0, <2>0, <2>6 DEF Close, IInv, NotReady, OneOwner, Owner
    <3>2. CASE wait_list = <<>>
      <4>1. count' = 1 /\ wait_list' = wait_list /\ pc' = [pc EXCEPT ![p] = "out"]
        BY <1>4, <2>6, <3>1, <3>2 DEF Close
      <4>2. TypeOK'
        BY <1>0, <2>0, <4>1 DEF IInv, TypeOK, module
      <4>3. OneOwner' /\ Listed'
        BY <1>0, <2>0, <3>1, <4>1 DEF IInv, OneOwner, Listed, Mine, Owner, module
      <4> QED BY <2>0, <2>1, <3>1, <4>2, <4>3 DEF IInv, NotReady
    <3>3. CASE wait_list # <<>>
      <4> DEFINE h == Head(wait_list)
      <4>1. wait_list' = Tail(wait_list) /\ count' = count
            /\ pc' = [pc EXCEPT ![p] = "out", ![h] = "granted"]
        BY <1>4, <2>6, <3>3 DEF Close
      <4>2. h \in Procs /\ h = wait_list[1] /\ wait_list' \in Seq(Procs)
            /\ \A i \in DOMAIN wait_list : i # 1 => i - 1 \in DOMAIN wait_list' /\ wait_list'[i - 1] = wait_list[i]
        BY <1>0, <3>3, <4>1
      <4> HIDE DEF h
      <4>3. TypeOK'
        BY <1>0, <2>0, <4>1, <4>2 DEF IInv, TypeOK, module
      <4>4. \A q \in Procs : Owner(q)' => q = h
        BY <1>0, <2>0, <3>1, <4>1, <4>2 DEF IInv, OneOwner, Mine, Owner, module
      <4>5. Listed'
        <5> SUFFICES ASSUME NEW q \in Procs, Mine(q)', pc'[q] = "wait"
                     PROVE  \E i \in DOMAIN wait_list' : wait_list'[i] = q
          BY DEF Listed
        <5>1. q # h /\ q # p /\ Mine(q) /\ pc[q] = "wait"
          BY <1>0, <2>0, <4>1, <4>2 DEF Mine, module
        <5>2. PICK i \in DOMAIN wait_list : wait_list[i] = q
          BY <5>1 DEF IInv, Listed
        <5> QED BY <4>2, <5>1, <5>2
      <4> QED BY <2>0, <2>1, <3>1, <4>1, <4>3, <4>4, <4>5 DEF IInv, NotReady, OneOwner
    <3> QED BY <3>2, <3>3
  <2> QED BY <1>4, <2>2, <2>3, <2>4, <2>5, <2>6
<1> QED BY <1>1, <1>2, <1>3, <1>4 DEF ProcStep

LEMMA Inductive == Spec => []IInv
<1>1. IInv /\ [Next]_vars => IInv'
  <2>1. CASE UNCHANGED vars
    BY <2>1 DEF vars, module, sem, IInv, TypeOK, LoadsPast, NotReady, OneOwner, Listed, Mine, Owner
  <2> QED BY <2>1, ModuleOK, ProcOK DEF Next
<1> QED BY <1>1, InitOK, PTL DEF Spec

-----------------------------------------------------------------------------
(* The waiters.  Nobody waits for a semaphore that nobody has.              *)

\* The list holds processes of this load that wait, each of them once, and none while
\* the count is positive.
Queue ==
    /\ \A i \in DOMAIN wait_list : Mine(wait_list[i]) /\ pc[wait_list[i]] = "wait"
    /\ \A i, j \in DOMAIN wait_list : wait_list[i] = wait_list[j] => i = j
    /\ count > 0 \/ ~ready => wait_list = <<>>

\* The semaphore is never lost: what is not in its count is with an owner.
Token == ready => count > 0 \/ \E p \in Procs : Owner(p)

\* Taking one waiter out of a list without duplicates leaves it out.
LEMMA RemoveOnly ==
    ASSUME NEW S, NEW s \in Seq(S), NEW i \in DOMAIN s,
           \A j, k \in DOMAIN s : s[j] = s[k] => j = k
    PROVE  LET t == SubSeq(s, 1, i - 1) \o SubSeq(s, i + 1, Len(s)) IN
           /\ \A k \in DOMAIN t : \E j \in DOMAIN s : t[k] = s[j] /\ j # i
           /\ \A j, k \in DOMAIN t : t[j] = t[k] => j = k
<1> DEFINE t == SubSeq(s, 1, i - 1) \o SubSeq(s, i + 1, Len(s))
           From(k) == IF k < i THEN k ELSE k + 1
<1>1. /\ t \in Seq(S) /\ Len(t) = Len(s) - 1
      /\ \A k \in 1..(Len(s) - 1) : t[k] = IF k < i THEN s[k] ELSE s[k + 1]
  BY RemoveAt
<1>2. Len(s) \in Nat /\ DOMAIN s = 1..Len(s) /\ i \in 1..Len(s)
  OBVIOUS
<1> HIDE DEF t
<1>3. DOMAIN t = 1..(Len(s) - 1)
  BY <1>1, <1>2
<1>4. ASSUME NEW k \in DOMAIN t
      PROVE  From(k) \in DOMAIN s /\ From(k) # i /\ t[k] = s[From(k)]
  BY <1>1, <1>2, <1>3
<1>5. ASSUME NEW j \in DOMAIN t, NEW k \in DOMAIN t, t[j] = t[k]
      PROVE  j = k
  <2>1. From(j) = From(k)
    BY <1>4, <1>5
  <2>2. j \in Int /\ k \in Int /\ i \in Int
    BY <1>2, <1>3
  <2> QED BY <2>1, <2>2
<1>6. \A k \in DOMAIN t : \E j \in DOMAIN s : t[k] = s[j] /\ j # i
  <2> SUFFICES ASSUME NEW k \in DOMAIN t PROVE \E j \in DOMAIN s : t[k] = s[j] /\ j # i
    OBVIOUS
  <2>1. From(k) \in DOMAIN s /\ From(k) # i /\ t[k] = s[From(k)]
    BY <1>4
  <2> HIDE DEF From
  <2> QED BY <2>1
<1> QED BY <1>5, <1>6 DEF t

\* Init and exit change the list only when they begin or end with an empty one.
LEMMA ModuleQueue == IInv /\ Queue /\ Token /\ ~fault /\ ModuleStep => Queue' /\ Token'
<1> SUFFICES ASSUME IInv, Queue, Token, ~fault, ModuleStep PROVE Queue' /\ Token'
  OBVIOUS
<1>1. CASE InitChrdev
  <2>1. wait_list' = <<>> /\ ~ready'
    BY <1>1 DEF InitChrdev
  <2> QED BY <2>1 DEF Queue, Token
<1>2. CASE InitSema
  <2>1. wait_list' = <<>> /\ count' > 0
    BY <1>2 DEF InitSema
  <2> QED BY <2>1 DEF Queue, Token
<1>3. CASE InitClass \/ InitDevice \/ ExitDevice \/ ExitClass \/ ExitChrdev \/ ExitUnload
  <2>1. UNCHANGED <<load, ready, count, wait_list, pc, opened>>
    BY <1>3 DEF InitClass, InitDevice, ExitDevice, ExitClass, ExitChrdev, ExitUnload, sem
  <2> QED BY <2>1 DEF Queue, Token, Mine, Owner
<1> QED BY <1>1, <1>2, <1>3 DEF ModuleStep

\* A process waits by joining the list, stops to wait by leaving it, and gives the
\* semaphore to the count or to the first on the list.
LEMMA ProcQueue ==
    ASSUME IInv, Queue, Token, ~fault, NEW p \in Procs, Open(p) \/ Signal(p) \/ ProcStep(p)
    PROVE  Queue' /\ Token'
<1> USE DEF States, Mine, Owner
<1>0. /\ pc \in [Procs -> States] /\ opened \in [Procs -> 0..MaxLoads] /\ wait_list \in Seq(Procs)
      /\ load \in 0..MaxLoads /\ count \in {0, 1}
      /\ \A i \in DOMAIN wait_list : wait_list[i] \in Procs
  BY DEF IInv, TypeOK
<1>1. CASE ~Open(p) /\ (~Present(p) \/ DownFaults(p))
  <2>1. UNCHANGED <<pc, opened, load, ready, count, wait_list>>
    BY <1>1 DEF Signal, ProcStep, DownTakes, DownWaits, DownFaults, Granted, Restarts, Close, Step,
                module, sem
  <2> QED BY <2>1 DEF Queue, Token
<1>2. CASE Open(p)
  <2>1. /\ UNCHANGED <<load, ready, count, wait_list>> /\ pc[p] = "out"
        /\ \A q \in Procs : q # p => pc'[q] = pc[q] /\ opened'[q] = opened[q]
    BY <1>0, <1>2 DEF Open, module, sem
  <2>2. Queue'
    BY <1>0, <2>1 DEF Queue
  <2>3. Token'
    BY <1>0, <2>1 DEF Token
  <2> QED BY <2>2, <2>3
<1>3. CASE Present(p) /\ DownTakes(p)
  <2>1. /\ UNCHANGED <<load, opened, wait_list, ready>> /\ pc' = [pc EXCEPT ![p] = "in"]
        /\ count > 0
    BY <1>3 DEF DownTakes, Step, module
  <2>2. wait_list' = <<>>
    BY <2>1 DEF Queue
  <2>3. Token'
    BY <1>0, <1>3, <2>1 DEF Token, Present
  <2> QED BY <2>2, <2>3 DEF Queue
<1>4. CASE Present(p) /\ DownWaits(p)
  <2>1. /\ UNCHANGED <<load, opened, ready, count>> /\ pc' = [pc EXCEPT ![p] = "wait"]
        /\ pc[p] = "open" /\ count = 0 /\ ready /\ wait_list' = Append(wait_list, p)
    BY <1>4 DEF DownWaits, Step, module
  <2>2. /\ DOMAIN wait_list = 1..Len(wait_list) /\ DOMAIN wait_list' = 1..(Len(wait_list) + 1)
        /\ \A i \in DOMAIN wait_list : wait_list'[i] = wait_list[i]
        /\ wait_list'[Len(wait_list) + 1] = p /\ Len(wait_list) \in Nat
    BY <1>0, <2>1
  <2>3. \A i \in DOMAIN wait_list : wait_list[i] # p
    BY <2>1 DEF Queue
  <2>4. ASSUME NEW i \in DOMAIN wait_list'
        PROVE  opened'[wait_list'[i]] = load' /\ pc'[wait_list'[i]] = "wait"
    <3>1. CASE i \in DOMAIN wait_list
      BY <1>0, <2>1, <2>2, <2>3, <3>1 DEF Queue
    <3>2. CASE i = Len(wait_list) + 1
      BY <1>0, <1>4, <2>1, <2>2, <3>2 DEF Present
    <3> QED BY <2>2, <3>1, <3>2
  <2>5. ASSUME NEW i \in DOMAIN wait_list', NEW j \in DOMAIN wait_list', wait_list'[i] = wait_list'[j]
        PROVE  i = j
    BY <2>2, <2>3, <2>5 DEF Queue
  <2>6. Token'
    BY <1>0, <2>1 DEF Token
  <2> QED BY <2>1, <2>4, <2>5, <2>6 DEF Queue
<1>5. CASE Present(p) /\ Signal(p)
  <2> DEFINE i == CHOOSE i \in DOMAIN wait_list : wait_list[i] = p
             t == SubSeq(wait_list, 1, i - 1) \o SubSeq(wait_list, i + 1, Len(wait_list))
  <2>1. /\ UNCHANGED <<load, opened, ready, count>> /\ pc' = [pc EXCEPT ![p] = "signalled"]
        /\ pc[p] = "wait" /\ wait_list' = t
    BY <1>5 DEF Signal, Step, module
  <2>2. i \in DOMAIN wait_list /\ wait_list[i] = p
    BY <1>5, <2>1 DEF IInv, Listed, Present
  <2> HIDE DEF i
  <2>3. /\ \A k \in DOMAIN t : \E j \in DOMAIN wait_list : t[k] = wait_list[j] /\ j # i
        /\ \A j, k \in DOMAIN t : t[j] = t[k] => j = k
    BY <1>0, <2>2, RemoveOnly DEF Queue
  <2> HIDE DEF t
  <2>4. ASSUME NEW k \in DOMAIN t
        PROVE  opened'[t[k]] = load' /\ pc'[t[k]] = "wait"
    <3>1. PICK j \in DOMAIN wait_list : t[k] = wait_list[j] /\ j # i
      BY <2>3
    <3>2. t[k] # p
      BY <2>2, <3>1 DEF Queue
    <3> QED BY <1>0, <2>1, <3>1, <3>2 DEF Queue
  <2>5. count > 0 \/ ~ready => FALSE
    BY <1>0, <2>2 DEF Queue
  <2>6. Token'
    BY <1>0, <2>1 DEF Token
  <2> QED BY <2>1, <2>3, <2>4, <2>5, <2>6 DEF Queue
<1>6. CASE Present(p) /\ (Granted(p) \/ Restarts(p))
  <2>1. /\ UNCHANGED <<load, opened, ready, count, wait_list>> /\ pc[p] \in {"granted", "signalled"}
        /\ pc' = [pc EXCEPT ![p] = IF pc[p] = "granted" THEN "in" ELSE "out"]
    BY <1>6 DEF Granted, Restarts, Step, module, sem
  <2>2. Queue'
    BY <1>0, <2>1 DEF Queue
  <2>3. Token'
    BY <1>0, <2>1 DEF Token
  <2> QED BY <2>2, <2>3
<1>7. CASE Present(p) /\ Close(p)
  <2>1. UNCHANGED <<load, opened, ready>> /\ pc[p] = "in"
    BY <1>7 DEF Close, module
  <2>2. CASE wait_list = <<>>
    <3>1. count' = count + 1 /\ wait_list' = <<>>
      BY <1>7, <2>2 DEF Close
    <3>2. count' > 0
      BY <1>0, <3>1
    <3> QED BY <3>1, <3>2 DEF Queue, Token
  <2>3. CASE wait_list # <<>>
    <3> DEFINE head == Head(wait_list)
    <3>1. /\ wait_list' = Tail(wait_list) /\ count' = count
          /\ pc' = [pc EXCEPT ![p] = "out", ![head] = "granted"]
      BY <1>7, <2>3 DEF Close
    <3>2. /\ 1 \in DOMAIN wait_list /\ head = wait_list[1]
          /\ Len(wait_list') = Len(wait_list) - 1
          /\ DOMAIN wait_list = 1..Len(wait_list)
          /\ DOMAIN wait_list' = 1..(Len(wait_list) - 1)
          /\ \A k \in DOMAIN wait_list' : wait_list'[k] = wait_list[k + 1]
          /\ Len(wait_list) \in Nat
      BY <1>0, <2>3, <3>1
    <3>3. head \in Procs /\ Mine(head) /\ pc[head] = "wait" /\ head # p
      BY <1>0, <2>1, <3>2 DEF Queue
    <3> HIDE DEF head
    <3>4. ASSUME NEW k \in DOMAIN wait_list'
          PROVE  opened'[wait_list'[k]] = load' /\ pc'[wait_list'[k]] = "wait"
      <4>1. k + 1 \in DOMAIN wait_list /\ k + 1 # 1 /\ wait_list'[k] = wait_list[k + 1]
        BY <3>2
      <4>2. wait_list[k + 1] # head
        BY <3>2, <4>1 DEF Queue, head
      <4>3. Mine(wait_list[k + 1]) /\ pc[wait_list[k + 1]] = "wait" /\ wait_list[k + 1] \in Procs
        BY <1>0, <4>1 DEF Queue
      <4> QED BY <1>0, <2>1, <3>1, <4>1, <4>2, <4>3
    <3>5. ASSUME NEW j \in DOMAIN wait_list', NEW k \in DOMAIN wait_list',
                 wait_list'[j] = wait_list'[k]
          PROVE  j = k
      <4>1. j + 1 \in DOMAIN wait_list /\ k + 1 \in DOMAIN wait_list
            /\ wait_list[j + 1] = wait_list[k + 1]
        BY <3>2, <3>5
      <4>2. j + 1 = k + 1
        BY <4>1 DEF Queue
      <4> QED BY <3>2, <4>2
    <3>6. ~(count > 0 \/ ~ready)
      BY <2>3 DEF Queue
    <3>7. pc'[head] = "granted" /\ opened'[head] = load'
      BY <1>0, <2>1, <3>1, <3>3
    <3> QED BY <2>1, <3>1, <3>3, <3>4, <3>5, <3>6, <3>7 DEF Queue, Token
  <2> QED BY <2>2, <2>3
<1> QED BY <1>1, <1>2, <1>3, <1>4, <1>5, <1>6, <1>7 DEF ProcStep

-----------------------------------------------------------------------------
(* The theorems                                                            *)

\* Every variable keeps its type: up() never raises the count past one.
THEOREM TypeCorrect == Spec => []TypeOK
<1>1. IInv => TypeOK
  BY DEF IInv
<1> QED BY <1>1, Inductive, PTL

\* The device is a lock for every number of processes and of loads: hello_open
\* returns to one process of a load at a time, until it closes or the load is gone.
THEOREM DeviceIsALock == Spec => ImplementsLock
<1>1. Init => Holders = {}
  BY DEF Init, Holders
<1>2. IInv /\ [Next]_vars => [Lock!Next]_Holders
  <2> SUFFICES ASSUME IInv, [Next]_vars, Holders' # Holders
               PROVE  Lock!Next
    OBVIOUS
  <2> USE DEF Lock!Next, Lock!Acquire, Lock!Release
  <2>0. pc \in [Procs -> States] /\ opened \in [Procs -> 0..MaxLoads] /\ load \in 0..MaxLoads /\ count \in {0, 1}
        /\ wait_list \in Seq(Procs)
    BY DEF IInv, TypeOK
  <2>1. Next
    BY DEF vars, module, Holders, Present
  <2>2. CASE ModuleStep
    <3>1. CASE mod' = "absent"
      BY <3>1 DEF Holders, Present
    <3>2. CASE mod' # "absent" /\ ~InitChrdev
      <4>1. mod # "absent" /\ UNCHANGED <<load, pc, opened>>
        BY <2>2, <3>2 DEF ModuleStep, InitClass, InitDevice, InitSema, ExitDevice, ExitClass, ExitChrdev, ExitUnload
      <4> QED BY <3>2, <4>1 DEF Holders, Present
    <3>3. CASE InitChrdev
      <4>1. \A p \in Procs : opened'[p] # load'
        BY <2>0, <3>3, LoadsAssumption DEF InitChrdev, IInv, LoadsPast, LoadsAssumption
      <4> QED BY <3>3, <4>1 DEF Holders, Present, InitChrdev
    <3> QED BY <3>1, <3>2, <3>3
  <2>3. CASE \E p \in Procs : Open(p) \/ Signal(p) \/ ProcStep(p)
    <3>1. PICK p \in Procs : Open(p) \/ Signal(p) \/ ProcStep(p)
      BY <2>3
    <3>2. UNCHANGED module
      BY <3>1 DEF Open, Signal, ProcStep, DownTakes, DownWaits, DownFaults, Granted, Restarts, Close, Step
    <3>3. CASE Open(p)
      <4>1. \A q \in Procs : (q = p /\ pc[q] = "out" /\ pc'[q] = "open") \/ (pc'[q] = pc[q] /\ opened'[q] = opened[q])
        BY <2>0, <3>3 DEF Open
      <4> QED BY <3>2, <4>1 DEF Holders, Present, module
    <3>4. CASE ~Open(p) /\ (~Present(p) \/ DownFaults(p))
      <4>1. UNCHANGED <<pc, opened>>
        BY <3>1, <3>4 DEF Signal, ProcStep, DownTakes, DownWaits, DownFaults, Granted, Restarts, Close, Step
      <4> QED BY <3>2, <4>1 DEF Holders, Present, module
    <3>5. CASE Present(p) /\ (Signal(p) \/ DownWaits(p) \/ Restarts(p))
      <4>1. UNCHANGED opened /\ \E to \in {"wait", "signalled", "out"} : pc' = [pc EXCEPT ![p] = to] /\ pc[p] # "in"
        BY <3>5 DEF Signal, DownWaits, Restarts, Step
      <4> QED BY <2>0, <3>2, <4>1 DEF Holders, Present, module
    <3>6. CASE Present(p) /\ (DownTakes(p) \/ Granted(p))
      <4>1. UNCHANGED opened /\ pc' = [pc EXCEPT ![p] = "in"] /\ pc[p] # "in" /\ (count > 0 \/ Owner(p))
        BY <3>6 DEF DownTakes, Granted, Step, Owner, Mine, Present
      <4>2. Holders = {}
        BY <4>1 DEF Holders, Present, IInv, OneOwner, Owner, Mine
      <4>3. Holders' = {p}
        BY <2>0, <3>2, <3>6, <4>1, <4>2 DEF Holders, Present, module
      <4> QED BY <4>2, <4>3
    <3>7. CASE Present(p) /\ Close(p)
      <4>1. UNCHANGED opened /\ pc[p] = "in" /\ \A q \in Procs : pc'[q] = "in" => q # p /\ pc[q] = "in"
        BY <2>0, <3>7 DEF Close, States
      <4>2. Holders = {p}
        BY <3>7, <4>1 DEF Holders, Present, IInv, OneOwner, Owner, Mine
      <4>3. Holders' = {}
        BY <3>2, <4>1, <4>2 DEF Holders, Present, module
      <4> QED BY <4>2, <4>3
    <3> QED BY <3>1, <3>3, <3>4, <3>5, <3>6, <3>7 DEF ProcStep
  <2> QED BY <2>1, <2>2, <2>3 DEF Next
<1> QED BY <1>1, <1>2, Inductive, PTL DEF Spec, ImplementsLock, Lock!Spec, Lock!Init

\* No wakeup is lost, whatever signals, closes and removals come between: what is left
\* of the waiting in WaiterServed is that an owner takes its next step.
THEOREM WakeupsAreKept == Spec => []NobodyWaitsForNobody
<1>1. Init => Queue /\ Token
  BY DEF Init, Queue, Token
<1>2. IInv /\ Queue /\ Token /\ [Next]_vars => Queue' /\ Token'
  <2>1. CASE UNCHANGED vars
    BY <2>1 DEF vars, module, sem, Queue, Token, Mine, Owner
  <2> QED BY <2>1, ModuleQueue, ProcQueue DEF Next
<1>3. IInv /\ Queue /\ Token => NobodyWaitsForNobody
  <2> SUFFICES ASSUME IInv, Queue, Token PROVE NobodyWaitsForNobody
    OBVIOUS
  <2>1. ready => (count = 0 <=> \E p \in Procs : Owner(p))
    BY DEF IInv, TypeOK, OneOwner, Token
  <2>2. ASSUME NEW p \in Procs, Mine(p), pc[p] = "wait"
        PROVE  \E q \in Procs \ {p} : Owner(q)
    <3>1. wait_list # <<>>
      BY <2>2 DEF IInv, Listed
    <3>2. ready /\ count = 0
      BY <3>1 DEF IInv, TypeOK, Queue
    <3>3. PICK q \in Procs : Owner(q)
      BY <2>1, <3>2
    <3> QED BY <2>2, <3>3 DEF Owner
  <2> QED BY <2>1, <2>2 DEF NobodyWaitsForNobody
<1> QED BY <1>1, <1>2, <1>3, Inductive, PTL DEF Spec
=============================================================================
