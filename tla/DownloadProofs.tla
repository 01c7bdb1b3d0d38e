--------------------------- MODULE DownloadProofs ---------------------------
(***************************************************************************)
(* The network receiver of Big_Bonus, for any ring, any number of          *)
(* descriptors to wait for, any tasks, priorities and programs: what the   *)
(* timer has counted lies in the buffers, and a download ends with the     *)
(* parts it received in the file, in their order.                          *)
(*                                                                         *)
(* The inductive invariant DInv says that there is one receiver at a time  *)
(* and that the counter runs only while it waits (Calls); that a buffer    *)
(* that is not the engine's is full, and that those counted are among them *)
(* (Counted); that the engine fills the ring once, from its start, in      *)
(* order (Filled); and that what the receiver has not copied is still in   *)
(* buffers it has yet to come to (Filed).  A kill ends the promises of     *)
(* all four, a second download without the buffers cleared those of the    *)
(* last two.                                                               *)
(*                                                                         *)
(* The kernel is under any programs here, so what is known of it is the    *)
(* invariant of KillProofs, LinkInv, which every step keeps.  What the     *)
(* receiver needs beyond it is that nobody dies but who exits or is killed *)
(* (Outlives), whoever the scheduler, the timer or a wake-up lead to.      *)
(***************************************************************************)
EXTENDS KillProofs, Download

\* Nobody of X dies on the way from k to n.
Outlives(k, n, X) == \A y \in X : k.status[y] # "EXITED" => n.status[y] # "EXITED"

\* A scheduler's choice.
LEMMA PickOutlives ==
    ASSUME NEW k \in KRec, NEW c
    PROVE  Outlives(k, Pick(k, c), Pcb)
PROOF
  <1> DEFINE list == From(k, c)
             ready == k.queue[Ready]
             high(s, m) == {j \in DOMAIN s : Eff(k, s[j]) >= m}
             below == IF k.cpu_priority = 1 THEN HIGHEST_PRIORITY ELSE k.cpu_priority - 1
             level == CHOOSE m \in 1..below :
                         /\ \A l \in m + 1 .. below : high(ready, l) = {}
                         /\ m = 1 \/ high(ready, m) # {}
             A == high(list, k.cpu_priority)
             x == list[MinOf(A)]
             y == ready[MinOf(high(ready, level))]
             n == Pick(k, c)
  <1>1. k.status \in [Pcb -> Statuses]
    BY DEF KRec
  <1>2. ASSUME NEW r PROVE Outlives(k, [k EXCEPT !.current_running = r, !.status[r] = "RUNNING"], Pcb)
    <2> DEFINE m == [k EXCEPT !.current_running = r, !.status[r] = "RUNNING"]
    <2>1. m.status = [k.status EXCEPT ![r] = "RUNNING"]
      BY DEF KRec
    <2> HIDE DEF m
    <2>2. \A p \in Pcb : k.status[p] # "EXITED" => m.status[p] # "EXITED"
      BY <1>1, <2>1
    <2> QED  BY <2>2 DEF Outlives, m
  <1>3. CASE A # {}
    <2>1. n = [k EXCEPT !.current_running = x, !.status[x] = "RUNNING"]
      BY <1>3 DEF Pick
    <2> HIDE DEF x, n
    <2> QED  BY <1>2, <2>1 DEF n
  <1>4. CASE A = {} /\ ready = <<>>
    <2>1. n = [k EXCEPT !.fault = TRUE]
      BY <1>4 DEF Pick
    <2> HIDE DEF n
    <2>2. n.status = k.status
      BY <2>1 DEF KRec
    <2> QED  BY <2>2 DEF Outlives, n
  <1>5. CASE A = {} /\ ready # <<>>
    <2> DEFINE m == [k EXCEPT !.current_running = y, !.status[y] = "RUNNING"]
               bo == IF k.cpu_priority = 1 THEN GetBonus(k) ELSE m.bonus
    <2>1. n = [m EXCEPT !.cpu_priority = level, !.bonus = bo]
      BY <1>5 DEF Pick
    <2> HIDE DEF y, n, level, bo
    <2>2. Outlives(k, m, Pcb)
      BY <1>2
    <2>3. n.status = m.status
      BY <2>1 DEF KRec
    <2> HIDE DEF m
    <2> QED  BY <2>2, <2>3 DEF Outlives, n
  <1> QED
    <2> HIDE DEF A, ready, n
    <2> QED  BY <1>3, <1>4, <1>5 DEF n

\* do_scheduler: no status becomes EXITED.
LEMMA SchedulerOutlives ==
    ASSUME NEW k0, NEW S, NEW x, Loose(k0, S, x) \/ k0.fault = TRUE
    PROVE  Outlives(k0, Scheduler(k0), Pcb)
PROOF
  <1>1. CASE k0.fault = TRUE
    BY <1>1 DEF Scheduler, Outlives
  <1>2. CASE Loose(k0, S, x)
    <2> DEFINE k == WakeSleepers(k0)
               c == k.current_running
               n1 == [k EXCEPT !.block_accur = FALSE]
               n2 == [k EXCEPT !.status[c] = "READY"]
    <2>1. Loose(k, S, x) /\ Woken(k0, k)
      BY <1>2, WakeSleepersLoose
    <2>2. k0.fault = FALSE
      BY <1>2 DEF Loose
    <2>3. \/ Scheduler(k0) = Pick(n1, k.next_running)
          \/ Scheduler(k0) = Pick(n2, Next_(k, c))
      BY <2>2 DEF Scheduler
    <2> HIDE DEF k
    <2>4. k \in KRec /\ k.status \in [Pcb -> Statuses] /\ c \in Pcb
      BY <2>1 DEF Loose, KRec
    <2>5. n1 \in KRec /\ n1.status = k.status
      BY <2>4 DEF KRec
    <2> HIDE DEF c, n1
    <2>6. n2 \in KRec /\ n2.status = [k.status EXCEPT ![c] = "READY"]
      <3>1. [k.status EXCEPT ![c] = "READY"] \in [Pcb -> Statuses]
        BY <2>4 DEF Statuses
      <3> QED  BY <2>4, <3>1 DEF KRec
    <2> HIDE DEF n2
    <2>7. Outlives(k0, n1, Pcb) /\ Outlives(k0, n2, Pcb)
      BY <2>1, <2>4, <2>5, <2>6 DEF Outlives, Woken
    <2>8. Outlives(n1, Pick(n1, k.next_running), Pcb)
      BY <2>5, PickOutlives
    <2>9. Outlives(n2, Pick(n2, Next_(k, c)), Pcb)
      BY <2>6, PickOutlives
    <2> QED
      BY <2>3, <2>7, <2>8, <2>9 DEF Outlives
  <1> QED
    BY <1>1, <1>2

\* The timer interrupt.
LEMMA TimerOutlives ==
    ASSUME NEW k, NEW S, Wild(k, S)
    PROVE  Outlives(k, Timer(k), Pcb)
PROOF
  <1> DEFINE c == k.current_running
             lf == [p \in Pcb |-> IF Contains(k.queue[Sleep], p) /\ k.left[p] > 0
                                  THEN k.left[p] - 1 ELSE k.left[p]]
             n == [k EXCEPT !.left = lf, !.bonus[c] = 0]
  <1>1. k \in KRec /\ k.left \in [Pcb -> Nat] /\ k.bonus \in [Pcb -> 0..HIGHEST_PRIORITY]
    BY DEF Wild, Loose, KRec
  <1>2. lf \in [Pcb -> Nat]
    <2>1. \A p \in Pcb : k.left[p] \in Nat /\ (k.left[p] > 0 => k.left[p] - 1 \in Nat)
      BY <1>1
    <2> QED  BY <2>1
  <1>3. [k.bonus EXCEPT ![c] = 0] \in [Pcb -> 0..HIGHEST_PRIORITY]
    <2>1. 0 \in 0..HIGHEST_PRIORITY
      BY KernelAssumption
    <2> HIDE DEF c
    <2> QED  BY <1>1, <2>1
  <1>4. Timer(k) = Scheduler(n)
    BY DEF Timer
  <1> HIDE DEF lf
  <1>5. /\ n \in KRec /\ n.queue = k.queue /\ n.priority = k.priority
        /\ n.lost = k.lost /\ n.fault = k.fault /\ n.next_running = k.next_running
        /\ n.status = k.status /\ n.all = k.all
    BY <1>1, <1>2, <1>3 DEF KRec
  <1> HIDE DEF n, c
  <1>6. Loose(n, S, NULL)
    BY <1>5, LooseSame DEF Wild
  <1>7. Outlives(n, Scheduler(n), Pcb)
    BY <1>6, SchedulerOutlives
  <1> QED
    BY <1>4, <1>5, <1>7 DEF Outlives

\* do_block and the scheduler.
LEMMA BlockOutlives ==
    ASSUME NEW k, NEW S, Wild(k, S), NEW q \in Queues
    PROVE  Outlives(k, Scheduler(Block(k, q)), Pcb)
PROOF
  <1> DEFINE p == k.current_running
             u == Unlink(k, Ready, p)
             z == Next_(k, p)
             n == Block(k, q)
  <1>1. Loose(k, S, NULL) /\ p \in Pcb /\ k \in KRec
    BY DEF Wild, Loose
  <1>2. Parted(k, u, p)
    <2> HIDE DEF p
    <2> QED  BY <1>1, QueueNames, UnlinkParts
  <1>3. n = [u EXCEPT !.status[p] = "BLOCKED", !.next_running = z, !.queue[q] = Append(@, p), !.block_accur = TRUE]
    BY DEF Block
  <1>4. n.fault = TRUE \/ Loose(n, S, NULL)
    BY BlockLoose
  <1> HIDE DEF u, z, p, n
  <1>5. n.status = [u.status EXCEPT ![p] = "BLOCKED"]
    BY <1>2, <1>3 DEF Parted, KRec
  <1>6. Outlives(k, n, Pcb)
    BY <1>2, <1>5 DEF Parted, KRec, Outlives
  <1>7. Outlives(n, Scheduler(n), Pcb)
    BY <1>4, SchedulerOutlives
  <1> QED
    BY <1>6, <1>7 DEF Outlives, n

\* do_exit ends its caller and nobody else.
LEMMA ExitOutlives ==
    ASSUME NEW k, NEW S, Wild(k, S), NEW p \in Pcb,
           locks[p] \in [Slots -> Locks \cup {NULL}], sems[p] \in [Slots -> Sems \cup {NULL}]
    PROVE  Outlives(k, Scheduler(ExitLeaves(FreeAll(k, p), p)), Pcb \ {p})
PROOF
  <1> DEFINE f == FreeAll(k, p)
             u == Unlink(f, Ready, p)
             z == Next_(f, p)
             n == ExitLeaves(f, p)
             S1 == S \ {p}
  <1>1. Loose(f, S, p) /\ \A y \in Pcb \ {p} : f.status[y] \in {"READY", k.status[y]}
    BY FreeAllLoose DEF Wild
  <1> HIDE DEF f
  <1>2. Parted(f, u, p)
    BY <1>1, QueueNames, UnlinkParts
  <1>3. n = [u EXCEPT !.next_running = z, !.block_accur = TRUE]
    BY DEF ExitLeaves
  <1>4. n.fault = TRUE \/ Loose(n, S1, NULL)
    BY <1>1, ExitLoose
  <1> HIDE DEF u, z, n, S1
  <1>5. n.status = f.status
    BY <1>2, <1>3 DEF Parted, KRec
  <1>6. Outlives(k, n, Pcb \ {p})
    BY <1>1, <1>5 DEF Outlives
  <1>7. Outlives(n, Scheduler(n), Pcb)
    BY <1>4, SchedulerOutlives
  <1> QED
    BY <1>6, <1>7 DEF Outlives, n, f

---------------------------------------------------------------------------
(* The kernel's part of each step: its links stay whole, and nobody dies   *)
(* but who exits or is killed.                                             *)

\* The queue of the receiver is one of the kernel's.
LEMMA RecvQueue == recv_block_queue \in Objects /\ recv_block_queue \in Queues \ {Ready}
  BY DownloadAssumption, QueueNames DEF Objects

\* Nobody runs once the kernel has faulted.
LEMMA RunsOn ==
    ASSUME LinkInv, NEW p, Running(p)
    PROVE  \E S : Ongoing(S)
  BY DEF LinkInv, Running, OnCpu

\* irq_timer
LEMMA IrqLives ==
    ASSUME LinkInv, NEW p, Running(p), UNCHANGED <<locks, sems, kont>>,
           os' = Timer(os) \/ os' = Timer(Count(os))
    PROVE  LinkInv' /\ Outlives(os, os', Pcb)
PROOF
  <1>1. PICK S : Ongoing(S)
    BY RunsOn
  <1>2. Wild(os, S)
    BY <1>1, OngoingFacts
  <1>3. CASE os' = Timer(os)
    <2>1. os'.fault = TRUE \/ Wild(os', S)
      BY <1>2, <1>3, TimerWild
    <2>2. Outlives(os, os', Pcb)
      BY <1>2, <1>3, TimerOutlives
    <2> QED  BY <1>1, <2>1, <2>2, GoesOnSame
  <1>4. CASE os' = Timer(Count(os))
    <2> DEFINE n == UnblockAll(os, recv_block_queue)
    <2>1. Wild(n, S)
      BY <1>2, RecvQueue, UnblockAllWild
    <2>2. Woken(os, n)
      BY <1>2, RecvQueue, UnblockAllLoose DEF Wild
    <2>3. os' = Timer(n)
      BY <1>4 DEF Count
    <2> HIDE DEF n
    <2>4. os'.fault = TRUE \/ Wild(os', S)
      BY <2>1, <2>3, TimerWild
    <2>5. Outlives(n, os', Pcb)
      BY <2>1, <2>3, TimerOutlives
    <2>6. Outlives(os, os', Pcb)
      BY <2>2, <2>5 DEF Outlives, Woken
    <2> QED  BY <1>1, <2>4, <2>6, GoesOnSame
  <1> QED
    BY <1>3, <1>4

\* queue_init of the receiver's queue.
LEMMA InitLives ==
    ASSUME LinkInv, NEW p, Running(p), UNCHANGED <<locks, sems, kont>>,
           os' = QueueInit(os, recv_block_queue)
    PROVE  LinkInv' /\ Outlives(os, os', Pcb)
PROOF
  <1>1. PICK S : Ongoing(S)
    BY RunsOn
  <1>2. LinkInv'
    BY <1>1, RecvQueue, InitLinks
  <1>3. os'.status = os.status
    <2>1. os \in KRec
      BY <1>1, OngoingFacts
    <2> QED  BY <2>1 DEF QueueInit, KRec
  <1> QED
    BY <1>2, <1>3 DEF Outlives

\* do_wait_recv_package
LEMMA WaitLives ==
    ASSUME LinkInv, NEW p \in Pcb, Running(p), UNCHANGED <<locks, sems, kont>>,
           os' = Scheduler(Block(os, recv_block_queue))
    PROVE  LinkInv' /\ Outlives(os, os', Pcb)
PROOF
  <1>1. PICK S : Ongoing(S)
    BY RunsOn
  <1>2. LinkInv'
    BY <1>1, RecvQueue, BlockLinks, KontTypes, KontFacts
  <1>3. Outlives(os, os', Pcb)
    BY <1>1, RecvQueue, OngoingFacts, BlockOutlives
  <1> QED
    BY <1>2, <1>3

\* do_exit
LEMMA ExitLives ==
    ASSUME LinkInv, NEW p \in Pcb, SysExit(p)
    PROVE  LinkInv' /\ Outlives(os, os', Pcb \ {p})
PROOF
  <1>1. PICK S : Ongoing(S)
    BY RunsOn DEF SysExit
  <1>2. LinkInv'
    BY <1>1, ExitLinks DEF SysExit
  <1>3. os' = Scheduler(ExitLeaves(FreeAll(os, p), p))
    BY DEF SysExit, DoExit, ExitLeaves
  <1>4. Wild(os, S) /\ locks[p] \in [Slots -> Locks \cup {NULL}] /\ sems[p] \in [Slots -> Sems \cup {NULL}]
    BY <1>1, OngoingFacts
  <1>5. Outlives(os, os', Pcb \ {p})
    BY <1>3, <1>4, ExitOutlives
  <1> QED
    BY <1>2, <1>5

\* do_spawn
LEMMA SpawnLives ==
    ASSUME LinkInv, NEW prio \in Prios, DoSpawn(Shell, prio)
    PROVE  /\ LinkInv' /\ Outlives(os, os', Pcb)
           /\ MinOf(Exiteds) \in Tasks /\ os.status[MinOf(Exiteds)] = "EXITED"
           /\ os'.status[MinOf(Exiteds)] = "READY"
PROOF
  <1>1. PICK S : Ongoing(S)
    BY RunsOn DEF DoSpawn
  <1>2. LinkInv'
    BY <1>1, SpawnLinks, QueueNames
  <1>3. PICK n \in Exiteds : n = MinOf(Exiteds)
    <2>1. Exiteds \in SUBSET Nat /\ Exiteds # {}
      BY KernelAssumption DEF Exiteds, Pcb, DoSpawn
    <2> QED  BY <2>1, MinMember
  <1>4. n \in Tasks /\ os.status[n] = "EXITED" /\ n \in Pcb
    BY DEF Exiteds, Tasks
  <1>5. os \in KRec /\ os.status \in [Pcb -> Statuses]
    BY <1>1, OngoingFacts DEF KRec
  <1>6. os' = [os EXCEPT !.status[n] = "READY", !.bonus[n] = 0, !.priority[n] = prio,
                         !.queue[Ready] = Append(@, n)]
    BY <1>3 DEF DoSpawn
  <1>7. os'.status = [os.status EXCEPT ![n] = "READY"]
    BY <1>5, <1>6 DEF KRec
  <1>8. os'.status[n] = "READY" /\ Outlives(os, os', Pcb)
    BY <1>4, <1>5, <1>7 DEF Outlives
  <1> QED
    BY <1>2, <1>3, <1>4, <1>8

---------------------------------------------------------------------------
(* The inductive invariant.                                                *)

Labels == Receiving \cup {"none", "init_mac", "exit"}

TypeD ==
    /\ own \subseteq Ring /\ recv \in [Ring -> Nat \cup {Empty}] /\ dma \in Ring /\ rx \in BOOLEAN
    /\ mac_cnt \in Int
    /\ pc \in [Tasks -> Labels] /\ i \in [Tasks -> Nat] /\ file \in Seq(Nat) /\ sent \in Nat
    /\ \A p \in Tasks : pc[p] = "copy" => i[p] \in Ring

IsPart(x) == x \notin {Empty, Other}

\* One download at a time, by a live process; nothing is counted outside it.
Calls ==
    /\ \A p, r \in Tasks : pc[p] \in Receiving /\ pc[r] \in Receiving => p = r
    /\ \A p \in Tasks : pc[p] \in Receiving => os.status[p] # "EXITED"
    /\ mac_cnt >= 0 => \E p \in Tasks : pc[p] \in {"test", "wait", "stop"}

\* Whose descriptor is not the engine's has a packet, and such are counted.
Counted ==
    /\ \A p \in Tasks : pc[p] \in Receiving \ {"init"} => \A d \in Ring \ own : recv[d] # Empty
    /\ \A d \in Ring : d < mac_cnt => d \notin own
    /\ \A p \in Tasks : pc[p] = "stop" => mac_cnt >= NUM_DMA_DESC
    /\ \A p \in Tasks : pc[p] \in {"open", "copy"} => own \cap 0..NUM_DMA_DESC - 1 = {}

\* The engine fills the ring once, from its start, in the order of arrival.
Filled ==
    /\ rx => \A d \in own : d >= dma /\ \A e \in Ring : e >= dma => e \in own
    /\ \A p \in Tasks : pc[p] = "net_recv" => ~rx /\ own = Ring
    /\ \A d \in own : ~IsPart(recv[d])
    /\ \A d \in Ring : recv[d] <= sent
    /\ \A d, e \in Ring : IsPart(recv[d]) /\ IsPart(recv[e]) /\ d < e => recv[d] < recv[e]

InFile(x)      == \E m \in DOMAIN file : file[m] = x
InBuffer(x, n) == \E d \in Ring : d >= n /\ recv[d] = x

\* A part the receiver has when it stops waiting is in the file, or in a buffer
\* the copying loop has not come to.
Filed ==
    /\ \A p \in Tasks : pc[p] \in {"open", "copy"} => \A x \in had : IsPart(x)
    /\ \A p \in Tasks : pc[p] = "open" => \A x \in had : InBuffer(x, 0)
    /\ \A p \in Tasks : pc[p] = "copy" =>
         /\ \A x \in had : InFile(x) \/ InBuffer(x, i[p])
         /\ \A m \in DOMAIN file : file[m] <= sent
         /\ \A m \in DOMAIN file : \A d \in Ring : d >= i[p] /\ IsPart(recv[d]) => file[m] < recv[d]
         /\ \A m, n \in DOMAIN file : m < n => file[m] < file[n]

DInv ==
    /\ TypeD /\ LinkInv
    /\ "killed" \notin harm => Calls /\ Counted
    /\ "killed" \notin harm /\ "again" \notin harm => Filled /\ Filed

\* The ring is not empty.
LEMMA RingFacts ==
    /\ PNUM \in Nat /\ PNUM >= 1 /\ NUM_DMA_DESC \in 1..PNUM /\ 0 \in Ring
    /\ \A d \in Ring : d \in Nat /\ d < PNUM
    /\ Tasks \subseteq Pcb /\ Shell \notin Tasks
  BY DownloadAssumption DEF Ring, Tasks

\* At the start.
LEMMA DownloadInit ==
    ASSUME DInit
    PROVE  DInv
PROOF
  <1>1. LinkInv
    BY LinkInit DEF DInit
  <1>2. TypeD
    <2>1. pc \in [Tasks -> Labels] /\ i \in [Tasks -> Nat] /\ recv \in [Ring -> Nat \cup {Empty}]
      BY DEF DInit, Labels
    <2> QED  BY <2>1, RingFacts DEF DInit, TypeD
  <1>3. \A p \in Tasks : pc[p] \notin Receiving /\ pc[p] = "none"
    BY DEF DInit, Receiving
  <1>4. Calls
    BY <1>3 DEF DInit, Calls
  <1>5. Counted
    BY <1>3, RingFacts DEF DInit, Counted
  <1>6. Filled
    BY <1>3, RingFacts DEF DInit, Filled, IsPart, Empty, Other
  <1>7. Filed
    BY <1>3 DEF DInit, Filed
  <1> QED
    BY <1>1, <1>2, <1>4, <1>5, <1>6, <1>7 DEF DInv

\* A step of the receiver from one label to another.
LEMMA Alone ==
    ASSUME pc \in [Tasks -> Labels], NEW p \in Tasks, pc[p] \in Receiving, NEW l \in Labels,
           pc' = [pc EXCEPT ![p] = l], "killed" \notin harm => Calls
    PROVE  /\ pc' \in [Tasks -> Labels] /\ pc'[p] = l
           /\ "killed" \notin harm => \A r \in Tasks \ {p} : pc'[r] = pc[r] /\ pc[r] \notin Receiving
  BY DEF Calls

\* The one download stays the one.
LEMMA CallsKeep ==
    ASSUME Calls, pc \in [Tasks -> Labels], NEW p \in Tasks, pc[p] \in Receiving, NEW l \in Labels,
           pc' = [pc EXCEPT ![p] = l], l \in Receiving => Outlives(os, os', Pcb),
           mac_cnt' >= 0 => l \in {"test", "wait", "stop"}
    PROVE  Calls'
PROOF
  <1>1. \A r \in Tasks : pc'[r] \in Receiving => r = p
    BY DEF Calls
  <1>2. pc'[p] = l
    OBVIOUS
  <1>3. \A r \in Tasks : pc'[r] \in Receiving => os'.status[r] # "EXITED"
    BY <1>1, <1>2, RingFacts DEF Calls, Outlives
  <1> QED
    BY <1>1, <1>2, <1>3 DEF Calls

\* A step that leaves the tasks where they are.
LEMMA CallsSame ==
    ASSUME Calls, Outlives(os, os', Pcb), UNCHANGED pc, mac_cnt' >= 0 => mac_cnt >= 0
    PROVE  Calls'
PROOF
  <1>1. \A r \in Tasks : pc'[r] \in Receiving => os'.status[r] # "EXITED"
    BY RingFacts DEF Calls, Outlives
  <1> QED
    BY <1>1 DEF Calls

---------------------------------------------------------------------------
(* Each step keeps it.                                                     *)

\* A packet arrives.
LEMMA ArriveKeeps ==
    ASSUME DInv, Arrive
    PROVE  DInv'
PROOF
  <1>1. /\ rx /\ dma \in own /\ UNCHANGED <<vars, rest, rx, mac_cnt, ran, harm>>
        /\ own' = own \ {dma} /\ dma' = (dma + 1) % PNUM
        /\ sent' \in {sent, sent + 1}
        /\ recv' = [recv EXCEPT ![dma] = IF sent' = sent THEN Other ELSE sent + 1]
    <2>1. sent \in Nat /\ sent + 1 # sent
      BY DEF DInv, TypeD
    <2>2. CASE dma \notin Foreign
      BY <2>1, <2>2 DEF Arrive
    <2>3. CASE ~(dma \notin Foreign)
      BY <2>1, <2>3 DEF Arrive
    <2> QED  BY <2>2, <2>3
  <1>2. UNCHANGED <<os, lock_status, limit, locks, sems, kont, pc, i, file, had, execs>>
    BY <1>1 DEF vars, rest
  <1>3. TypeD /\ dma \in Ring /\ sent \in Nat /\ sent' \in Nat /\ sent' >= sent
        /\ recv \in [Ring -> Nat \cup {Empty}] /\ own \subseteq Ring
        /\ \A d \in Ring : recv[d] \in Int
    BY <1>1 DEF DInv, TypeD, Empty
  <1>4. /\ \A d \in Ring : d # dma => recv'[d] = recv[d]
        /\ recv'[dma] = (IF sent' = sent THEN Other ELSE sent + 1) /\ recv'[dma] \in Nat
        /\ IsPart(recv'[dma]) => recv'[dma] = sent + 1 /\ sent' = sent + 1
        /\ recv'[dma] # Empty
    BY <1>1, <1>3 DEF Other, Empty, IsPart
  <1>5. dma' \in Ring /\ (dma = PNUM - 1 => dma' = 0) /\ (dma # PNUM - 1 => dma' = dma + 1)
    <2>1. CASE dma = PNUM - 1
      <3>1. dma + 1 = PNUM /\ PNUM % PNUM = 0
        BY <2>1, RingFacts
      <3> QED  BY <1>1, <2>1, <3>1, RingFacts
    <2>2. CASE dma # PNUM - 1
      <3>1. dma + 1 \in 0..PNUM - 1
        BY <1>3, <2>2, RingFacts DEF Ring
      <3>2. dma' = dma + 1
        BY <1>1, <3>1, RingFacts
      <3> QED  BY <2>2, <3>1, <3>2 DEF Ring
    <2> QED  BY <2>1, <2>2
  <1>6. TypeD'
    <2>1. recv' \in [Ring -> Nat \cup {Empty}]
      BY <1>1, <1>3, <1>4
    <2> QED  BY <1>1, <1>2, <1>3, <1>5, <2>1 DEF TypeD
  <1>7. LinkInv'
    BY <1>2 DEF DInv, LinkInv, Ongoing, Slotted
  <1>8. ASSUME Calls /\ Counted PROVE Calls' /\ Counted'
    <2>1. Calls'
      BY <1>1, <1>2, <1>8 DEF Calls
    <2>2. \A d \in Ring \ own' : (recv'[d] = recv[d] /\ d \notin own) \/ recv'[d] # Empty
      BY <1>1, <1>4
    <2> QED  BY <1>1, <1>2, <1>8, <2>1, <2>2 DEF Counted
  <1>9. ASSUME Filled /\ Filed PROVE Filled' /\ Filed'
    <2>1. \A d \in own : d >= dma /\ \A e \in Ring : e >= dma => e \in own
      BY <1>1, <1>9 DEF Filled
    <2>2. ~IsPart(recv[dma]) /\ \A d \in Ring : d > dma => ~IsPart(recv[d])
      BY <1>1, <1>3, <1>9, <2>1, RingFacts DEF Filled
    <2>3. rx' => \A d \in own' : d >= dma' /\ \A e \in Ring : e >= dma' => e \in own'
      BY <1>1, <1>3, <1>5, <2>1, RingFacts
    <2>4. \A p \in Tasks : pc'[p] # "net_recv"
      BY <1>1, <1>2, <1>9 DEF Filled
    <2>5. \A d \in own' : ~IsPart(recv'[d])
      BY <1>1, <1>3, <1>4, <1>9 DEF Filled
    <2>6. \A d \in Ring : recv[d] <= sent
      BY <1>9 DEF Filled
    <2>7. ASSUME NEW d \in Ring PROVE recv'[d] <= sent'
      <3>1. CASE d = dma
        BY <1>1, <1>3, <1>4, <3>1 DEF Other
      <3>2. CASE d # dma
        <4>1. recv'[d] = recv[d] /\ recv[d] \in Int /\ recv[d] <= sent
          BY <1>3, <1>4, <2>6, <3>2
        <4> QED  BY <1>3, <4>1
      <3> QED  BY <3>1, <3>2
    <2>8. ASSUME NEW d \in Ring, NEW e \in Ring, IsPart(recv'[d]), IsPart(recv'[e]), d < e
          PROVE  recv'[d] < recv'[e]
      <3>1. CASE d = dma
        BY <1>3, <1>4, <2>2, <2>8, <3>1, RingFacts
      <3>2. CASE e = dma
        <4>1. d # dma /\ recv'[d] = recv[d] /\ recv'[e] = sent + 1
          BY <1>4, <2>8, <3>2, RingFacts
        <4>2. recv[d] \in Int /\ recv[d] <= sent
          BY <1>3, <2>6
        <4> QED  BY <1>3, <4>1, <4>2
      <3>3. CASE d # dma /\ e # dma
        BY <1>4, <1>9, <2>8, <3>3 DEF Filled
      <3> QED  BY <3>1, <3>2, <3>3
    <2>9. ASSUME NEW x, IsPart(x), NEW n, InBuffer(x, n) PROVE InBuffer(x, n)'
      <3>1. PICK d \in Ring : d >= n /\ recv[d] = x
        BY <2>9 DEF InBuffer
      <3>2. d # dma
        BY <2>2, <2>9, <3>1
      <3> QED  BY <1>4, <3>1, <3>2 DEF InBuffer
    <2>10. ASSUME NEW p \in Tasks, pc[p] = "copy"
           PROVE  /\ \A x \in had : InFile(x)' \/ InBuffer(x, i[p])'
                  /\ \A m \in DOMAIN file : file[m] <= sent'
                  /\ \A m \in DOMAIN file : \A d \in Ring : d >= i[p] /\ IsPart(recv'[d]) => file[m] < recv'[d]
      <3>1. /\ \A x \in had : InFile(x) \/ InBuffer(x, i[p])
            /\ \A m \in DOMAIN file : file[m] <= sent
            /\ \A m \in DOMAIN file : \A d \in Ring : d >= i[p] /\ IsPart(recv[d]) => file[m] < recv[d]
            /\ \A x \in had : IsPart(x)
        BY <1>9, <2>10 DEF Filed
      <3>2. \A m \in DOMAIN file : file[m] \in Nat
        BY <1>3 DEF TypeD
      <3>3. \A x \in had : InFile(x)' \/ InBuffer(x, i[p])'
        BY <1>2, <2>9, <3>1 DEF InFile
      <3>4. \A m \in DOMAIN file : file[m] <= sent'
        BY <1>3, <3>1, <3>2
      <3>5. ASSUME NEW m \in DOMAIN file, NEW d \in Ring, d >= i[p], IsPart(recv'[d]) PROVE file[m] < recv'[d]
        <4>1. CASE d = dma
          BY <1>3, <1>4, <3>1, <3>2, <3>5, <4>1
        <4>2. CASE d # dma
          BY <1>4, <3>1, <3>5, <4>2
        <4> QED  BY <4>1, <4>2
      <3> QED  BY <3>3, <3>4, <3>5
    <2>11. \A p \in Tasks : pc[p] \in {"open", "copy"} => \A x \in had : IsPart(x)
      BY <1>9 DEF Filed
    <2>12. \A p \in Tasks : pc[p] = "open" => \A x \in had : InBuffer(x, 0)'
      BY <1>9, <2>9, <2>11 DEF Filed
    <2>13. Filled'
      BY <2>3, <2>4, <2>5, <2>7, <2>8 DEF Filled
    <2>14. \A p \in Tasks : pc[p] = "copy" => \A m, n \in DOMAIN file : m < n => file[m] < file[n]
      BY <1>9 DEF Filed
    <2>15. Filed'
      BY <1>2, <2>10, <2>11, <2>12, <2>14 DEF Filed
    <2> QED  BY <2>13, <2>15
  <1> QED
    BY <1>1, <1>6, <1>7, <1>8, <1>9 DEF DInv

\* A step the kernel has no part in.
LEMMA LinkSame ==
    ASSUME LinkInv, UNCHANGED vars
    PROVE  LinkInv' /\ Outlives(os, os', Pcb) /\ UNCHANGED os
  BY DEF vars, LinkInv, Ongoing, Slotted, Outlives

\* A timer interrupt counts a packet at most.
LEMMA InterruptKeeps ==
    ASSUME DInv, NEW p \in Pcb, Interrupt(p)
    PROVE  DInv'
PROOF
  <1>1. /\ Running(p) /\ UNCHANGED <<locks, sems, kont, card, rest, harm>>
        /\ os' = Timer(os) \/ os' = Timer(Count(os))
    BY DEF Interrupt, IrqTimer
  <1>2. \/ UNCHANGED mac_cnt
        \/ mac_cnt >= 0 /\ mac_cnt' = mac_cnt + 1 /\ (mac_cnt \in Ring => mac_cnt \notin own)
    BY DEF Interrupt, IrqTimer, OwnBit
  <1>3. UNCHANGED <<own, recv, dma, rx, sent, pc, i, file, had>>
    BY <1>1 DEF card, rest
  <1>4. TypeD /\ LinkInv /\ mac_cnt \in Int
    BY DEF DInv, TypeD
  <1>5. LinkInv' /\ Outlives(os, os', Pcb)
    BY <1>1, <1>4, IrqLives
  <1>6. TypeD'
    BY <1>2, <1>3, <1>4 DEF TypeD
  <1>7. ASSUME Calls /\ Counted PROVE Calls' /\ Counted'
    <2>1. Calls'
      BY <1>2, <1>3, <1>5, <1>7, CallsSame
    <2>2. \A d \in Ring : d < mac_cnt' => d < mac_cnt \/ (d = mac_cnt /\ mac_cnt \notin own)
      BY <1>2, <1>4, RingFacts
    <2>3. \A r \in Tasks : pc'[r] = "stop" => mac_cnt' >= NUM_DMA_DESC
      BY <1>2, <1>3, <1>4, <1>7, RingFacts DEF Counted
    <2> QED  BY <1>3, <1>7, <2>1, <2>2, <2>3 DEF Counted
  <1>8. Filled => Filled'
    BY <1>3 DEF Filled
  <1>9. Filed => Filed'
    BY <1>3 DEF Filed, InFile, InBuffer
  <1> QED
    BY <1>1, <1>5, <1>6, <1>7, <1>8, <1>9 DEF DInv

\* The ring is given to the engine.
LEMMA RingInitKeeps ==
    ASSUME DInv, NEW p \in Tasks, RingInit(p)
    PROVE  DInv'
PROOF
  <1>1. /\ Running(p) /\ pc[p] = "init" /\ pc' = [pc EXCEPT ![p] = "net_recv"] /\ own' = Ring
        /\ os' = QueueInit(os, recv_block_queue)
        /\ UNCHANGED <<locks, sems, kont, recv, dma, rx, sent, mac_cnt, i, file, had>>
        /\ harm' = IF rx \/ Parts # {} THEN harm \cup {"again"} ELSE harm
    BY DEF RingInit, Here, Goto
  <1>2. TypeD /\ LinkInv /\ pc \in [Tasks -> Labels]
    BY DEF DInv, TypeD
  <1>3. LinkInv' /\ Outlives(os, os', Pcb)
    BY <1>1, <1>2, InitLives
  <1>4. pc[p] \in Receiving /\ "net_recv" \in Labels
    BY <1>1 DEF Receiving, Labels
  <1>5. /\ pc' \in [Tasks -> Labels] /\ pc'[p] = "net_recv"
        /\ "killed" \notin harm => \A r \in Tasks \ {p} : pc'[r] = pc[r] /\ pc[r] \notin Receiving
    BY <1>1, <1>2, <1>4, Alone DEF DInv
  <1>6. TypeD'
    BY <1>1, <1>2, <1>5 DEF TypeD
  <1>7. ASSUME Calls /\ Counted, "killed" \notin harm PROVE Calls' /\ Counted'
    <2>1. ~(mac_cnt >= 0)
      BY <1>1, <1>4, <1>7, <1>5 DEF Calls, Receiving
    <2>2. Calls'
      BY <1>1, <1>2, <1>3, <1>4, <1>7, <2>1, CallsKeep
    <2>3. \A r \in Tasks : pc'[r] \in Receiving => r = p
      BY <1>5, <1>7
    <2>4. \A d \in Ring : ~(d < mac_cnt)
      BY <1>2, <2>1, RingFacts DEF TypeD
    <2> QED  BY <1>1, <1>5, <2>2, <2>3, <2>4 DEF Counted, Receiving
  <1>8. ASSUME Calls, Filled /\ Filed, "killed" \notin harm, "again" \notin harm' PROVE Filled' /\ Filed'
    <2>1. ~rx /\ Parts = {}
      BY <1>1, <1>8
    <2>2. \A d \in Ring : ~IsPart(recv[d])
      BY <2>1 DEF Parts, IsPart
    <2>3. \A r \in Tasks : pc'[r] \notin {"open", "copy"}
      BY <1>5, <1>8 DEF Receiving
    <2>4. Filled'
      BY <1>1, <1>8, <2>1, <2>2 DEF Filled
    <2> QED  BY <2>3, <2>4 DEF Filed
  <1>9. ("killed" \in harm' <=> "killed" \in harm) /\ ("again" \in harm => "again" \in harm')
    BY <1>1
  <1> QED
    BY <1>3, <1>6, <1>7, <1>8, <1>9 DEF DInv

\* The engine starts.
LEMMA NetRecvKeeps ==
    ASSUME DInv, NEW p \in Tasks, NetRecv(p)
    PROVE  DInv'
PROOF
  <1>1. /\ pc[p] = "net_recv" /\ pc' = [pc EXCEPT ![p] = "zero"] /\ dma' = 0 /\ rx' = TRUE
        /\ UNCHANGED <<vars, own, recv, sent, mac_cnt, i, file, had, harm>>
    BY DEF NetRecv, Here, Goto
  <1>2. TypeD /\ LinkInv /\ pc \in [Tasks -> Labels]
    BY DEF DInv, TypeD
  <1>3. LinkInv' /\ Outlives(os, os', Pcb)
    BY <1>1, <1>2, LinkSame
  <1>4. pc[p] \in Receiving /\ "zero" \in Labels
    BY <1>1 DEF Receiving, Labels
  <1>5. /\ pc' \in [Tasks -> Labels] /\ pc'[p] = "zero"
        /\ "killed" \notin harm => \A r \in Tasks \ {p} : pc'[r] = pc[r] /\ pc[r] \notin Receiving
    BY <1>1, <1>2, <1>4, Alone DEF DInv
  <1>6. TypeD'
    BY <1>1, <1>2, <1>5, RingFacts DEF TypeD
  <1>7. ASSUME Calls /\ Counted, "killed" \notin harm PROVE Calls' /\ Counted'
    <2>1. ~(mac_cnt >= 0)
      BY <1>1, <1>4, <1>7, <1>5 DEF Calls, Receiving
    <2>2. Calls'
      BY <1>1, <1>2, <1>3, <1>4, <1>7, <2>1, CallsKeep
    <2>3. \A r \in Tasks : pc'[r] \in Receiving => r = p
      BY <1>5, <1>7
    <2>4. \A d \in Ring \ own : recv[d] # Empty
      BY <1>1, <1>4, <1>7 DEF Counted
    <2>5. \A d \in Ring : d < mac_cnt => d \notin own
      BY <1>7 DEF Counted
    <2> QED  BY <1>1, <1>5, <2>2, <2>3, <2>4, <2>5 DEF Counted, Receiving
  <1>8. ASSUME Calls, Filled /\ Filed, "killed" \notin harm PROVE Filled' /\ Filed'
    <2>1. own = Ring
      BY <1>1, <1>8 DEF Filled
    <2>2. \A r \in Tasks : pc'[r] \notin {"net_recv", "open", "copy"}
      BY <1>5, <1>8 DEF Receiving
    <2>3. Filled'
      BY <1>1, <1>8, <2>1, <2>2, RingFacts DEF Filled
    <2> QED  BY <2>2, <2>3 DEF Filed
  <1> QED
    BY <1>1, <1>3, <1>6, <1>7, <1>8 DEF DInv

\* A step of the waiting loop: it changes the label and may start the count.
LEMMA LoopStep ==
    ASSUME DInv, NEW p \in Tasks, pc[p] \in {"zero", "test", "wait"},
           NEW l \in {"test", "wait", "stop"}, pc' = [pc EXCEPT ![p] = l],
           LinkInv', Outlives(os, os', Pcb), mac_cnt' \in {0, mac_cnt},
           l = "stop" => mac_cnt' >= NUM_DMA_DESC,
           UNCHANGED <<own, recv, dma, rx, sent, i, file, had, harm>>
    PROVE  DInv'
PROOF
  <1>1. TypeD /\ pc \in [Tasks -> Labels] /\ mac_cnt \in Int
    BY DEF DInv, TypeD
  <1>2. pc[p] \in Receiving \ {"init"} /\ l \in Labels
    BY DEF Receiving, Labels
  <1>3. /\ pc' \in [Tasks -> Labels] /\ pc'[p] = l
        /\ "killed" \notin harm => \A r \in Tasks \ {p} : pc'[r] = pc[r] /\ pc[r] \notin Receiving
    BY <1>1, <1>2, Alone DEF DInv
  <1>4. TypeD'
    BY <1>1, <1>3 DEF TypeD
  <1>5. ASSUME Calls /\ Counted, "killed" \notin harm PROVE Calls' /\ Counted'
    <2>1. Calls'
      BY <1>1, <1>2, <1>5, CallsKeep
    <2>2. \A r \in Tasks : pc'[r] \in Receiving => r = p
      BY <1>3, <1>5
    <2>3. \A d \in Ring \ own : recv[d] # Empty
      BY <1>2, <1>5 DEF Counted
    <2>4. \A d \in Ring : d < mac_cnt' => d \notin own
      BY <1>5, RingFacts DEF Counted
    <2> QED  BY <1>3, <2>1, <2>2, <2>3, <2>4 DEF Counted, Receiving
  <1>6. ASSUME Filled /\ Filed, "killed" \notin harm PROVE Filled' /\ Filed'
    <2>1. \A r \in Tasks : pc'[r] \notin {"net_recv", "open", "copy"}
      BY <1>3, <1>6 DEF Receiving
    <2>2. Filled'
      BY <1>6, <2>1 DEF Filled
    <2> QED  BY <2>1, <2>2 DEF Filed
  <1> QED
    BY <1>4, <1>5, <1>6 DEF DInv

\* The count starts.
LEMMA ZeroKeeps ==
    ASSUME DInv, NEW p \in Tasks, Zero(p)
    PROVE  DInv'
PROOF
  <1>1. /\ pc[p] = "zero" /\ pc' = [pc EXCEPT ![p] = "test"] /\ mac_cnt' = 0
        /\ UNCHANGED <<vars, own, recv, dma, rx, sent, i, file, had, harm>>
    BY DEF Zero, Here, Goto, card
  <1>2. LinkInv' /\ Outlives(os, os', Pcb)
    BY <1>1, LinkSame DEF DInv
  <1> QED
    BY <1>1, <1>2, LoopStep

\* The loop's test.
LEMMA TestKeeps ==
    ASSUME DInv, NEW p \in Tasks, Test(p)
    PROVE  DInv'
PROOF
  <1> DEFINE l == IF mac_cnt < NUM_DMA_DESC THEN "wait" ELSE "stop"
  <1>1. /\ pc[p] = "test" /\ pc' = [pc EXCEPT ![p] = l]
        /\ UNCHANGED <<vars, own, recv, dma, rx, sent, mac_cnt, i, file, had, harm>>
    BY DEF Test, Here, Goto, card
  <1>2. LinkInv' /\ Outlives(os, os', Pcb)
    BY <1>1, LinkSame DEF DInv
  <1>3. l \in {"test", "wait", "stop"} /\ (l = "stop" => mac_cnt >= NUM_DMA_DESC)
    BY RingFacts DEF DInv, TypeD
  <1> HIDE DEF l
  <1>4. PICK m \in {"test", "wait", "stop"} : m = l
    BY <1>3
  <1> QED
    BY <1>1, <1>2, <1>3, <1>4, LoopStep

\* The receiver blocks.
LEMMA WaitRecvKeeps ==
    ASSUME DInv, NEW p \in Tasks, WaitRecv(p)
    PROVE  DInv'
PROOF
  <1>1. /\ Running(p) /\ pc[p] = "wait" /\ pc' = [pc EXCEPT ![p] = "test"]
        /\ os' = Scheduler(Block(os, recv_block_queue))
        /\ UNCHANGED <<locks, sems, kont, own, recv, dma, rx, sent, mac_cnt, i, file, had, harm>>
    BY DEF WaitRecv, Here, card
  <1>2. LinkInv' /\ Outlives(os, os', Pcb)
    BY <1>1, WaitLives, RingFacts DEF DInv
  <1> QED
    BY <1>1, <1>2, LoopStep

\* The receiver stops waiting: the first NUM_DMA_DESC buffers are full.
LEMMA StopKeeps ==
    ASSUME DInv, NEW p \in Tasks, Stop(p)
    PROVE  DInv'
PROOF
  <1>1. /\ pc[p] = "stop" /\ pc' = [pc EXCEPT ![p] = "open"] /\ mac_cnt' = -1 /\ had' = Parts
        /\ UNCHANGED <<vars, own, recv, dma, rx, sent, i, file, harm>>
    BY DEF Stop, Here, Goto, card
  <1>2. TypeD /\ LinkInv /\ pc \in [Tasks -> Labels]
    BY DEF DInv, TypeD
  <1>3. LinkInv' /\ Outlives(os, os', Pcb)
    BY <1>1, <1>2, LinkSame
  <1>4. pc[p] \in Receiving \ {"init"} /\ "open" \in Labels
    BY <1>1 DEF Receiving, Labels
  <1>5. /\ pc' \in [Tasks -> Labels] /\ pc'[p] = "open"
        /\ "killed" \notin harm => \A r \in Tasks \ {p} : pc'[r] = pc[r] /\ pc[r] \notin Receiving
    BY <1>1, <1>2, <1>4, Alone DEF DInv
  <1>6. TypeD'
    BY <1>1, <1>2, <1>5 DEF TypeD
  <1>7. ASSUME Calls /\ Counted, "killed" \notin harm PROVE Calls' /\ Counted'
    <2>1. Calls'
      <3>1. ~(mac_cnt' >= 0)
        BY <1>1
      <3> QED  BY <1>1, <1>2, <1>3, <1>4, <1>7, <3>1, CallsKeep
    <2>2. \A r \in Tasks : pc'[r] \in Receiving => r = p
      BY <1>5, <1>7
    <2>3. \A d \in Ring \ own : recv[d] # Empty
      BY <1>1, <1>4, <1>7 DEF Counted
    <2>4. \A d \in Ring : ~(d < mac_cnt')
      BY <1>1, RingFacts
    <2>5. own \cap 0..NUM_DMA_DESC - 1 = {}
      <3>1. mac_cnt >= NUM_DMA_DESC /\ \A d \in Ring : d < mac_cnt => d \notin own
        BY <1>1, <1>7 DEF Counted
      <3>2. own \subseteq Ring /\ mac_cnt \in Int
        BY <1>2 DEF TypeD
      <3> QED  BY <3>1, <3>2, RingFacts
    <2> QED  BY <1>1, <1>5, <2>1, <2>2, <2>3, <2>4, <2>5 DEF Counted, Receiving
  <1>8. ASSUME Filled, "killed" \notin harm PROVE Filled' /\ Filed'
    <2>1. \A r \in Tasks : pc'[r] \notin {"net_recv", "copy"}
      BY <1>5, <1>8 DEF Receiving
    <2>2. Filled'
      BY <1>1, <1>8, <2>1 DEF Filled
    <2>3. \A x \in Parts : IsPart(x) /\ \E d \in Ring : recv[d] = x /\ d >= 0
      BY RingFacts DEF Parts, IsPart
    <2> QED  BY <1>1, <2>1, <2>2, <2>3 DEF Filed, InBuffer
  <1> QED
    BY <1>1, <1>3, <1>6, <1>7, <1>8 DEF DInv

\* The file is opened anew.
LEMMA OpenKeeps ==
    ASSUME DInv, NEW p \in Tasks, Open(p)
    PROVE  DInv'
PROOF
  <1>1. /\ pc[p] = "open" /\ pc' = [pc EXCEPT ![p] = "copy"] /\ file' = <<>> /\ i' = [i EXCEPT ![p] = 0]
        /\ UNCHANGED <<vars, own, recv, dma, rx, sent, mac_cnt, had, harm>>
    BY DEF Open, Here, Goto, card
  <1>2. TypeD /\ LinkInv /\ pc \in [Tasks -> Labels] /\ i \in [Tasks -> Nat]
    BY DEF DInv, TypeD
  <1>3. LinkInv' /\ Outlives(os, os', Pcb)
    BY <1>1, <1>2, LinkSame
  <1>4. pc[p] \in Receiving \ {"init"} /\ "copy" \in Labels
    BY <1>1 DEF Receiving, Labels
  <1>5. /\ pc' \in [Tasks -> Labels] /\ pc'[p] = "copy"
        /\ "killed" \notin harm => \A r \in Tasks \ {p} : pc'[r] = pc[r] /\ pc[r] \notin Receiving
    BY <1>1, <1>2, <1>4, Alone DEF DInv
  <1>6. i' \in [Tasks -> Nat] /\ i'[p] = 0 /\ DOMAIN file' = {} /\ file' \in Seq(Nat)
    BY <1>1, <1>2
  <1>7. TypeD'
    <2>1. \A r \in Tasks : pc'[r] = "copy" => i'[r] \in Ring
      BY <1>1, <1>2, <1>6, RingFacts DEF TypeD
    <2> QED  BY <1>1, <1>2, <1>5, <1>6, <2>1 DEF TypeD
  <1>8. ASSUME Calls /\ Counted, "killed" \notin harm PROVE Calls' /\ Counted'
    <2>1. ~(mac_cnt >= 0)
      BY <1>1, <1>4, <1>5, <1>8 DEF Calls, Receiving
    <2>2. Calls'
      BY <1>1, <1>2, <1>3, <1>4, <1>8, <2>1, CallsKeep
    <2>3. \A r \in Tasks : pc'[r] \in Receiving => r = p
      BY <1>5, <1>8
    <2> QED  BY <1>1, <1>4, <1>5, <1>8, <2>2, <2>3 DEF Counted, Receiving
  <1>9. ASSUME Filled /\ Filed, "killed" \notin harm PROVE Filled' /\ Filed'
    <2>1. \A r \in Tasks : pc'[r] \notin {"net_recv", "open"} /\ (pc'[r] = "copy" => r = p)
      BY <1>5, <1>9 DEF Receiving
    <2>2. Filled'
      BY <1>1, <1>9, <2>1 DEF Filled
    <2>3. \A x \in had : IsPart(x) /\ InBuffer(x, 0)
      BY <1>1, <1>9 DEF Filed
    <2>4. \A x \in had : InBuffer(x, i[p])'
      BY <1>1, <1>6, <2>3 DEF InBuffer
    <2> QED  BY <1>1, <1>6, <2>1, <2>2, <2>3, <2>4, RingFacts DEF Filed
  <1> QED
    BY <1>1, <1>3, <1>7, <1>8, <1>9 DEF DInv

\* One buffer copied: its part, if it is one, ends the file.
LEMMA CopyFacts ==
    ASSUME TypeD, Filled, Filed, NEW p \in Tasks, Copy(p)
    PROVE  /\ \A x \in had : InFile(x)' \/ InBuffer(x, i[p] + 1)
           /\ \A m \in DOMAIN file' : file'[m] <= sent
           /\ \A m \in DOMAIN file' : \A d \in Ring : d >= i[p] + 1 /\ IsPart(recv[d]) => file'[m] < recv[d]
           /\ \A m, n \in DOMAIN file' : m < n => file'[m] < file'[n]
           /\ file' \in Seq(Nat) /\ i[p] \in Ring
PROOF
  <1> DEFINE x0 == recv[i[p]]
             L == Len(file)
  <1>1. /\ pc[p] = "copy" /\ file' = IF ~IsPart(x0) THEN file ELSE Append(file, x0)
    BY DEF Copy, Here, IsPart
  <1>2. /\ i[p] \in Ring
        /\ \A x \in had : InFile(x) \/ InBuffer(x, i[p])
        /\ \A m \in DOMAIN file : file[m] <= sent
        /\ \A m \in DOMAIN file : \A d \in Ring : d >= i[p] /\ IsPart(recv[d]) => file[m] < recv[d]
        /\ \A m, n \in DOMAIN file : m < n => file[m] < file[n]
        /\ \A x \in had : IsPart(x)
    BY <1>1 DEF Filed, TypeD
  <1>3. /\ \A d \in Ring : recv[d] <= sent /\ recv[d] \in Int
        /\ \A d, e \in Ring : IsPart(recv[d]) /\ IsPart(recv[e]) /\ d < e => recv[d] < recv[e]
        /\ \A d \in Ring : IsPart(recv[d]) => recv[d] \in Nat
    BY DEF Filled, TypeD, Empty, IsPart
  <1>4. file \in Seq(Nat) /\ L \in Nat /\ DOMAIN file = 1..L /\ \A m \in 1..L : file[m] \in Nat
    BY DEF TypeD
  <1>5. \A d \in Ring : d >= i[p] => d = i[p] \/ d >= i[p] + 1
    BY <1>2, RingFacts
  <1>6. \A d \in Ring : d >= i[p] + 1 => d >= i[p] /\ i[p] < d
    BY <1>2, RingFacts
  <1>7. CASE ~IsPart(x0)
    <2>1. file' = file
      BY <1>1, <1>7
    <2>2. ASSUME NEW x \in had PROVE InFile(x)' \/ InBuffer(x, i[p] + 1)
      <3>1. CASE InFile(x)
        BY <2>1, <3>1 DEF InFile
      <3>2. CASE InBuffer(x, i[p])
        BY <1>2, <1>5, <1>7, <3>2 DEF InBuffer
      <3> QED  BY <1>2, <3>1, <3>2
    <2> QED  BY <1>2, <1>4, <1>6, <2>1, <2>2
  <1>8. CASE IsPart(x0)
    <2>1. /\ file' \in Seq(Nat) /\ DOMAIN file' = 1..L + 1 /\ file'[L + 1] = x0
          /\ \A m \in 1..L : file'[m] = file[m]
      <3>1. x0 \in Nat /\ file' = Append(file, x0)
        BY <1>1, <1>2, <1>3, <1>8
      <3> HIDE DEF x0
      <3> QED  BY <1>4, <3>1
    <2>2. \A m \in 1..L + 1 : m \in 1..L \/ m = L + 1
      BY <1>4
    <2>3. L + 1 \in DOMAIN file' /\ 1..L \subseteq DOMAIN file'
      BY <1>4, <2>1
    <2>4. ASSUME NEW x \in had PROVE InFile(x)' \/ InBuffer(x, i[p] + 1)
      <3>1. CASE InFile(x)
        BY <1>4, <2>1, <2>3, <3>1 DEF InFile
      <3>2. CASE InBuffer(x, i[p])
        BY <1>5, <2>1, <2>3, <3>2 DEF InBuffer, InFile
      <3> QED  BY <1>2, <3>1, <3>2
    <2>5. \A m \in DOMAIN file' : file'[m] <= sent
      BY <1>2, <1>3, <1>4, <2>1, <2>2
    <2>6. ASSUME NEW m \in DOMAIN file', NEW d \in Ring, d >= i[p] + 1, IsPart(recv[d]) PROVE file'[m] < recv[d]
      <3>1. CASE m \in 1..L
        BY <1>2, <1>4, <1>6, <2>1, <2>6, <3>1
      <3>2. CASE m = L + 1
        BY <1>2, <1>3, <1>6, <1>8, <2>1, <2>6, <3>2
      <3> QED  BY <2>1, <2>2, <3>1, <3>2
    <2>7. ASSUME NEW m \in DOMAIN file', NEW n \in DOMAIN file', m < n PROVE file'[m] < file'[n]
      <3>1. m \in 1..L
        BY <1>4, <2>1, <2>7
      <3>2. CASE n \in 1..L
        BY <1>2, <1>4, <2>1, <2>7, <3>1, <3>2
      <3>3. CASE n = L + 1
        <4>1. i[p] >= i[p]
          BY <1>2, RingFacts
        <4> QED  BY <1>2, <1>4, <1>8, <2>1, <3>1, <3>3, <4>1
      <3> QED  BY <2>1, <2>2, <3>2, <3>3
    <2> QED  BY <1>2, <2>1, <2>4, <2>5, <2>6, <2>7
  <1> QED
    BY <1>7, <1>8

\* One turn of the copying loop.
LEMMA CopyKeeps ==
    ASSUME DInv, NEW p \in Tasks, Copy(p)
    PROVE  DInv'
PROOF
  <1> DEFINE l == IF i[p] + 1 = PNUM THEN "exit" ELSE "copy"
  <1>1. /\ pc[p] = "copy" /\ pc' = [pc EXCEPT ![p] = l] /\ i' = [i EXCEPT ![p] = i[p] + 1]
        /\ UNCHANGED <<vars, own, recv, dma, rx, sent, mac_cnt, had, harm>>
        /\ file' = IF recv[i[p]] \in {Empty, Other} THEN file ELSE Append(file, recv[i[p]])
    BY DEF Copy, Here, Goto, card
  <1>2. TypeD /\ LinkInv /\ pc \in [Tasks -> Labels] /\ i \in [Tasks -> Nat]
    BY DEF DInv, TypeD
  <1>3. LinkInv' /\ Outlives(os, os', Pcb)
    BY <1>1, <1>2, LinkSame
  <1>4. pc[p] \in Receiving \ {"init"} /\ l \in Labels /\ l \in {"exit", "copy"}
        /\ (l = "copy" => i[p] + 1 # PNUM)
    BY <1>1 DEF Receiving, Labels
  <1> HIDE DEF l
  <1>5. /\ pc' \in [Tasks -> Labels] /\ pc'[p] = l
        /\ "killed" \notin harm => \A r \in Tasks \ {p} : pc'[r] = pc[r] /\ pc[r] \notin Receiving
    BY <1>1, <1>2, <1>4, Alone DEF DInv
  <1>6. i' \in [Tasks -> Nat] /\ i'[p] = i[p] + 1
    BY <1>1, <1>2
  <1>7. TypeD'
    <2>1. file' \in Seq(Nat)
      <3>1. CASE recv[i[p]] \in {Empty, Other}
        BY <1>1, <1>2, <3>1 DEF TypeD
      <3>2. CASE recv[i[p]] \notin {Empty, Other}
        <4>1. file' = Append(file, recv[i[p]])
          BY <1>1, <3>2
        <4>2. recv[i[p]] \in Nat
          BY <1>1, <1>2, <3>2 DEF TypeD
        <4> QED  BY <1>2, <4>1, <4>2 DEF TypeD
      <3> QED  BY <3>1, <3>2
    <2>2. l = "copy" => i'[p] \in Ring
      BY <1>1, <1>2, <1>4, <1>6, RingFacts DEF TypeD, Ring
    <2>3. \A r \in Tasks : pc'[r] = "copy" => i'[r] \in Ring
      BY <1>1, <1>2, <1>5, <2>2 DEF TypeD
    <2> QED  BY <1>1, <1>2, <1>5, <1>6, <2>1, <2>3 DEF TypeD
  <1>8. ASSUME Calls /\ Counted, "killed" \notin harm PROVE Calls' /\ Counted'
    <2>1. ~(mac_cnt >= 0)
      BY <1>1, <1>4, <1>5, <1>8 DEF Calls, Receiving
    <2>2. Calls'
      BY <1>1, <1>2, <1>3, <1>4, <1>8, <2>1, CallsKeep
    <2>3. \A r \in Tasks : pc'[r] \in Receiving => r = p
      BY <1>5, <1>8
    <2> QED  BY <1>1, <1>4, <1>5, <1>8, <2>2, <2>3 DEF Counted, Receiving
  <1>9. ASSUME Filled /\ Filed, "killed" \notin harm PROVE Filled' /\ Filed'
    <2>1. \A r \in Tasks : pc'[r] \notin {"net_recv", "open"} /\ (pc'[r] = "copy" => r = p /\ l = "copy")
      BY <1>4, <1>5, <1>9 DEF Receiving
    <2>2. Filled'
      BY <1>1, <1>9, <2>1 DEF Filled
    <2>3. \A x \in had : IsPart(x)
      BY <1>1, <1>9 DEF Filed
    <2>4. /\ \A x \in had : InFile(x)' \/ InBuffer(x, i[p] + 1)
          /\ \A m \in DOMAIN file' : file'[m] <= sent
          /\ \A m \in DOMAIN file' : \A d \in Ring : d >= i[p] + 1 /\ IsPart(recv[d]) => file'[m] < recv[d]
          /\ \A m, n \in DOMAIN file' : m < n => file'[m] < file'[n]
          /\ i[p] \in Ring
      BY <1>2, <1>9, CopyFacts
    <2>5. \A x \in had : InBuffer(x, i[p] + 1) => InBuffer(x, i[p])'
      BY <1>1, <1>6 DEF InBuffer
    <2> QED  BY <1>1, <1>6, <2>1, <2>2, <2>3, <2>4, <2>5 DEF Filed
  <1> QED
    BY <1>1, <1>3, <1>7, <1>8, <1>9 DEF DInv

\* Another task resets the card.
LEMMA InitMacKeeps ==
    ASSUME DInv, NEW p \in Tasks, InitMac(p)
    PROVE  DInv'
PROOF
  <1>1. /\ pc[p] = "init_mac" /\ pc' = [pc EXCEPT ![p] = "exit"] /\ rx' = FALSE
        /\ UNCHANGED <<vars, own, recv, dma, sent, mac_cnt, i, file, had>>
        /\ harm' = harm \/ harm' = harm \cup {"reset"}
    BY DEF InitMac, Here, Goto
  <1>2. TypeD /\ LinkInv /\ pc \in [Tasks -> Labels]
    BY DEF DInv, TypeD
  <1>3. LinkInv' /\ Outlives(os, os', Pcb) /\ UNCHANGED os
    BY <1>1, <1>2, LinkSame
  <1>4. /\ pc' \in [Tasks -> Labels]
        /\ \A r \in Tasks : pc'[r] = pc[r] \/ (pc[r] = "init_mac" /\ pc'[r] = "exit")
    BY <1>1, <1>2 DEF Labels
  <1>5. \A r \in Tasks : (pc[r] \in Receiving <=> pc'[r] \in Receiving)
                         /\ \A l \in Receiving : pc'[r] = l <=> pc[r] = l
    BY <1>4 DEF Receiving
  <1>6. TypeD'
    BY <1>1, <1>2, <1>4 DEF TypeD
  <1>7. ASSUME Calls /\ Counted PROVE Calls' /\ Counted'
    BY <1>1, <1>3, <1>5, <1>7 DEF Calls, Counted, Receiving
  <1>8. ASSUME Filled /\ Filed PROVE Filled' /\ Filed'
    <2>1. Filled'
      BY <1>1, <1>4, <1>8 DEF Filled
    <2>2. \A r \in Tasks : pc'[r] \in {"open", "copy"} => pc[r] = pc'[r]
      BY <1>4
    <2>3. \A x, n : (InFile(x)' <=> InFile(x)) /\ (InBuffer(x, n)' <=> InBuffer(x, n))
      BY <1>1 DEF InFile, InBuffer
    <2> QED  BY <1>1, <1>8, <2>1, <2>2, <2>3 DEF Filed
  <1>9. ("killed" \in harm' <=> "killed" \in harm) /\ ("again" \in harm' <=> "again" \in harm)
    BY <1>1
  <1> QED
    BY <1>3, <1>6, <1>7, <1>8, <1>9 DEF DInv

\* Steps that leave the card, the count and the file alone, and make receivers of
\* none but one that starts a download where there is none.
LEMMA CardSame ==
    ASSUME DInv, UNCHANGED <<own, recv, dma, rx, sent, mac_cnt, i, file, had>>,
           pc' \in [Tasks -> Labels],
           LinkInv', "killed" \in harm => "killed" \in harm', "again" \in harm => "again" \in harm',
           \A r \in Tasks : pc'[r] = pc[r] \/ pc'[r] \in {"init", "init_mac"},
           "killed" \notin harm' =>
               /\ \A r \in Tasks : pc[r] \in Receiving => pc'[r] = pc[r] /\ os'.status[r] # "EXITED"
               /\ \A r \in Tasks : pc'[r] \in Receiving => os'.status[r] # "EXITED"
               /\ \A r, q \in Tasks : pc'[r] \in Receiving /\ pc'[q] \in Receiving => r = q
    PROVE  DInv'
PROOF
  <1>1. TypeD'
    BY DEF DInv, TypeD
  <1>2. ASSUME Calls /\ Counted, "killed" \notin harm' PROVE Calls' /\ Counted'
    <2>1. Calls'
      BY <1>2 DEF Calls, Receiving
    <2>2. \A r \in Tasks : pc'[r] \in Receiving \ {"init"} => pc[r] = pc'[r]
      BY DEF Receiving
    <2> QED  BY <1>2, <2>1, <2>2 DEF Counted, Receiving
  <1>3. ASSUME Filled /\ Filed PROVE Filled' /\ Filed'
    <2>1. \A r \in Tasks : pc'[r] \in {"net_recv", "open", "copy"} => pc[r] = pc'[r]
      OBVIOUS
    <2>2. Filled'
      BY <1>3, <2>1 DEF Filled
    <2>3. \A x, n : (InFile(x)' <=> InFile(x)) /\ (InBuffer(x, n)' <=> InBuffer(x, n))
      BY DEF InFile, InBuffer
    <2> QED  BY <1>3, <2>1, <2>2, <2>3 DEF Filed
  <1> QED
    BY <1>1, <1>2, <1>3 DEF DInv

\* A task ends.
LEMMA TaskExitKeeps ==
    ASSUME DInv, NEW p \in Tasks, Exit(p)
    PROVE  DInv'
PROOF
  <1>1. /\ pc[p] = "exit" /\ SysExit(p)
        /\ UNCHANGED <<own, recv, dma, rx, sent, pc, i, file, had, mac_cnt, harm>>
    BY DEF Exit, card, rest
  <1>2. LinkInv' /\ Outlives(os, os', Pcb \ {p})
    BY <1>1, ExitLives, RingFacts DEF DInv
  <1>3. ASSUME "killed" \notin harm', NEW r \in Tasks, pc[r] \in Receiving PROVE os'.status[r] # "EXITED"
    <2>1. r # p /\ r \in Pcb
      BY <1>1, <1>3, RingFacts DEF Receiving
    <2>2. os.status[r] # "EXITED"
      BY <1>1, <1>3 DEF DInv, Calls
    <2> QED  BY <1>2, <2>1, <2>2 DEF Outlives
  <1>4. "killed" \notin harm' => \A r, q \in Tasks : pc'[r] \in Receiving /\ pc'[q] \in Receiving => r = q
    BY <1>1 DEF DInv, Calls
  <1>5. pc' \in [Tasks -> Labels] /\ \A r \in Tasks : pc'[r] = pc[r]
    BY <1>1 DEF DInv, TypeD
  <1> QED
    BY <1>1, <1>2, <1>3, <1>4, <1>5, CardSame

\* The shell starts a task.
LEMMA ExecKeeps ==
    ASSUME DInv, Exec
    PROVE  DInv'
PROOF
  <1>1. PICK program \in {"init", "init_mac"}, prio \in Prios :
            /\ program = "init" => Downloads = {}
            /\ DoSpawn(Shell, prio)
            /\ pc' = [pc EXCEPT ![MinOf(Exiteds)] = program]
            /\ UNCHANGED <<own, recv, dma, rx, sent, mac_cnt, i, file, had, harm>>
    BY DEF Exec, card
  <1>2. /\ LinkInv' /\ Outlives(os, os', Pcb)
        /\ MinOf(Exiteds) \in Tasks /\ os.status[MinOf(Exiteds)] = "EXITED"
        /\ os'.status[MinOf(Exiteds)] = "READY"
    BY <1>1, SpawnLives DEF DInv
  <1>3. PICK n \in Tasks : n = MinOf(Exiteds)
    BY <1>2
  <1>4. pc \in [Tasks -> Labels] /\ pc' = [pc EXCEPT ![n] = program]
    BY <1>1, <1>3 DEF DInv, TypeD
  <1>5. /\ pc' \in [Tasks -> Labels] /\ pc'[n] = program
        /\ \A r \in Tasks : r # n => pc'[r] = pc[r]
    BY <1>4 DEF Labels, Receiving
  <1>6. ASSUME "killed" \notin harm'
        PROVE  /\ \A r \in Tasks : pc[r] \in Receiving => pc'[r] = pc[r] /\ os'.status[r] # "EXITED"
               /\ \A r \in Tasks : pc'[r] \in Receiving => os'.status[r] # "EXITED"
               /\ \A r, q \in Tasks : pc'[r] \in Receiving /\ pc'[q] \in Receiving => r = q
    <2>1. Calls
      BY <1>1, <1>6 DEF DInv
    <2>2. \A r \in Tasks : pc[r] \in Receiving => r # n /\ os'.status[r] # "EXITED"
      BY <1>2, <1>3, <2>1, RingFacts DEF Calls, Outlives
    <2>3. program = "init" => \A r \in Tasks : pc[r] \notin Receiving
      BY <1>1, <2>1 DEF Downloads, Calls
    <2>4. program = "init_mac" => program \notin Receiving
      BY DEF Receiving
    <2> QED  BY <1>2, <1>3, <1>5, <2>1, <2>2, <2>3, <2>4 DEF Calls
  <1>7. \A r \in Tasks : pc'[r] = pc[r] \/ pc'[r] \in {"init", "init_mac"}
    BY <1>5
  <1> QED
    BY <1>1, <1>2, <1>5, <1>6, <1>7, CardSame

\* The shell kills a task, and what follows is no one's promise.
LEMMA KillKeeps ==
    ASSUME DInv, NEW t \in Tasks, Kill(t)
    PROVE  DInv'
PROOF
  <1>1. /\ DoKill(Shell, t) /\ harm' = harm \cup {"killed"}
        /\ UNCHANGED <<own, recv, dma, rx, sent, pc, i, file, had, mac_cnt>>
    BY DEF Kill, card, rest
  <1>2. PICK S : Ongoing(S)
    BY <1>1, RunsOn DEF DoKill, DInv
  <1>3. LinkInv'
    BY <1>1, <1>2, KillLinks, QueueNames, RingFacts
  <1>4. pc' \in [Tasks -> Labels] /\ \A r \in Tasks : pc'[r] = pc[r]
    BY <1>1 DEF DInv, TypeD
  <1> QED
    BY <1>1, <1>3, <1>4, CardSame

\* The invariant is inductive.
LEMMA DownloadNext ==
    ASSUME DInv, [DNext]_dvars
    PROVE  DInv'
PROOF
  <1>1. ASSUME NEW p \in Tasks, TaskStep(p) PROVE DInv'
    BY <1>1, RingInitKeeps, NetRecvKeeps, ZeroKeeps, TestKeeps, WaitRecvKeeps, StopKeeps,
       OpenKeeps, CopyKeeps, InitMacKeeps, TaskExitKeeps DEF TaskStep
  <1>2. CASE UNCHANGED dvars
    <2>1. /\ UNCHANGED <<own, recv, dma, rx, sent, pc, i, file, had, mac_cnt, harm, vars>>
      BY <1>2 DEF dvars, card, rest
    <2>2. LinkInv' /\ UNCHANGED os
      BY <2>1, LinkSame DEF DInv
    <2>3. pc' \in [Tasks -> Labels] /\ \A r \in Tasks : pc'[r] = pc[r]
      BY <2>1 DEF DInv, TypeD
    <2>4. "killed" \notin harm' => Calls
      BY <2>1 DEF DInv
    <2> QED  BY <2>1, <2>2, <2>3, <2>4, CardSame DEF Calls
  <1> QED
    BY <1>1, <1>2, ArriveKeeps, InterruptKeeps, ExecKeeps, KillKeeps DEF DNext

\* A count stands for a packet, by the invariant.
LEMMA DownloadCounts ==
    ASSUME DInv
    PROVE  CountsPackets
PROOF
  <1> SUFFICES ASSUME "killed" \notin harm, NEW d \in Ring, d < mac_cnt
               PROVE  d \notin own /\ recv[d] # Empty
    BY DEF CountsPackets, Unless
  <1>1. mac_cnt >= 0
    BY RingFacts DEF DInv, TypeD
  <1>2. PICK p \in Tasks : pc[p] \in {"test", "wait", "stop"}
    BY <1>1 DEF DInv, Calls
  <1> QED
    BY <1>2 DEF DInv, Counted, Receiving

\* A download that ends has its parts in the file.
LEMMA DownloadEnds ==
    ASSUME DInv, [DNext]_dvars, "killed" \notin harm, "again" \notin harm,
           NEW p \in Tasks, pc[p] = "copy", pc'[p] = "exit"
    PROVE  /\ own \cap 0..NUM_DMA_DESC - 1 = {}
           /\ had \subseteq ToSet(file')
           /\ \A m, n \in DOMAIN file' : m < n => file'[m] < file'[n]
PROOF
  <1>1. pc \in [Tasks -> Labels] /\ TypeD /\ Calls /\ Counted /\ Filled /\ Filed
    BY DEF DInv, TypeD
  <1>2. Copy(p)
    <2>1. CASE Exec
      <3>1. PICK program \in {"init", "init_mac"} : pc' = [pc EXCEPT ![MinOf(Exiteds)] = program]
        BY <2>1 DEF Exec
      <3> QED  BY <1>1, <3>1
    <2>2. CASE Arrive \/ (\E q \in Pcb : Interrupt(q)) \/ (\E t \in Tasks : Kill(t)) \/ UNCHANGED dvars
      BY <2>2 DEF Arrive, Interrupt, Kill, dvars, rest
    <2>3. ASSUME NEW q \in Tasks, TaskStep(q) PROVE Copy(p)
      <3>1. CASE Exit(q)
        BY <3>1 DEF Exit, rest
      <3>2. CASE RingInit(q) \/ NetRecv(q) \/ Zero(q) \/ Test(q)
        BY <1>1, <3>2 DEF RingInit, NetRecv, Zero, Test, Here, Goto
      <3>3. CASE WaitRecv(q) \/ Stop(q) \/ Open(q) \/ InitMac(q)
        BY <1>1, <3>3 DEF WaitRecv, Stop, Open, InitMac, Here, Goto
      <3>4. CASE Copy(q)
        <4>1. q = p
          BY <1>1, <3>4 DEF Copy, Here, Goto
        <4> QED  BY <3>4, <4>1
      <3> QED  BY <2>3, <3>1, <3>2, <3>3, <3>4 DEF TaskStep
    <2> QED  BY <2>1, <2>2, <2>3 DEF DNext
  <1>3. i[p] + 1 = PNUM
    <2>1. pc' = [pc EXCEPT ![p] = IF i[p] + 1 = PNUM THEN "exit" ELSE "copy"]
      BY <1>2 DEF Copy, Goto
    <2> QED  BY <1>1, <2>1
  <1>4. /\ \A x \in had : InFile(x)' \/ InBuffer(x, i[p] + 1)
        /\ \A m, n \in DOMAIN file' : m < n => file'[m] < file'[n]
        /\ file' \in Seq(Nat)
    BY <1>1, <1>2, CopyFacts
  <1>5. \A x : ~InBuffer(x, i[p] + 1)
    BY <1>3, RingFacts DEF InBuffer
  <1>6. \A x \in had : x \in ToSet(file')
    BY <1>4, <1>5 DEF InFile, ToSet
  <1>7. own \cap 0..NUM_DMA_DESC - 1 = {}
    BY <1>1 DEF Counted
  <1> QED
    BY <1>4, <1>6, <1>7

\* The same as an action.
LEMMA DownloadOrder ==
    ASSUME DInv, [DNext]_dvars
    PROVE  [Unless({"again", "killed"}) =>
              \A p \in Tasks : pc[p] = "copy" /\ pc'[p] = "exit" =>
                  /\ own \cap 0..NUM_DMA_DESC - 1 = {}
                  /\ had \subseteq ToSet(file')
                  /\ \A m, n \in DOMAIN file' : m < n => file'[m] < file'[n]]_dvars
PROOF
  <1>1. Unless({"again", "killed"}) => "killed" \notin harm /\ "again" \notin harm
    BY DEF Unless
  <1> QED
    BY <1>1, DownloadEnds

\* The invariant of the network receiver.
THEOREM DownloadInv == DSpec => []DInv
  BY DownloadInit, DownloadNext, PTL DEF DSpec

\* What mac_irq_handle (irq.c, mac.c) has counted lies in the buffers, for any ring,
\* any number of tasks and any priorities, whatever order interrupts, packets,
\* resets of the card and the receiver's steps come in, unless somebody is killed.
THEOREM DownloadCountsPackets == DSpec => []CountsPackets
  BY DownloadInv, DownloadCounts, PTL

\* A download ends with NUM_DMA_DESC buffers filled, and with every part that had
\* arrived when it stopped waiting in the file, in the order of arrival (the copying
\* loop of bonus.c), unless the buffers held parts of an earlier download.
THEOREM DownloadFileInOrder == DSpec => FileInOrder
  BY DownloadInv, DownloadOrder, PTL DEF DSpec, FileInOrder
=============================================================================
