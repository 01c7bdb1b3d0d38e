------------------------------ MODULE Kernel ------------------------------
(***************************************************************************)
(* The process kernel of Prj3 (kernel/sched, kernel/locking, kernel/irq):  *)
(* process table, queues, the priority scheduler, sleep, block/unblock,    *)
(* spawn, exit, kill, waitpid, mutexes, condition variables, semaphores    *)
(* and barriers.  Prj6 builds the same files.                              *)
(*                                                                         *)
(* One CPU.  The kernel runs with interrupts masked (CP0_STATUS.EXL), so a *)
(* system call is atomic up to do_scheduler(), where the process loses the *)
(* CPU and later continues behind the call: kont[p] names what is left of  *)
(* the call.  User code is preempted by Tick between any two calls.        *)
(***************************************************************************)
EXTENDS Integers, FiniteSets, SequencesExt

CONSTANTS
    NTASK,             \* NUM_MAX_TASK: slots of the process table
    MAX_LOCKS,         \* slots for held locks (and for downed semaphores)
    HIGHEST_PRIORITY,  \* the scheduler's priority levels are 1..this
    Locks, Conds, Sems, Barriers,  \* the objects in user memory
    NULL,
    Prios,             \* priorities of the tasks in the shell's table
    SleepTimes,        \* target counters a task may sleep for, in ticks
    SemVals, Goals,    \* arguments of semaphore_init and barrier_init
    LimitBound,        \* bound on a semaphore's value
    ClearsOwnSlots     \* init_one_pcb clears pcb[try]'s slots (Big_Bonus)
                       \* instead of pcb[0]'s (Prj3, Prj5, Prj6)

ASSUME KernelAssumption ==
    /\ NTASK \in Nat \ {0} /\ MAX_LOCKS \in Nat \ {0}
    /\ HIGHEST_PRIORITY \in Nat \ {0}
    /\ Prios \subseteq 1..HIGHEST_PRIORITY /\ SleepTimes \subseteq Nat
    /\ SemVals \subseteq Nat /\ Goals \subseteq Nat /\ LimitBound \in Nat
    /\ ClearsOwnSlots \in BOOLEAN

Pcb   == 0..NTASK - 1
Shell == 0
Slots == 1..MAX_LOCKS

\* The queues: ready_queue, sleep_queue, pcb[p].wait, and one per object,
\* which is named by the object itself.
Ready   == <<"ready">>
Sleep   == <<"sleep">>
Wait(p) == <<"wait", p>>
Objects == Locks \cup Conds \cup Sems \cup Barriers
Queues  == {Ready, Sleep} \cup {Wait(p) : p \in Pcb} \cup Objects

\* NULL is no process and no object; objects are told apart from each other
\* and from the kernel's own queues by their address, whatever their type.
ASSUME AddressAssumption ==
    /\ NULL \notin Pcb /\ NULL \notin Queues
    /\ Objects \cap ({Ready, Sleep} \cup {Wait(p) : p \in Pcb}) = {}
    /\ Locks \cap Conds = {} /\ Locks \cap Sems = {} /\ Locks \cap Barriers = {}
    /\ Conds \cap Sems = {} /\ Conds \cap Barriers = {} /\ Sems \cap Barriers = {}

\* What is left of a system call behind its do_scheduler().
User         == <<"user">>          \* nothing: user code continues
Acquiring(l) == <<"acquire", l>>    \* the loop of do_mutex_lock_acquire
Downing(s)   == <<"down", s>>       \* the loop of do_semaphore_down
Leaving(b)   == <<"barrier", b>>    \* limit++ of do_barrier_wait
Exited       == <<"exit">>          \* do_exit, which never returns
Konts == {User, Exited} \cup {Acquiring(l) : l \in Locks}
           \cup {Downing(s) : s \in Sems} \cup {Leaving(b) : b \in Barriers}

VARIABLES
    os,           \* the scheduler's state, a record (see TypeOK)
    lock_status,  \* mutex_lock_t.status
    limit,        \* semaphore_t.limit, barrier_t.limit
    locks,        \* pcb_t.locks[]
    sems,         \* pcb_t.sems[]
    kont          \* continuation of each process

vars == <<os, lock_status, limit, locks, sems, kont>>

NoSlots == [i \in Slots |-> NULL]

\* os.all is all_queue, the list do_kill, do_wait and get_bonus walk.
\* os.lost holds the lists of items queue_init has dropped from a queue: no
\* queue reaches them, but their links are intact.  os.left counts the ticks
\* to the end of a sleep (target_counter - current_counter).  os.fault is
\* set when the kernel dereferences NULL; nothing it defines happens then.
Init ==
    /\ os = [queue  |-> [q \in Queues |-> IF q = Ready THEN <<Shell>> ELSE <<>>],
             all    |-> <<Ready, Sleep>> \o [i \in 1..NTASK |-> Wait(i - 1)],
             lost   |-> {},
             status |-> [p \in Pcb |-> IF p = Shell THEN "RUNNING" ELSE "EXITED"],
             current_running |-> Shell,
             next_running    |-> NULL,
             block_accur     |-> FALSE,
             cpu_priority    |-> HIGHEST_PRIORITY,
             priority |-> [p \in Pcb |-> IF p = Shell THEN HIGHEST_PRIORITY + 1 ELSE 0],
             bonus    |-> [p \in Pcb |-> 0],
             left     |-> [p \in Pcb |-> 0],
             fault    |-> FALSE]
    /\ lock_status = [l \in Locks |-> "UNLOCKED"]
    /\ limit = [o \in Sems \cup Barriers |-> 0]
    /\ locks = [p \in Pcb |-> NoSlots]
    /\ sems  = [p \in Pcb |-> NoSlots]
    /\ kont  = [p \in Pcb |-> User]

---------------------------------------------------------------------------
(* queue.c on sequences.  p->next is the successor in whatever list p is   *)
(* linked into; an unlinked item has prev = next = NULL.                    *)

MinOf(S) == CHOOSE i \in S : \A j \in S : i <= j

\* A list that holds p once, without p.
Without(c, p) == RemoveAt(c, CHOOSE i \in DOMAIN c : c[i] = p)

Lists(k) == {k.queue[q] : q \in Queues} \cup k.lost

\* The list from p on: p, p->next, p->next->next, ...
From(k, p) ==
    IF p = NULL THEN <<>>
    ELSE LET at == {c \in Lists(k) : Contains(c, p)}
         IN IF at = {} THEN <<p>>
            ELSE LET c == CHOOSE c \in at : TRUE
                     i == CHOOSE i \in DOMAIN c : c[i] = p
                 IN SubSeq(c, i, Len(c))

\* Faulty: the successor is forgotten.
NextAtHead(k, p) == NULL

Next_(k, p) == LET s == From(k, p) IN IF Len(s) > 1 THEN s[2] ELSE NULL

Inner(c, p) == \E i \in 2..Len(c) - 1 : c[i] = p

\* queue_remove(q, p).  An item of another list is cut out of that list when
\* it is an inner item; otherwise its prev or next is NULL and is written to.
Unlink(k, q, p) ==
    IF Contains(k.queue[q], p)
    THEN [k EXCEPT !.queue[q] = Without(@, p)]
    ELSE LET cut(c) == IF Inner(c, p) THEN Without(c, p) ELSE c
         IN [k EXCEPT !.queue = [r \in Queues |-> cut(k.queue[r])],
                      !.lost  = {cut(c) : c \in @},
                      !.fault = \A c \in Lists(k) : ~Inner(c, p)]

\* queue_init(q): empties q and appends it to all_queue.  A queue that is
\* already in the list ends it: its own next is set to NULL.
QueueInit(k, q) ==
    [k EXCEPT !.queue[q] = <<>>,
              !.lost = IF k.queue[q] = <<>> THEN @ ELSE @ \cup {k.queue[q]},
              !.all = IF Contains(@, q)
                      THEN SubSeq(@, 1, CHOOSE i \in DOMAIN @ : @[i] = q)
                      ELSE Append(@, q)]

---------------------------------------------------------------------------
(* sched.c *)

\* Faulty: do_block without its queue_remove.
BlockInPlace(k, q) ==
    [k EXCEPT !.status[k.current_running] = "BLOCKED",
              !.next_running = Next_(k, k.current_running),
              !.queue[q]     = Append(@, k.current_running),
              !.block_accur  = TRUE]

\* do_block(q): the running process leaves ready_queue for q.
Block(k, q) ==
    LET p == k.current_running
    IN [Unlink(k, Ready, p) EXCEPT !.status[p]    = "BLOCKED",
                                   !.next_running = Next_(k, p),
                                   !.queue[q]     = Append(@, p),
                                   !.block_accur  = TRUE]

\* Faulty: the woken are moved but keep their status.
StayBlocked(k, ps) == k.status

MakeReady(k, ps) == [p \in Pcb |-> IF p \in ps THEN "READY" ELSE k.status[p]]

\* Faulty: do_unblock_one without the test for an empty queue.
UnblockHead(k, q) ==
    LET first == IF k.queue[q] = <<>> THEN NULL ELSE Head(k.queue[q])
    IN [k EXCEPT !.queue[Ready] = Append(@, first),
                 !.queue[q]     = SubSeq(@, 2, Len(@)),
                 !.status       = MakeReady(k, {first})]

UnblockOne(k, q) ==
    IF k.queue[q] = <<>> THEN k
    ELSE [k EXCEPT !.queue[Ready] = Append(@, Head(k.queue[q])),
                   !.queue[q]     = Tail(@),
                   !.status       = MakeReady(k, {Head(k.queue[q])})]

UnblockAll(k, q) ==
    [k EXCEPT !.queue[Ready] = @ \o k.queue[q],
              !.queue[q]     = <<>>,
              !.status       = MakeReady(k, ToSet(k.queue[q]))]

Waken(k, p) ==
    [k EXCEPT !.queue[Ready] = Append(@, p),
              !.queue[Sleep] = Without(@, p),
              !.status       = MakeReady(k, {p})]

\* check_sleeping: a walk along sleep_queue that wakes whoever is due.
WakeSleepers(k) ==
    LET s == k.queue[Sleep]
        walk[n \in 0..Len(s)] ==
            IF n = 0 THEN k
            ELSE IF k.left[s[n]] = 0 THEN Waken(walk[n - 1], s[n]) ELSE walk[n - 1]
    IN walk[Len(s)]

\* get_bonus: one point for everyone in a queue behind sleep_queue in
\* all_queue.  Saturating at HIGHEST_PRIORITY is exact: a bonus is only ever
\* compared, with a positive priority added, to a level of at most that.
GetBonus(k) ==
    LET i == CHOOSE j \in DOMAIN k.all : k.all[j] = Sleep
        blocked == UNION {ToSet(k.queue[k.all[j]]) : j \in i + 1 .. Len(k.all)}
    IN [p \in Pcb |-> IF p \in blocked /\ k.bonus[p] < HIGHEST_PRIORITY
                      THEN k.bonus[p] + 1 ELSE k.bonus[p]]

Eff(k, p) == k.priority[p] + k.bonus[p]

\* The scheduler's walk from candidate p.  It first follows p's links at the
\* current level; at the end of the list it restarts at the head of
\* ready_queue one level lower, until someone has that level.  Everyone in
\* ready_queue has at least level 1, so the level reached is the lower of
\* one below the current one and the best in the queue (module SchedLoop
\* checks this against the loop as it is written).
Pick(k, p) ==
    LET list    == From(k, p)
        ready   == k.queue[Ready]
        high(c, n) == {i \in DOMAIN c : Eff(k, c[i]) >= n}
        below   == IF k.cpu_priority = 1 THEN HIGHEST_PRIORITY ELSE k.cpu_priority - 1
        level   == CHOOSE n \in 1..below :
                      /\ \A m \in n + 1 .. below : high(ready, m) = {}
                      /\ n = 1 \/ high(ready, n) # {}
        run(c)  == [k EXCEPT !.current_running = c, !.status[c] = "RUNNING"]
    IN IF high(list, k.cpu_priority) # {}
       THEN run(list[MinOf(high(list, k.cpu_priority))])
       ELSE IF ready = <<>> THEN [k EXCEPT !.fault = TRUE]
       ELSE [run(ready[MinOf(high(ready, level))])
               EXCEPT !.cpu_priority = level,
                      !.bonus = IF k.cpu_priority = 1 THEN GetBonus(k) ELSE @]

\* scheduler()
Scheduler(k0) ==
    LET k == WakeSleepers(k0)
        c == k.current_running
    IN IF k0.fault THEN k0
       ELSE IF k.block_accur
            THEN Pick([k EXCEPT !.block_accur = FALSE], k.next_running)
            ELSE Pick([k EXCEPT !.status[c] = "READY"], Next_(k, c))

\* Faulty: the timer does not count for the sleepers.
TimerWithoutCount(k) == Scheduler([k EXCEPT !.bonus[k.current_running] = 0])

\* irq_timer: every sleeper's counter advances, the running process loses
\* its bonus and the scheduler chooses again.
Timer(k) ==
    Scheduler([k EXCEPT
        !.left = [p \in Pcb |-> IF Contains(k.queue[Sleep], p) /\ k.left[p] > 0
                                THEN k.left[p] - 1 ELSE k.left[p]],
        !.bonus[k.current_running] = 0])

\* What do_exit and do_kill give back on behalf of p: the queues they wake,
\* slot by slot, and the values of the objects.
Free(k, x) == IF x = NULL THEN k ELSE UnblockAll(k, x)
FreeAll(k, p) ==
    LET loop[n \in 0..MAX_LOCKS] ==
            IF n = 0 THEN UnblockAll([k EXCEPT !.status[p] = "EXITED"], Wait(p))
            ELSE Free(Free(loop[n - 1], locks[p][n]), sems[p][n])
    IN loop[MAX_LOCKS]
\* Faulty: an exit keeps its locks locked.
KeepLocks(p) == lock_status
FreeLocks(p) == [l \in Locks |-> IF Contains(locks[p], l) THEN "UNLOCKED" ELSE lock_status[l]]
FreeSems(p)  == [o \in DOMAIN limit |-> limit[o] + Cardinality({i \in Slots : sems[p][i] = o})]

\* Faulty: an exit leaves its process in ready_queue.
ExitInPlace(p) ==
    LET k == FreeAll(os, p)
    IN /\ os' = Scheduler([k EXCEPT !.next_running = Next_(k, p), !.block_accur = TRUE])
       /\ lock_status' = FreeLocks(p)
       /\ limit' = FreeSems(p)
       /\ kont' = [kont EXCEPT ![p] = Exited]
       /\ UNCHANGED <<locks, sems>>

\* do_exit of the running process p, up to its do_scheduler().
DoExit(p) ==
    LET k == FreeAll(os, p)
    IN /\ os' = Scheduler([Unlink(k, Ready, p) EXCEPT !.next_running = Next_(k, p),
                                                      !.block_accur  = TRUE])
       /\ lock_status' = FreeLocks(p)
       /\ limit' = FreeSems(p)
       /\ kont' = [kont EXCEPT ![p] = Exited]
       /\ UNCHANGED <<locks, sems>>

---------------------------------------------------------------------------
(* System calls.  p is the process on the CPU.                              *)

OnCpu(p)   == ~os.fault /\ os.current_running = p
Running(p) == OnCpu(p) /\ kont[p] = User

FreeSlots(slots) == {i \in Slots : slots[i] = NULL}
\* Faulty: the slot of a released object is kept.
KeepSlot(slots, x) == slots
Clear(slots, x)  ==  \* the first slot that holds x becomes free
    LET at == {i \in Slots : slots[i] = x}
    IN IF at = {} THEN slots ELSE [slots EXCEPT ![MinOf(at)] = NULL]

Tick(p) ==
    /\ Running(p)
    /\ os' = Timer(os)
    /\ UNCHANGED <<lock_status, limit, locks, sems, kont>>

DoSleep(p, t) ==
    /\ Running(p)
    /\ os' = Scheduler(Block([os EXCEPT !.left[p] = t], Sleep))
    /\ UNCHANGED <<lock_status, limit, locks, sems, kont>>

\* do_spawn with init_one_pcb: the first exited slot behind the shell's.  A
\* full table leaves everything as it is.
Exiteds == {n \in Pcb \ {Shell} : os.status[n] = "EXITED"}

DoSpawn(p, prio) ==
    /\ Running(p)
    /\ Exiteds # {}
    /\ LET n == MinOf(Exiteds)
           cleared == IF ClearsOwnSlots THEN n ELSE 0
       IN /\ os' = [os EXCEPT !.status[n]     = "READY",
                              !.bonus[n]      = 0,
                              !.priority[n]   = prio,
                              !.queue[Ready]  = Append(@, n)]
          /\ kont'  = [kont EXCEPT ![n] = User]
          /\ locks' = [locks EXCEPT ![cleared] = NoSlots]
          /\ sems'  = [sems EXCEPT ![cleared] = NoSlots]
    /\ UNCHANGED <<lock_status, limit>>

SysExit(p) == Running(p) /\ DoExit(p)

\* The search of do_kill and do_wait for a pid: the first queue of all_queue
\* that holds its owner.
Found(t)   == \E j \in DOMAIN os.all : Contains(os.queue[os.all[j]], t)
QueueOf(t) == CHOOSE q \in ToSet(os.all) : Contains(os.queue[q], t)

\* do_kill of another process.  It leaves next_running alone although it sets
\* block_accur, and does not call the scheduler.
DoKill(p, t) ==
    /\ Running(p)
    /\ t # p /\ Found(t)
    /\ os' = [Unlink(FreeAll(os, t), QueueOf(t), t) EXCEPT !.block_accur = TRUE]
    /\ lock_status' = FreeLocks(t)
    /\ limit' = FreeSems(t)
    /\ UNCHANGED <<locks, sems, kont>>

\* do_kill of the caller's own pid is do_exit.
DoKillSelf(p) == Running(p) /\ Found(p) /\ DoExit(p)

DoWait(p, t) ==
    /\ Running(p)
    /\ Found(t)
    /\ os' = Scheduler(Block(os, Wait(t)))
    /\ UNCHANGED <<lock_status, limit, locks, sems, kont>>

---------------------------------------------------------------------------
(* lock.c *)

DoMutexLockInit(p, l) ==
    /\ Running(p)
    /\ os' = QueueInit(os, l)
    /\ lock_status' = [lock_status EXCEPT ![l] = "UNLOCKED"]
    /\ UNCHANGED <<limit, locks, sems, kont>>

\* One turn of the loop of do_mutex_lock_acquire and what follows it: the
\* process blocks, takes the lock, or exits for want of a slot.
AcquireStep(p, l) ==
    \/ /\ lock_status[l] = "LOCKED"
       /\ os' = Scheduler(Block(os, l))
       /\ kont' = [kont EXCEPT ![p] = Acquiring(l)]
       /\ UNCHANGED <<lock_status, limit, locks, sems>>
    \/ /\ lock_status[l] = "UNLOCKED"
       /\ FreeSlots(locks[p]) # {}
       /\ locks' = [locks EXCEPT ![p][MinOf(FreeSlots(locks[p]))] = l]
       /\ lock_status' = [lock_status EXCEPT ![l] = "LOCKED"]
       /\ kont' = [kont EXCEPT ![p] = User]
       /\ UNCHANGED <<os, limit, sems>>
    \/ /\ lock_status[l] = "UNLOCKED"
       /\ FreeSlots(locks[p]) = {}
       /\ DoExit(p)

DoMutexLockAcquire(p, l) == Running(p) /\ AcquireStep(p, l)
ResumeAcquire(p, l) == OnCpu(p) /\ kont[p] = Acquiring(l) /\ AcquireStep(p, l)

DoMutexLockRelease(p, l) ==
    /\ Running(p)
    /\ os' = UnblockAll(os, l)
    /\ locks' = [locks EXCEPT ![p] = Clear(@, l)]
    /\ lock_status' = [lock_status EXCEPT ![l] = "UNLOCKED"]
    /\ UNCHANGED <<limit, sems, kont>>

---------------------------------------------------------------------------
(* cond.c *)

DoConditionInit(p, c) ==
    /\ Running(p)
    /\ os' = QueueInit(os, c)
    /\ UNCHANGED <<lock_status, limit, locks, sems, kont>>

\* The lock is released and the process blocked in one piece; behind the
\* scheduler call it acquires the lock again.
DoConditionWait(p, l, c) ==
    /\ Running(p)
    /\ os' = Scheduler(Block(UnblockAll(os, l), c))
    /\ locks' = [locks EXCEPT ![p] = Clear(@, l)]
    /\ lock_status' = [lock_status EXCEPT ![l] = "UNLOCKED"]
    /\ kont' = [kont EXCEPT ![p] = Acquiring(l)]
    /\ UNCHANGED <<limit, sems>>

DoConditionSignal(p, c) ==
    /\ Running(p)
    /\ os' = UnblockOne(os, c)
    /\ UNCHANGED <<lock_status, limit, locks, sems, kont>>

DoConditionBroadcast(p, c) ==
    /\ Running(p)
    /\ os' = UnblockAll(os, c)
    /\ UNCHANGED <<lock_status, limit, locks, sems, kont>>

---------------------------------------------------------------------------
(* sem.c *)

DoSemaphoreInit(p, s, v) ==
    /\ Running(p)
    /\ os' = QueueInit(os, s)
    /\ limit' = [limit EXCEPT ![s] = v]
    /\ UNCHANGED <<lock_status, locks, sems, kont>>

DoSemaphoreUp(p, s) ==
    /\ Running(p)
    /\ limit[s] < LimitBound
    /\ os' = UnblockAll(os, s)
    /\ sems' = [sems EXCEPT ![p] = Clear(@, s)]
    /\ limit' = [limit EXCEPT ![s] = @ + 1]
    /\ UNCHANGED <<lock_status, locks, kont>>

DownStep(p, s) ==
    \/ /\ limit[s] <= 0
       /\ os' = Scheduler(Block(os, s))
       /\ kont' = [kont EXCEPT ![p] = Downing(s)]
       /\ UNCHANGED <<lock_status, limit, locks, sems>>
    \/ /\ limit[s] > 0
       /\ FreeSlots(sems[p]) # {}
       /\ sems' = [sems EXCEPT ![p][MinOf(FreeSlots(sems[p]))] = s]
       /\ limit' = [limit EXCEPT ![s] = @ - 1]
       /\ kont' = [kont EXCEPT ![p] = User]
       /\ UNCHANGED <<os, lock_status, locks>>
    \/ /\ limit[s] > 0
       /\ FreeSlots(sems[p]) = {}
       /\ DoExit(p)

DoSemaphoreDown(p, s) == Running(p) /\ DownStep(p, s)
ResumeDown(p, s) == OnCpu(p) /\ kont[p] = Downing(s) /\ DownStep(p, s)

---------------------------------------------------------------------------
(* barrier.c *)

DoBarrierInit(p, b, goal) ==
    /\ Running(p)
    /\ os' = QueueInit(os, b)
    /\ limit' = [limit EXCEPT ![b] = goal]
    /\ UNCHANGED <<lock_status, locks, sems, kont>>

\* The last process opens the barrier: its limit-- and limit++ cancel.  The
\* others count down, block, and count up again when they get the CPU back.
DoBarrierWait(p, b) ==
    /\ Running(p)
    /\ \/ /\ limit[b] - 1 <= 0
          /\ os' = UnblockAll(os, b)
          /\ UNCHANGED <<lock_status, limit, locks, sems, kont>>
       \/ /\ limit[b] - 1 > 0
          /\ os' = Scheduler(Block(os, b))
          /\ limit' = [limit EXCEPT ![b] = @ - 1]
          /\ kont' = [kont EXCEPT ![p] = Leaving(b)]
          /\ UNCHANGED <<lock_status, locks, sems>>

\* Faulty: a process leaves the barrier without counting it up.
ReturnFromBarrier(p, b) ==
    /\ OnCpu(p) /\ kont[p] = Leaving(b)
    /\ kont' = [kont EXCEPT ![p] = User]
    /\ UNCHANGED <<os, limit, lock_status, locks, sems>>

ResumeBarrier(p, b) ==
    /\ OnCpu(p) /\ kont[p] = Leaving(b)
    /\ limit' = [limit EXCEPT ![b] = @ + 1]
    /\ kont' = [kont EXCEPT ![p] = User]
    /\ UNCHANGED <<os, lock_status, locks, sems>>

---------------------------------------------------------------------------
Resume(p) ==
    \/ \E l \in Locks : ResumeAcquire(p, l)
    \/ \E s \in Sems : ResumeDown(p, s)
    \/ \E b \in Barriers : ResumeBarrier(p, b)

LockCalls(p) == \E l \in Locks :
    \/ DoMutexLockInit(p, l)
    \/ DoMutexLockAcquire(p, l)
    \/ DoMutexLockRelease(p, l)
    \/ \E c \in Conds : DoConditionWait(p, l, c)

CondCalls(p) == \E c \in Conds :
    \/ DoConditionInit(p, c)
    \/ DoConditionSignal(p, c)
    \/ DoConditionBroadcast(p, c)

SemCalls(p) == \E s \in Sems :
    \/ \E v \in SemVals : DoSemaphoreInit(p, s, v)
    \/ DoSemaphoreUp(p, s)
    \/ DoSemaphoreDown(p, s)

BarrierCalls(p) == \E b \in Barriers :
    \/ \E goal \in Goals : DoBarrierInit(p, b, goal)
    \/ DoBarrierWait(p, b)

ProcessCalls(p) ==
    \/ \E prio \in Prios : DoSpawn(p, prio)
    \/ \E t \in Pcb : DoKill(p, t)
    \/ DoKillSelf(p)

\* The shell only spawns and kills (test_shell.c); a task makes any call.
TaskCalls(p) ==
    \/ LockCalls(p) \/ CondCalls(p) \/ SemCalls(p) \/ BarrierCalls(p)
    \/ ProcessCalls(p)
    \/ SysExit(p)
    \/ \E t \in SleepTimes : DoSleep(p, t)
    \/ \E t \in Pcb : DoWait(p, t)

Next == \E p \in Pcb :
    \/ Tick(p)
    \/ Resume(p)
    \/ p = Shell /\ ProcessCalls(p)
    \/ p # Shell /\ TaskCalls(p)

Spec == Init /\ [][Next]_vars
===========================================================================
