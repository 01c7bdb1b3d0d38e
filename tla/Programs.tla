----------------------------- MODULE Programs -----------------------------
(***************************************************************************)
(* The kernel under well-behaved programs, the ones its mechanisms are     *)
(* written for: an object is initialised once and before its first use, a  *)
(* process releases only what it holds, and nobody is killed.  What a      *)
(* process may hold when it exits is a parameter.  The properties here are *)
(* what the kernel owes such programs.                                     *)
(***************************************************************************)
EXTENDS Kernel

CONSTANTS
    ExitHolding   \* may a process exit while it holds a lock or semaphore

Registered(q) == Contains(os.all, q)
Holds(p, x)   == Contains(locks[p], x) \/ Contains(sems[p], x)
Live(p)       == os.status[p] # "EXITED"

GoodLockCalls(p) == \E l \in Locks :
    \/ ~Registered(l) /\ DoMutexLockInit(p, l)
    \/ Registered(l) /\ DoMutexLockAcquire(p, l)
    \/ Holds(p, l) /\ DoMutexLockRelease(p, l)
    \/ \E c \in Conds : Holds(p, l) /\ Registered(c) /\ DoConditionWait(p, l, c)

GoodCondCalls(p) == \E c \in Conds :
    \/ ~Registered(c) /\ DoConditionInit(p, c)
    \/ Registered(c) /\ DoConditionSignal(p, c)
    \/ Registered(c) /\ DoConditionBroadcast(p, c)

\* As in test_semaphore.c, a process ups a semaphore it has downed.
GoodSemCalls(p) == \E s \in Sems :
    \/ ~Registered(s) /\ \E v \in SemVals : DoSemaphoreInit(p, s, v)
    \/ Registered(s) /\ DoSemaphoreDown(p, s)
    \/ Holds(p, s) /\ DoSemaphoreUp(p, s)

GoodBarrierCalls(p) == \E b \in Barriers :
    \/ ~Registered(b) /\ \E goal \in Goals : DoBarrierInit(p, b, goal)
    \/ Registered(b) /\ DoBarrierWait(p, b)

GoodExit(p) ==
    /\ ExitHolding \/ (locks[p] = NoSlots /\ sems[p] = NoSlots)
    /\ SysExit(p)

GoodTaskCalls(p) ==
    \/ GoodLockCalls(p)
    \/ GoodCondCalls(p)
    \/ GoodSemCalls(p)
    \/ GoodBarrierCalls(p)
    \/ GoodExit(p)
    \/ \E t \in SleepTimes : DoSleep(p, t)
    \/ \E t \in Pcb : DoWait(p, t)

GoodNext == \E p \in Pcb :
    \/ Tick(p)
    \/ Resume(p)
    \/ p = Shell /\ \E prio \in Prios : DoSpawn(p, prio)
    \/ p # Shell /\ GoodTaskCalls(p)

GoodSpec == Init /\ [][GoodNext]_vars

\* The timer interrupt stays pending while the kernel masks it, so it is
\* taken again and again (strong fairness); kernel code runs on (weak
\* fairness); programs owe nothing.  Both are written out with the plain
\* enabling conditions of the actions: Running(p), and a pending call on the
\* CPU.
Ticks      == \E p \in Pcb : Tick(p)
Resumes    == \E p \in Pcb : Resume(p)
InUser     == \E p \in Pcb : Running(p)
Fairness ==
    /\ []<><<Ticks>>_vars \/ <>[]~InUser
    /\ []<><<Resumes>>_vars \/ []<>InUser
LiveSpec == GoodSpec /\ Fairness

---------------------------------------------------------------------------
Statuses == {"RUNNING", "READY", "BLOCKED", "EXITED"}

\* Type invariant of the kernel's state (sched.h, lock.h, sem.h, barrier.h).
TypeOK ==
    /\ DOMAIN os.queue = Queues
    /\ \A q \in Queues : os.queue[q] \in Seq(Pcb)
    /\ os.all \in Seq(Queues)
    /\ os.status \in [Pcb -> Statuses]
    /\ os.current_running \in Pcb
    /\ os.next_running \in Pcb \cup {NULL}
    /\ os.block_accur \in BOOLEAN
    /\ os.cpu_priority \in 1..HIGHEST_PRIORITY
    /\ os.priority \in [Pcb -> 0..HIGHEST_PRIORITY + 1]
    /\ os.bonus \in [Pcb -> 0..HIGHEST_PRIORITY]
    /\ os.left \in [Pcb -> Nat]
    /\ os.fault \in BOOLEAN
    /\ lock_status \in [Locks -> {"LOCKED", "UNLOCKED"}]
    /\ limit \in [Sems \cup Barriers -> Int]
    /\ locks \in [Pcb -> [Slots -> Locks \cup {NULL}]]
    /\ sems \in [Pcb -> [Slots -> Sems \cup {NULL}]]
    /\ kont \in [Pcb -> Konts]

\* The places of p: every position of every queue it is linked at.
Places(p) == UNION {{<<q, i>> : i \in {j \in DOMAIN os.queue[q] : os.queue[q][j] = p}} : q \in Queues}

\* Every live process is linked into exactly one queue, once, and into
\* ready_queue exactly when it may run; an exited one is linked nowhere; the
\* CPU belongs to the one RUNNING process (sched.c's queues and status are
\* kept by hand at every block, unblock, exit and dispatch).
QueuesAgree ==
    /\ \A p \in Pcb : IF Live(p) THEN \E pl \in Places(p) : Places(p) = {pl}
                                 ELSE Places(p) = {}
    /\ \A p \in ToSet(os.queue[Ready]) : os.status[p] \in {"READY", "RUNNING"}
    /\ \A q \in Queues \ {Ready} : \A p \in ToSet(os.queue[q]) : os.status[p] = "BLOCKED"
    /\ \A p \in Pcb : os.status[p] = "RUNNING" <=> p = os.current_running

\* A process blocked in a system call is the one its continuation describes:
\* it comes back to the loop of the object whose queue it waits in.
BlockedInCall ==
    /\ \A l \in Locks : \A p \in ToSet(os.queue[l]) : kont[p] = Acquiring(l)
    /\ \A s \in Sems : \A p \in ToSet(os.queue[s]) : kont[p] = Downing(s)
    /\ \A c \in Conds : \A p \in ToSet(os.queue[c]) :
          \E l \in Locks : kont[p] = Acquiring(l) /\ ~Contains(locks[p], l)

\* No starvation: every process the kernel calls READY gets the CPU, whatever
\* its priority and however processes wake each other.
ReadyRuns == \A p \in Pcb : os.status[p] = "READY" ~> os.status[p] # "READY"

\* do_sleep ends: a process in sleep_queue leaves it.
SleepEnds == \A p \in Pcb : Contains(os.queue[Sleep], p) ~> ~Contains(os.queue[Sleep], p)

---------------------------------------------------------------------------
(* Kernel implements Sync: a process is where its queue is.                 *)

PlaceOf(p) ==
    IF ~Live(p) THEN <<"exited">>
    ELSE LET q == CHOOSE r \in Queues : Contains(os.queue[r], p)
         IN IF q \in Objects THEN <<"on", q>> ELSE q

Promise == INSTANCE Sync WITH
    Proc    <- Pcb,
    at      <- [p \in Pcb |-> PlaceOf(p)],
    running <- os.current_running,
    inited  <- {o \in Objects : Registered(o)}

\* With its queues, priorities and next pointers, the kernel does nothing the
\* order-free specification forbids: it never runs a blocked or exited
\* process, wakes no one it should not, and forgets no one it should wake.
\* Nor does it run off an empty ready_queue: that would leave the CPU with a
\* process that has just blocked.
SyncSpec == Promise!Spec
===========================================================================
