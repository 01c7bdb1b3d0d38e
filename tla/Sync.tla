------------------------------- MODULE Sync -------------------------------
(***************************************************************************)
(* What the kernel promises the processes that use its mutexes, condition  *)
(* variables, semaphores, barriers, sleep, spawn, exit and waitpid, with   *)
(* nothing said about order: at[p] is the place of p (ready, asleep, or    *)
(* blocked on something), a switch may choose any ready process, a wakeup  *)
(* any waiter.  Kernel's queues, priorities and next pointers implement    *)
(* this (Programs!SyncSpec); SyncProofs proves its safety for every value  *)
(* of the constants.                                                       *)
(***************************************************************************)
EXTENDS Integers, FiniteSets

CONSTANTS Proc, Shell, MAX_LOCKS, Locks, Conds, Sems, Barriers, NULL,
          SemVals, Goals

Slots == 1..MAX_LOCKS
Objects == Locks \cup Conds \cup Sems \cup Barriers

\* Places of a process, and what is left of a blocked system call.
Nowhere == <<"exited">>
Ready   == <<"ready">>
Sleep   == <<"sleep">>
Wait(p) == <<"wait", p>>
On(o)   == <<"on", o>>
Places  == {Nowhere, Ready, Sleep} \cup {Wait(p) : p \in Proc} \cup {On(o) : o \in Objects}

User         == <<"user">>
Exited       == <<"exit">>
Acquiring(l) == <<"acquire", l>>
Downing(s)   == <<"down", s>>
Leaving(b)   == <<"barrier", b>>
Konts == {User, Exited} \cup {Acquiring(l) : l \in Locks}
           \cup {Downing(s) : s \in Sems} \cup {Leaving(b) : b \in Barriers}

\* Objects are told apart by their address, whatever their type.
ASSUME SyncAssumption ==
    /\ MAX_LOCKS \in Nat /\ Shell \in Proc /\ IsFiniteSet(Proc)
    /\ NULL \notin Locks \cup Sems
    /\ SemVals \subseteq Nat /\ Goals \subseteq Nat
    /\ Locks \cap Conds = {} /\ Locks \cap Sems = {} /\ Locks \cap Barriers = {}
    /\ Conds \cap Sems = {} /\ Conds \cap Barriers = {} /\ Sems \cap Barriers = {}

VARIABLES at, running, kont, inited, lock_status, limit, locks, sems

vars == <<at, running, kont, inited, lock_status, limit, locks, sems>>

NoSlots == [i \in Slots |-> NULL]

Init ==
    /\ at = [p \in Proc |-> IF p = Shell THEN Ready ELSE Nowhere]
    /\ running = Shell
    /\ kont = [p \in Proc |-> User]
    /\ inited = {}
    /\ lock_status = [l \in Locks |-> "UNLOCKED"]
    /\ limit = [o \in Sems \cup Barriers |-> 0]
    /\ locks = [p \in Proc |-> NoSlots]
    /\ sems  = [p \in Proc |-> NoSlots]

Live(p)     == at[p] # Nowhere
Running(p)  == running = p /\ kont[p] = User
Has(p, l)   == \E i \in Slots : locks[p][i] = l
\* Faulty: an exit forgets what its process has downed.
DownedNothing(p, s) == {}
Downed(p, s) == {i \in Slots : sems[p][i] = s}

\* The CPU goes to some ready process, after some sleepers have woken up.
Switch(place) ==
    \E up \in SUBSET {p \in Proc : place[p] = Sleep} :
        /\ at' = [p \in Proc |-> IF p \in up THEN Ready ELSE place[p]]
        /\ \E q \in Proc : at'[q] = Ready /\ running' = q

\* Faulty: the woken are put on the CPU, not into the ready queue.
WokenRunning(S) == [p \in Proc |-> IF at[p] \in S THEN <<"running">> ELSE at[p]]

\* The places after everyone whose place is in S has become ready.
Woken(S) == [p \in Proc |-> IF at[p] \in S THEN Ready ELSE at[p]]

Preempt(p) ==
    /\ Running(p)
    /\ Switch(at)
    /\ UNCHANGED <<kont, inited, lock_status, limit, locks, sems>>

DoSleep(p) ==
    /\ Running(p)
    /\ Switch([at EXCEPT ![p] = Sleep])
    /\ UNCHANGED <<kont, inited, lock_status, limit, locks, sems>>

DoWait(p, t) ==
    /\ Running(p) /\ Live(t)
    /\ Switch([at EXCEPT ![p] = Wait(t)])
    /\ UNCHANGED <<kont, inited, lock_status, limit, locks, sems>>

DoSpawn(p, n) ==
    /\ Running(p) /\ ~Live(n)
    /\ at' = [at EXCEPT ![n] = Ready]
    /\ kont' = [kont EXCEPT ![n] = User]
    /\ locks' = [locks EXCEPT ![n] = NoSlots]
    /\ sems' = [sems EXCEPT ![n] = NoSlots]
    /\ UNCHANGED <<running, inited, lock_status, limit>>

\* Faulty: an exit wakes nobody who waits for its semaphores.
GivenLocks(p) == {Wait(p)} \cup {On(l) : l \in {m \in Locks : Has(p, m)}}

\* An exit gives back every lock and every down, and wakes whoever waits for
\* them or for the exit.
Given(p) == {Wait(p)} \cup {On(l) : l \in {m \in Locks : Has(p, m)}}
              \cup {On(s) : s \in {r \in Sems : Downed(p, r) # {}}}

Exit(p) ==
    /\ Switch([Woken(Given(p)) EXCEPT ![p] = Nowhere])
    /\ lock_status' = [l \in Locks |-> IF Has(p, l) THEN "UNLOCKED" ELSE lock_status[l]]
    /\ limit' = [o \in Sems \cup Barriers |->
                    IF o \in Sems THEN limit[o] + Cardinality(Downed(p, o)) ELSE limit[o]]
    /\ kont' = [kont EXCEPT ![p] = Exited]
    /\ UNCHANGED <<inited, locks, sems>>

DoExit(p) == Running(p) /\ Exit(p)

---------------------------------------------------------------------------
\* Faulty: an object in use is initialised again.
ObjectReinit(p, o) == Running(p) /\ inited' = inited \cup {o}

ObjectInit(p, o) == Running(p) /\ o \notin inited /\ inited' = inited \cup {o}

DoMutexLockInit(p, l) ==
    /\ ObjectInit(p, l)
    /\ lock_status' = [lock_status EXCEPT ![l] = "UNLOCKED"]
    /\ UNCHANGED <<at, running, kont, limit, locks, sems>>

DoConditionInit(p, c) ==
    /\ ObjectInit(p, c)
    /\ UNCHANGED <<at, running, kont, lock_status, limit, locks, sems>>

DoSemaphoreInit(p, s, v) ==
    /\ ObjectInit(p, s)
    /\ limit' = [limit EXCEPT ![s] = v]
    /\ UNCHANGED <<at, running, kont, lock_status, locks, sems>>

DoBarrierInit(p, b, g) ==
    /\ ObjectInit(p, b)
    /\ limit' = [limit EXCEPT ![b] = g]
    /\ UNCHANGED <<at, running, kont, lock_status, locks, sems>>

---------------------------------------------------------------------------
\* A process asks for a mutex, or comes back to ask again.
Acquire(p, l) ==
    /\ running = p /\ l \in inited
    /\ kont[p] \in {User, Acquiring(l)}
    /\ \/ /\ lock_status[l] = "LOCKED"
          /\ Switch([at EXCEPT ![p] = On(l)])
          /\ kont' = [kont EXCEPT ![p] = Acquiring(l)]
          /\ UNCHANGED <<inited, lock_status, limit, locks, sems>>
       \/ /\ lock_status[l] = "UNLOCKED"
          /\ \E i \in Slots : /\ locks[p][i] = NULL
                              /\ locks' = [locks EXCEPT ![p][i] = l]
          /\ lock_status' = [lock_status EXCEPT ![l] = "LOCKED"]
          /\ kont' = [kont EXCEPT ![p] = User]
          /\ UNCHANGED <<at, running, inited, limit, sems>>
       \/ /\ lock_status[l] = "UNLOCKED"
          /\ NULL \notin {locks[p][i] : i \in Slots}
          /\ Exit(p)

\* Faulty: the lock is free but its slot is not.
UnlockKeepsSlot(p, l) ==
    /\ Has(p, l) /\ locks' = locks
    /\ lock_status' = [lock_status EXCEPT ![l] = "UNLOCKED"]

Unlock(p, l) ==
    /\ \E i \in Slots : /\ locks[p][i] = l
                        /\ locks' = [locks EXCEPT ![p][i] = NULL]
    /\ lock_status' = [lock_status EXCEPT ![l] = "UNLOCKED"]

DoMutexLockRelease(p, l) ==
    /\ Running(p)
    /\ Unlock(p, l)
    /\ at' = Woken({On(l)})
    /\ UNCHANGED <<running, kont, inited, limit, sems>>

DoConditionWait(p, l, c) ==
    /\ Running(p)
    /\ Unlock(p, l)
    /\ Switch([Woken({On(l)}) EXCEPT ![p] = On(c)])
    /\ kont' = [kont EXCEPT ![p] = Acquiring(l)]
    /\ UNCHANGED <<inited, limit, sems>>

DoConditionSignal(p, c) ==
    /\ Running(p)
    /\ \E q \in Proc : at[q] = On(c) /\ at' = [at EXCEPT ![q] = Ready]
    /\ UNCHANGED <<running, kont, inited, lock_status, limit, locks, sems>>

DoConditionBroadcast(p, c) ==
    /\ Running(p)
    /\ at' = Woken({On(c)})
    /\ UNCHANGED <<running, kont, inited, lock_status, limit, locks, sems>>

Down(p, s) ==
    /\ running = p /\ s \in inited
    /\ kont[p] \in {User, Downing(s)}
    /\ \/ /\ limit[s] <= 0
          /\ Switch([at EXCEPT ![p] = On(s)])
          /\ kont' = [kont EXCEPT ![p] = Downing(s)]
          /\ UNCHANGED <<inited, lock_status, limit, locks, sems>>
       \/ /\ limit[s] > 0
          /\ \E i \in Slots : /\ sems[p][i] = NULL
                              /\ sems' = [sems EXCEPT ![p][i] = s]
          /\ limit' = [limit EXCEPT ![s] = @ - 1]
          /\ kont' = [kont EXCEPT ![p] = User]
          /\ UNCHANGED <<at, running, inited, lock_status, locks>>
       \/ /\ limit[s] > 0
          /\ NULL \notin {sems[p][i] : i \in Slots}
          /\ Exit(p)

DoSemaphoreUp(p, s) ==
    /\ Running(p)
    /\ \E i \in Slots : /\ sems[p][i] = s
                        /\ sems' = [sems EXCEPT ![p][i] = NULL]
    /\ limit' = [limit EXCEPT ![s] = @ + 1]
    /\ at' = Woken({On(s)})
    /\ UNCHANGED <<running, kont, inited, lock_status, locks>>

Arrive(p, b) ==
    /\ Running(p) /\ b \in inited
    /\ \/ /\ limit[b] <= 1
          /\ at' = Woken({On(b)})
          /\ UNCHANGED <<running, kont, inited, lock_status, limit, locks, sems>>
       \/ /\ limit[b] > 1
          /\ Switch([at EXCEPT ![p] = On(b)])
          /\ limit' = [limit EXCEPT ![b] = @ - 1]
          /\ kont' = [kont EXCEPT ![p] = Leaving(b)]
          /\ UNCHANGED <<inited, lock_status, locks, sems>>

\* Faulty: a process leaves the barrier without counting it up.
LeaveSilently(p, b) ==
    /\ running = p /\ kont[p] = Leaving(b)
    /\ kont' = [kont EXCEPT ![p] = User]
    /\ UNCHANGED <<at, running, inited, lock_status, limit, locks, sems>>

Leave(p, b) ==
    /\ running = p /\ kont[p] = Leaving(b)
    /\ limit' = [limit EXCEPT ![b] = @ + 1]
    /\ kont' = [kont EXCEPT ![p] = User]
    /\ UNCHANGED <<at, running, inited, lock_status, locks, sems>>

---------------------------------------------------------------------------
ProcStep(p) ==
    \/ Preempt(p) \/ DoSleep(p) \/ DoExit(p)
    \/ \E t \in Proc : DoWait(p, t) \/ DoSpawn(p, t)

LockStep(p) == \E l \in Locks :
    \/ DoMutexLockInit(p, l) \/ Acquire(p, l) \/ DoMutexLockRelease(p, l)
    \/ \E c \in Conds : DoConditionWait(p, l, c)

CondStep(p) == \E c \in Conds :
    DoConditionInit(p, c) \/ DoConditionSignal(p, c) \/ DoConditionBroadcast(p, c)

SemStep(p) == \E s \in Sems :
    \/ \E v \in SemVals : DoSemaphoreInit(p, s, v)
    \/ Down(p, s) \/ DoSemaphoreUp(p, s)

BarrierStep(p) == \E b \in Barriers :
    \/ \E g \in Goals : DoBarrierInit(p, b, g)
    \/ Arrive(p, b) \/ Leave(p, b)

Next == \E p \in Proc :
    ProcStep(p) \/ LockStep(p) \/ CondStep(p) \/ SemStep(p) \/ BarrierStep(p)

Spec == Init /\ [][Next]_vars

---------------------------------------------------------------------------
TypeOK ==
    /\ at \in [Proc -> Places]
    /\ running \in Proc
    /\ kont \in [Proc -> Konts]
    /\ inited \subseteq Objects
    /\ lock_status \in [Locks -> {"LOCKED", "UNLOCKED"}]
    /\ limit \in [Sems \cup Barriers -> Int]
    /\ locks \in [Proc -> [Slots -> Locks \cup {NULL}]]
    /\ sems \in [Proc -> [Slots -> Sems \cup {NULL}]]

\* The process on the CPU is a ready one: it has not exited and is in no
\* waiting queue (scheduler() only picks from ready_queue).
RunningReady == at[running] = Ready

\* At most one live process holds a mutex, in one slot (lock.c).
MutualExclusion == \A l \in Locks : \A p, q \in Proc : \A i, j \in Slots :
    Live(p) /\ Live(q) /\ locks[p][i] = l /\ locks[q][j] = l => p = q /\ i = j

\* A mutex is LOCKED exactly while a live process holds it.
LockedIffHeld == \A l \in Locks :
    lock_status[l] = "LOCKED" <=> \E p \in Proc : Live(p) /\ Has(p, l)

\* Whoever is blocked on a mutex, a semaphore or another's exit waits for
\* something that has still to happen: the unlock, the up, the exit.
Awaits(p) ==
    /\ \A l \in Locks : at[p] = On(l) => lock_status[l] = "LOCKED"
    /\ \A s \in Sems : at[p] = On(s) => limit[s] <= 0
    /\ \A t \in Proc : at[p] = Wait(t) => Live(t)
NoLostWakeup == \A p \in Proc : Awaits(p)

\* A semaphore's value and the downs still owed to it by live processes add up
\* to the value it was initialised with, and the value is never negative.
Owed(s) == {x \in Proc \X Slots : Live(x[1]) /\ sems[x[1]][x[2]] = s}
Balanced(s) ==
    /\ limit[s] >= 0
    /\ \E v \in SemVals : limit[s] + Cardinality(Owed(s)) = v
SemConserved == \A s \in Sems \cap inited : Balanced(s)

\* The processes that have counted a barrier down and not yet up again make
\* up what is missing from its goal, and whoever is blocked at a barrier is
\* one of them: a barrier never traps as many processes as its goal.
Inside(b) == {p \in Proc : kont[p] = Leaving(b)}
Complete(b) == \E g \in Goals : limit[b] + Cardinality(Inside(b)) = g
Trapped(b)  == \A p \in Proc : at[p] = On(b) => kont[p] = Leaving(b) /\ limit[b] > 0
BarrierConserved == \A b \in Barriers : (b \in inited => Complete(b)) /\ Trapped(b)

\* Nobody has used an object before its init call.
Unused ==
    /\ \A l \in Locks \ inited : lock_status[l] = "UNLOCKED"
    /\ \A s \in Sems \ inited : \A p \in Proc : at[p] # On(s)

\* The inductive invariant behind the lock properties (proved in SyncProofs).
\* A mutex taken by a process that is not ready, or initialised while held,
\* would break the pieces one by one; together they survive every call.
LockInv == TypeOK /\ RunningReady /\ MutualExclusion /\ LockedIffHeld
             /\ NoLostWakeup /\ Unused

\* What the conservation laws need besides: before its init nobody has downed
\* a semaphore or entered a barrier, and an exit is no way out of a barrier.
SemInv == \A s \in Sems : IF s \in inited THEN Balanced(s) ELSE Owed(s) = {}
BarrierInv ==
    /\ BarrierConserved
    /\ \A b \in Barriers \ inited : Inside(b) = {}
    /\ \A p \in Proc : ~Live(p) => kont[p] \in {User, Exited}
===========================================================================
