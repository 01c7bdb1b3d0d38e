---------------------------- MODULE BarrierTest ----------------------------
(***************************************************************************)
(* The barrier under the program of test/test_project3/test_barrier.c: the *)
(* shell starts num_task tasks, each of which enters the barrier, leaves   *)
(* it, sleeps, and enters again.  entered and exited count the two lines a *)
(* task prints around barrier_wait.  The first task to run initialises the *)
(* barrier; that no timer interrupt falls between is_init = 1 and the call *)
(* is an assumption of this module.                                        *)
(***************************************************************************)
EXTENDS Kernel

CONSTANTS
    Rounds,   \* bound on the rounds a task runs
    Rest      \* the sleeps between two rounds, in ticks; {} for none

ASSUME BarrierAssumption == Rounds \in Nat /\ Rest \subseteq SleepTimes

VARIABLES
    entered, exited,  \* rounds begun and ended, per process
    resting           \* is the process at its sys_sleep

bvars == <<vars, entered, exited, resting>>

\* Faulty: a goal that leaves one task out.
NumOthers == NTASK - 2

NumTask == NTASK - 1
Tasks   == Pcb \ {Shell}

BInit ==
    /\ Init
    /\ entered = [p \in Tasks |-> 0]
    /\ exited  = [p \in Tasks |-> 0]
    /\ resting = [p \in Tasks |-> FALSE]

Begin(p, bar) ==
    /\ ~Contains(os.all, bar)
    /\ DoBarrierInit(p, bar, NumTask)
    /\ UNCHANGED <<entered, exited, resting>>

\* barrier_wait: the call returns at once to the task that opens the barrier.
Enter(p, bar) ==
    /\ Contains(os.all, bar)
    /\ ~resting[p] /\ entered[p] < Rounds
    /\ DoBarrierWait(p, bar)
    /\ entered' = [entered EXCEPT ![p] = @ + 1]
    /\ IF kont'[p] = User
       THEN /\ exited'  = [exited EXCEPT ![p] = @ + 1]
            /\ resting' = [resting EXCEPT ![p] = Rest # {}]
       ELSE UNCHANGED <<exited, resting>>

Leave(p, bar) ==
    /\ ResumeBarrier(p, bar)
    /\ exited'  = [exited EXCEPT ![p] = @ + 1]
    /\ resting' = [resting EXCEPT ![p] = Rest # {}]
    /\ UNCHANGED entered

Pause(p) ==
    /\ resting[p]
    /\ \E t \in Rest : DoSleep(p, t)
    /\ resting' = [resting EXCEPT ![p] = FALSE]
    /\ UNCHANGED <<entered, exited>>

\* The shell starts a task in an exited slot; a task starts at round 0.
Exec ==
    /\ \E prio \in Prios : DoSpawn(Shell, prio)
    /\ LET n == MinOf(Exiteds)
       IN /\ entered' = [entered EXCEPT ![n] = 0]
          /\ exited'  = [exited EXCEPT ![n] = 0]
          /\ resting' = [resting EXCEPT ![n] = FALSE]

BNext ==
    \/ \E p \in Pcb : Tick(p) /\ UNCHANGED <<entered, exited, resting>>
    \/ \E p \in Tasks : Pause(p)
    \/ \E p \in Tasks, bar \in Barriers : Begin(p, bar) \/ Enter(p, bar) \/ Leave(p, bar)
    \/ Exec

BSpec == BInit /\ [][BNext]_bvars

---------------------------------------------------------------------------
\* Nobody prints "Exited barrier (i)" before all num_task tasks have printed
\* "Ready to enter the barrier.(i)" (test_barrier.c), whoever is woken first
\* and however late the woken tasks count the barrier up again.
RoundsInStep == \A p, q \in Tasks : exited[p] <= entered[q]

\* The barrier opens for a task that does not block only when all the others
\* are blocked at it: num_task tasks meet, never fewer.
OpensFull == [][\A p \in Tasks, bar \in Barriers :
    entered'[p] = entered[p] + 1 /\ exited'[p] = exited[p] + 1
        => Len(os.queue[bar]) = NumTask - 1]_bvars
===========================================================================
