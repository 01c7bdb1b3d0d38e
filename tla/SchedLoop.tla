----------------------------- MODULE SchedLoop -----------------------------
(***************************************************************************)
(* scheduler()'s loop as it is written, one link or one wrap at a time, to *)
(* check the closed form Kernel!Pick against it in every reachable state.  *)
(*                                                                         *)
(* A walk is the kernel's state k and the candidate c, current_running in  *)
(* the loop.                                                               *)
(***************************************************************************)
EXTENDS Kills

\* Faulty: no bonus at the bottom level.
WrapWithoutBonus(k) ==
    [k EXCEPT !.cpu_priority = IF @ = 1 THEN HIGHEST_PRIORITY ELSE @ - 1]

\* At the end of a list: restart at the head of ready_queue, one level lower;
\* below level 1 the highest one is next and blocked processes get a bonus.
Wrap(k) ==
    IF k.cpu_priority = 1
    THEN [k EXCEPT !.cpu_priority = HIGHEST_PRIORITY, !.bonus = GetBonus(k)]
    ELSE [k EXCEPT !.cpu_priority = @ - 1]

\* The loop is left: somebody has the level, or ready_queue is empty and NULL
\* is dereferenced.
Ends(w) == IF w.c = NULL THEN w.k.queue[Ready] = <<>>
           ELSE Eff(w.k, w.c) >= w.k.cpu_priority

Turn(w) ==
    IF Ends(w) THEN w
    ELSE IF w.c = NULL THEN [k |-> Wrap(w.k), c |-> Head(w.k.queue[Ready])]
    ELSE [w EXCEPT !.c = Next_(w.k, w.c)]

\* The turns the loop needs at most: each level once, and each list of
\* processes once to a level.
Turns == (HIGHEST_PRIORITY + 1) * (NTASK + 1)

Loop(k, c) ==
    LET walk[n \in 0..Turns] == IF n = 0 THEN [k |-> k, c |-> c] ELSE Turn(walk[n - 1])
    IN walk[Turns]

Behind(w) == IF w.c = NULL THEN [w.k EXCEPT !.fault = TRUE]
             ELSE [w.k EXCEPT !.current_running = w.c, !.status[w.c] = "RUNNING"]

\* From wherever the scheduler starts its walk, stale pointers included, the
\* loop ends, and with the process, level and bonuses of the closed form
\* (sched.c: a wrong turn at a wrap or a level would starve someone).
PickAgrees == ~os.fault =>
    \A c \in Pcb \cup {NULL} : \A w \in {Loop(os, c)} : Ends(w) /\ Behind(w) = Pick(os, c)
===========================================================================
