------------------------------- MODULE Kills -------------------------------
(***************************************************************************)
(* The kernel under every program: processes are killed, objects are       *)
(* initialised again while in use or never, and released by processes that *)
(* do not hold them.                                                       *)
(***************************************************************************)
EXTENDS Programs

\* The links of the queues survive every call sequence until a NULL is
\* dereferenced: no process is ever linked at two places, whatever is killed,
\* dispatched out of turn or initialised again (queue.c has one next and one
\* prev per process).
LinkedOnce == ~os.fault => \A p \in Pcb :
    /\ \A x, y \in Places(p) : x = y
    /\ \A c \in os.lost : Contains(c, p) => Places(p) = {}

\* do_exit never returns, whatever stale pointers the scheduler follows
\* (do_mutex_lock_acquire and do_semaphore_down rely on it: they would go on to
\* write behind the slots, lock.c and sem.c, "if (!avail) do_exit();").
ExitIsFinal == ~os.fault => kont[os.current_running] # Exited

KillSpec == Init /\ [][Next]_vars

\* A process that was killed does not run again: an exited slot comes back to
\* life only through do_spawn, as a READY process at the end of ready_queue.
DeadStayDead == [][\A p \in Pcb :
    os.status[p] = "EXITED" => os'.status[p] \in {"EXITED", "READY"}]_vars
===========================================================================
